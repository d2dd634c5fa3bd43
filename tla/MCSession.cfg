SPECIFICATION MCSpec
CONSTANTS
    HandshakeTimeout = 1
    IdleTimeout = 2
    PingInterval = 1
    PongTimeout = 1
    CloseTimeout = 1
    MaxPass = 1
    Callers = {}
    Queues = {q1, q2}
    Sizes = {0, 1, 3, 7}
    SessionLimit = 5
    GlobalLimit = 6
    Word = 8
    MaxPushes = 3
CHECK_DEADLOCK FALSE
INVARIANTS
    TypeOK
    TimersNotEarly
    UpgradeFirst
    CloseKept
    QueuesExact
