SPECIFICATION MCSpec
CONSTANTS
    Accepts = {a1, a2}
    Sessions = {s1}
    MaxConnections = 1
    CountModulus = 8
    NoSession = NoSession
    NoThread = NoThread
CHECK_DEADLOCK FALSE
PROPERTIES
    DisconnectEnds
    StopReturnsUnlessLate
    ItemsMove
