SPECIFICATION MCSpec
CONSTANTS
    HandshakeTimeout = 1
    IdleTimeout = 1
    PingInterval = 1
    PongTimeout = 1
    CloseTimeout = 1
    MaxPass = 0
    Callers = {}
    Signals = {interrupt, close, shutdown}
CHECK_DEADLOCK FALSE
PROPERTIES
    SessionsEnd
    PongAwaited
    RequestStops
