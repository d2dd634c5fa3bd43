SPECIFICATION FairSpec
CONSTANTS
    Accepts = {a1}
    Sessions = {s1}
    MaxConnections = 1
    CountModulus = 8
    NoSession = NoSession
    NoThread = NoThread
PROPERTY
    StopReturns
