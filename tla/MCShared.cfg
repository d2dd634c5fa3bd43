SPECIFICATION MCSpec
CONSTANTS
    Capacity = 4
    Threads = {"t1", "t2", "t3"}
    Sessions = {s1, s2}
    MaxSession = 2
    MaxGlobal = 2
    Chunks = {1, 2}
    Width = 16
SYMMETRY Symmetry
INVARIANTS
    FreeListIsChain
    OneOwner
    ChecksSilent
    InboundExact
    LimitDeserved
