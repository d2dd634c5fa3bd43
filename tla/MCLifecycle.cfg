SPECIFICATION Spec
CONSTANTS
    Accepts = {a1, a2}
    Sessions = {s1, s2}
    MaxConnections = 1
    CountModulus = 8
    NoSession = NoSession
    NoThread = NoThread
SYMMETRY Symmetry
INVARIANTS
    CountersExact
    StopQuiesces
    NoOrphanSession
    AdmissionBound
