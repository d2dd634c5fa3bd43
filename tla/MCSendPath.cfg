SPECIFICATION Spec
CONSTANTS
    s1 = s1
    s2 = s2
    i1 = i1
    i2 = i2
    i3 = i3
    Sessions = {s1, s2}
    Items = {i1, i2, i3}
    Size <- MCSize
    CloseAfter <- MCCloseAfter
    MaxSessionQueued = 3
    MaxGlobalQueued = 4
    NoSession = NoSession
    NoItem = NoItem
SYMMETRY Symmetry
CHECK_DEADLOCK FALSE
INVARIANTS
    SingleWriter
    WireOrder
    NothingAfterClose
    AccountingExact
    NoStrandedItem
PROPERTIES
    NothingAfterDrain
    RefinesChannel
