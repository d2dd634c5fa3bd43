SPECIFICATION MCSpec
CONSTANTS
    p1 = p1
    r1 = r1
    r2 = r2
    r3 = r3
    Sessions = {s1, s2}
    Rooms = {r1, r2, r3}
    ValidRooms = {r1, r2}
    Principals = {p1}
    Allowed <- MCAllowed
    Offered <- Everything
    MaxMessages = 4
    NoPrincipal = NoPrincipal
    NoRequest = NoRequest
SYMMETRY Symmetry
CHECK_DEADLOCK FALSE
INVARIANTS
    TypeOK
    MembersAuthenticated
    AtMostOneStaleRoom
    PublisherOrder
