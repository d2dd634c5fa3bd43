SPECIFICATION MCSpec
CONSTANTS
    p1 = p1
    r1 = r1
    r2 = r2
    r3 = r3
    Sessions = {s1}
    Rooms = {r1, r2}
    ValidRooms = {r1, r2}
    Principals = {p1}
    Allowed <- MCAllowed
    Offered <- Publishing
    MaxMessages = 3
    NoPrincipal = NoPrincipal
    NoRequest = NoRequest
CHECK_DEADLOCK FALSE
INVARIANT
    MembershipsRemoved
