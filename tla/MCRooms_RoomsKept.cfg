SPECIFICATION Spec
CONSTANTS
    Ids = {a, b, c}
    NoId = NoId
    Nobody = Nobody
    Clients = {c1, c2}
    Threads = 1
    BareNames = TRUE
    MaxRooms = 4
INVARIANTS
    RoomsKept
\* A server that stopped does nothing; so does one whose rooms are used up.
CHECK_DEADLOCK FALSE
