SPECIFICATION FairSpec
CONSTANTS
    Sessions = {s1}
    Clients = {c1, c2}
    NoOne = NoOne
    Threads = 3
    Outcomes <- FewOutcomes
    MaxCalls = 2
INVARIANTS
    BusyUnlessThrew
    CallsInOrder
PROPERTY
    HandlersReturn
\* A room in which no session or client does anything any more is at rest.
CHECK_DEADLOCK FALSE
