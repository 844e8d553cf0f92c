SPECIFICATION Spec
CONSTANTS
    Sessions = {s1, s2}
    Clients = {}
    NoOne = NoOne
    Threads = 2
    Outcomes <- SomeOutcomes
    MaxCalls = 2
INVARIANTS
    TypeOK
    BroadcastIsAtomic
    KnowsItself
    ToldIsClosed
PROPERTY
    ImplementsAtomicBroadcast
SYMMETRY SessionSymmetry
\* A room in which no session or client does anything any more is at rest.
CHECK_DEADLOCK FALSE
