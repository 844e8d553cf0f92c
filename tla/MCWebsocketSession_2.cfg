SPECIFICATION FairSpec
CONSTANTS
    Threads = 2
    MaxMessages = 4
INVARIANTS
    NoStall
    LeftIsQuiet
    OrderKept
PROPERTY
    FailedLeaves
\* A session that ended, or to which nothing is sent any more, does nothing.
CHECK_DEADLOCK FALSE
