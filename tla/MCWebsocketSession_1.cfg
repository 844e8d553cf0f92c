SPECIFICATION FairSpec
CONSTANTS
    Threads = 1
    MaxMessages = 4
INVARIANTS
    TypeOK
    SingleWriter
PROPERTIES
    ImplementsFifoDelivery
    EveryMessageWritten
\* A session that ended, or to which nothing is sent any more, does nothing.
CHECK_DEADLOCK FALSE
