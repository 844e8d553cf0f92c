SPECIFICATION FairSpec
CONSTANTS
    Limit = 2
    MaxRequests = 5
INVARIANTS
    TypeOK
    OneReadOutstanding
    QueueWithinLimit
    OneWriteOutstanding
    NoForgottenResponse
    ReadsOrIsFull
PROPERTIES
    NothingAfterClose
    ImplementsFifoDelivery
    EveryResponseSettles
\* A connection ends when no operation is outstanding.
CHECK_DEADLOCK FALSE
