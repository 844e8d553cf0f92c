SPECIFICATION Spec
CONSTANTS
    Threads = 2
    MaxMessages = 3
INVARIANT
    OneWriteAtATime
CHECK_DEADLOCK FALSE
