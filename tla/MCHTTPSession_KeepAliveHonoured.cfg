SPECIFICATION Spec
CONSTANTS
    Limit = 2
    MaxRequests = 3
INVARIANT
    KeepAliveHonoured
CHECK_DEADLOCK FALSE
