SPECIFICATION Spec
CONSTANTS
    Producers = {p1, p2}
    Needs = {1, 2, 4}
    RESPONSE_FIFO_SIZE = 3
    OverwriteOldest = TRUE
    MaxPushes = 5
INVARIANTS TypeOK LenInv NoLostWakeup
PROPERTY ImplementsChannel
CHECK_DEADLOCK FALSE
