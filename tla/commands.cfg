CONSTANTS
    Senders = {recv, queue}
    Recv = recv
    Nobody = nobody
    MaxKeys = 2
    MaxSealed = 1
    MaxSent = 2
    MaxTrouble = 3
SPECIFICATION Spec
INVARIANTS ClearIsRefused FramesOnce NoncesFresh
CHECK_DEADLOCK FALSE
