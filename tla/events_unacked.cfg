SPECIFICATION Spec
CONSTANTS
    PAIRING_EVENTS_MAX = 2
    MAX_OUTGOING_PUBLISHES = 2
    OUTGOING_PUBLISH_RECORD_LEN = 3
    MaxEvents = 2
    MaxOthers = 1
    MaxLosses = 1
    MaxRefused = 0
    MaxFails = 0
    MaxBoots = 0
INVARIANT PublishedArrives
CHECK_DEADLOCK FALSE
