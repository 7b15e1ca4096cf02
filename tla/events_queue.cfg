SPECIFICATION Spec
CONSTANTS
    PAIRING_EVENTS_MAX = 2
    MAX_OUTGOING_PUBLISHES = 1
    OUTGOING_PUBLISH_RECORD_LEN = 2
    MaxEvents = 3
    MaxOthers = 1
    MaxLosses = 1
    MaxRefused = 2
    MaxFails = 1
    MaxBoots = 1
INVARIANTS LossBounded OrderKept
PROPERTY EventsLeave
CHECK_DEADLOCK FALSE
