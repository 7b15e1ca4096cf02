CONSTANTS
    MAX_OUTGOING_PUBLISHES = 2
    OUTGOING_COUNT = 3
    INCOMING_COUNT = 1
    MaxId = 2
    CleanSessions = {TRUE, FALSE}
    OutQos = {1, 2}
    Releases = {"PUBACK", "PUBREC"}
    MaxOut = 3
    MaxIn = 2
    MaxMsgs = 3
    MaxBreaks = 2
SPECIFICATION Spec
CHECK_DEADLOCK FALSE
INVARIANTS TypeOK AtMostOnce InOrder KeptUntilReceived AckedWasDelivered
