CONSTANTS
    Phones = {p1}
    Chunks = 2
    MaxAttempts = 3
    MaxStarts = 4
    MaxFails = 1
    MaxUnread = 1
    MaxLosses = 2
SPECIFICATION Spec
INVARIANTS CertFitsKey FirstIdentityWhole
CHECK_DEADLOCK FALSE
