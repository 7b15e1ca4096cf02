SPECIFICATION Spec
CONSTANTS
    Ips = {ipA, ipB, ipC}
    NoIp = NoIp
    Sessions = {s1, s2}
    IP_SLOTS = 2
    DEVICE_PW_IP_MAX_FAILS = 2
    DEVICE_PW_GLOBAL_MAX_FAILS = 2
    DEVICE_PW_LOCK_BASE_S = 1
    DEVICE_PW_LOCK_MAX_S = 2
    UINT8_MAX = 3
    MaxTime = 2
    MaxFailures = 4
    MaxSets = 2
    MaxBoots = 1
    MaxErrors = 1
INVARIANTS GlobalLockHolds RateLimited InnocentNotLocked
SYMMETRY Symmetry
CHECK_DEADLOCK FALSE
