CONSTANTS
    Clients = {c1}
    Ssids = {s1, s2}
    Passwords = {}
    Accepted = {s1}
    Open = {s1}
    Erased = Erased
    Garbled = Garbled
    NoValue = NoValue
    MaxRetries = 1
    MaxFails = 1
SPECIFICATION Spec
INVARIANTS ResetAfterFive ResetAllOrNothing
PROPERTY CommitConcludes
CHECK_DEADLOCK FALSE
