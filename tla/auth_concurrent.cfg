SPECIFICATION Spec
CONSTANTS
    Subs = {alice, bob, carol}
    NoSub = NoSub
    PAIRED_LIST_MAX = 2
    Sessions = {s1, s2}
    MaxBusy = 2
    MaxKeys = 2
    MaxPwSets = 1
    MaxFails = 1
    MaxResets = 1
    MaxBoots = 1
INVARIANTS TypeOK OneEntryPerAccount RolesFollowOwner OwnerStaysPaired OwnerSessionsAreOwners
SYMMETRY Symmetry
CHECK_DEADLOCK FALSE
