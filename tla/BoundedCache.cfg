SPECIFICATION Spec
CONSTANTS
    Keys = {k1, k2, k3}
    Capacity = 2
    TTL = 2
    Skew = 1
    MaxTime = 5
    MaxAdditions = 6
INVARIANTS TypeOK RemembersExactly MapIsBounded
PROPERTY NoDuplicateWithinWindow
CHECK_DEADLOCK FALSE
