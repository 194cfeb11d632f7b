\* Three list operations race with two lookups; reads may fail.
CONSTANTS
    Addr = {a1, a2, a3}
    HEAD = HEAD
    ZERO = ZERO
    Methods = {m1, m2}
    kMaxRaceRetries = 2
    kMaxHeadRetries = 3
    MayFail = TRUE
    MaxOps = 3
    MaxFinds = 2
SPECIFICATION Spec
SYMMETRY Symmetry
INVARIANTS CacheSound FindComplete FoundWasLiveIfRead
