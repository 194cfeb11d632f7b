\* Two threads with the cache enabled.
CONSTANTS
    Threads = {t1, t2}
    Worlds <- TwoWithCache
    NoLock = NoLock
SPECIFICATION Spec
SYMMETRY Symmetry
INVARIANTS NoLockCycle
