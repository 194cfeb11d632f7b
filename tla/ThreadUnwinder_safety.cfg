\* Two requesters, one target that may exit; every wait may time out.
CONSTANTS
    r1 = r1  r2 = r2  t1 = t1  e1 = e1  e2 = e2
    NULL = NULL
    Threads = {r1, r2, t1}
    Requesters = {r1, r2}
    Targets = {t1}
    Entry = {e1, e2}
    MaxUnwinds = 2
    MayTimeout <- AllWaits
    MayExit = {t1}
SPECIFICATION Spec
SYMMETRY Symmetry
INVARIANTS NoUseAfterFree EntriesExact OneExchangePerTarget
INVARIANTS NoFatalSignal
