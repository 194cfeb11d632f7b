\* Every call and every handler ends, whatever times out or exits.
CONSTANTS
    r1 = r1  r2 = r2  t1 = t1  e1 = e1  e2 = e2
    NULL = NULL
    Threads = {r1, r2, t1}
    Requesters = {r1, r2}
    Targets = {t1}
    Entry = {e1, e2}
    MaxUnwinds = 1
    MayTimeout <- AllWaits
    MayExit = {t1}
SPECIFICATION FairSpec
PROPERTIES EveryoneReturns
