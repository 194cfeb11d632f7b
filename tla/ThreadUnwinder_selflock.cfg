\* Two threads that unwind each other.
CONSTANTS
    r1 = r1  r2 = r2  t1 = t1  e1 = e1  e2 = e2
    NULL = NULL
    Threads = {r1, r2}
    Requesters = {r1, r2}
    Targets = {r1, r2}
    Entry = {e1, e2}
    MaxUnwinds = 1
    MayTimeout <- AllWaits
    MayExit = {}
SPECIFICATION Spec
INVARIANT NoSelfDeadlock
