\* Only the wait for the context may time out; a handler that nobody answers then
\* stays in its wait, which ends the behaviour.
CONSTANTS
    r1 = r1  r2 = r2  t1 = t1  e1 = e1  e2 = e2
    NULL = NULL
    Threads = {r1, r2, t1}
    Requesters = {r1, r2}
    Targets = {t1}
    Entry = {e1, e2}
    MaxUnwinds = 2
    MayTimeout <- UcontextOnly
    MayExit = {}
SPECIFICATION Spec
SYMMETRY Symmetry
CHECK_DEADLOCK FALSE
INVARIANTS PausedDuringUnwind
