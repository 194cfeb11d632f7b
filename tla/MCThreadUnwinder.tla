-------------------------- MODULE MCThreadUnwinder --------------------------
(* Instances of ThreadUnwinder for TLC; the .cfg files choose the threads.   *)
EXTENDS ThreadUnwinder, TLC

CONSTANTS r1, r2, t1, e1, e2

\* Addresses carry no meaning and the requesters run the same program.
Symmetry == Permutations(Requesters) \cup Permutations(Entry)

AllWaits     == WaitType
NoWaits      == {}
UcontextOnly == {WAIT_FOR_UCONTEXT}
=============================================================================
