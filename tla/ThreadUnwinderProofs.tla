------------------------ MODULE ThreadUnwinderProofs ------------------------
(***************************************************************************)
(* Proofs about ThreadUnwinder for any number of threads, requesters,      *)
(* calls and addresses, whatever times out or exits, and also when threads *)
(* are requesters and targets at once.                                     *)
(***************************************************************************)
EXTENDS ThreadUnwinder, TLAPS

\* Where a requester (a handler) has its ThreadEntry*.
HoldingPc == {"lock", "sigaction", "tgkill", "wait_ucontext", "regs", "unwind", "wait_restart",
              "remove", "remove_lock", "remove_locked"}
HandlerHoldingPc == {"copy", "wake", "wake_store", "wait_unwind", "wake_done", "wake_done_store"}

PointersByPc ==
    /\ \A r \in Requesters : entry[r] # NULL <=> pc[r] \in HoldingPc
    /\ \A r \in Requesters : pc[r] # "idle" => tid[r] \in Targets
    /\ \A t \in Threads : hentry[t] # NULL <=> hpc[t] \in HandlerHoldingPc

\* The inductive invariant for the life of an entry.
LifeInv == PointersByPc /\ NoUseAfterFree /\ RefCountCovers /\ EntriesExact

\* The state LifeInv depends on, apart from the program counters.
lifeVars == <<entries_, live, tid_, ref_count_, entry, hentry, tid>>

(* Who holds which lock.                                                   *)

\* The steps made under action_mutex whatever happens; an error path also holds
\* it through Remove.
UnderActionMutex == {"get", "get_locked", "lock", "sigaction", "tgkill", "wait_ucontext"}

LockInv ==
    /\ \A r \in Requesters : InExchange(r) => mutex_[entry[r]] = r
    /\ \A e \in live : mutex_[e] # NULL =>
          mutex_[e] \in Requesters /\ InExchange(mutex_[e]) /\ entry[mutex_[e]] = e
    /\ \A r \in Requesters : pc[r] \in UnderActionMutex => action_mutex = r
    /\ action_mutex # NULL =>
          pc[action_mutex] \in UnderActionMutex \cup {"remove", "remove_lock", "remove_locked"}
    /\ entries_mutex # NULL =>
          \/ hpc[entries_mutex] = "get_locked"
          \/ entries_mutex \in Requesters /\ pc[entries_mutex] \in {"get_locked", "remove_locked"}

\* Every step keeps LockInv.
LEMMA LockStep == TypeOK /\ LifeInv /\ LockInv /\ [Next]_vars => LockInv'
  <1> SUFFICES ASSUME TypeOK, LifeInv, LockInv, [Next]_vars PROVE LockInv'
    OBVIOUS
  <1> DEFINE Exchange == {"sigaction", "tgkill", "wait_ucontext", "regs", "unwind", "wait_restart",
                          "remove"}
             Ending == UnderActionMutex \cup {"remove", "remove_lock", "remove_locked"}
  <1>t. /\ pc \in [Requesters -> RequesterPc] /\ hpc \in [Threads -> HandlerPc]
        /\ entry \in [Requesters -> Entry \cup {NULL}] /\ mutex_ \in [Entry -> Threads \cup {NULL}]
        /\ live \in SUBSET Entry
        /\ action_mutex \in Requesters \cup {NULL} /\ entries_mutex \in Threads \cup {NULL}
        /\ Requesters \subseteq Threads /\ NULL \notin Threads /\ NULL \notin Entry
    BY NullAssumption, ThreadsAssumption DEF TypeOK, EntryTypeOK
  \* Where a requester has its entry.
  <1>l. \A r \in Requesters : pc[r] \in Exchange \cup {"lock", "remove_lock", "remove_locked"}
                                 => entry[r] \in live
    BY DEF LifeInv, PointersByPc, NoUseAfterFree, HoldingPc
  \* The parts of LockInv.
  <1>i. /\ \A r \in Requesters : pc[r] \in Exchange => mutex_[entry[r]] = r
        /\ \A e \in live : mutex_[e] # NULL =>
              mutex_[e] \in Requesters /\ pc[mutex_[e]] \in Exchange /\ entry[mutex_[e]] = e
        /\ \A r \in Requesters : pc[r] \in UnderActionMutex => action_mutex = r
        /\ action_mutex # NULL => pc[action_mutex] \in Ending
        /\ entries_mutex # NULL =>
              \/ hpc[entries_mutex] = "get_locked"
              \/ entries_mutex \in Requesters /\ pc[entries_mutex] \in {"get_locked", "remove_locked"}
    BY DEF LockInv, InExchange
  <1>q. ASSUME UNCHANGED <<pc, hpc, entry, mutex_, live, action_mutex, entries_mutex>> PROVE LockInv'
    BY <1>q DEF LockInv, InExchange
  \* A handler goes on without touching entries_mutex.
  <1>h. ASSUME NEW t \in Threads, NEW to, hpc[t] # "get_locked", HGoto(t, to),
               UNCHANGED <<pc, entry, mutex_, live, action_mutex, entries_mutex>>
        PROVE  LockInv'
    BY <1>t, <1>h DEF HGoto, LockInv, InExchange
  \* A requester goes on without touching a lock, at a place where it holds the same ones.
  <1>g. ASSUME NEW r \in Requesters, NEW to, Goto(r, to), pc[r] \notin {"get_locked", "remove_locked"},
               pc[r] \in Exchange <=> to \in Exchange, to \in UnderActionMutex => pc[r] \in UnderActionMutex,
               pc[r] \in Ending => to \in Ending,
               UNCHANGED <<hpc, entry, mutex_, live, action_mutex, entries_mutex>>
        PROVE  LockInv'
    <2>1. \A q \in Requesters : pc'[q] = IF q = r THEN to ELSE pc[q]
      BY <1>t, <1>g DEF Goto
    <2> QED
      BY <1>t, <1>g, <1>i, <2>1 DEF LockInv, InExchange
  \* A requester takes or gives back entries_mutex and nothing else.
  <1>e. ASSUME NEW r \in Requesters, NEW to, LockEntries(r), Goto(r, to),
               \/ pc[r] = "get" /\ to = "get_locked"
               \/ pc[r] = "remove_lock" /\ to = "remove_locked",
               UNCHANGED <<hpc, entry, action_mutex>>
        PROVE  LockInv'
    <2>1. \A q \in Requesters : pc'[q] = IF q = r THEN to ELSE pc[q]
      BY <1>t, <1>e DEF Goto
    <2>2. entries_mutex' = r /\ UNCHANGED <<live, mutex_>>
      BY <1>e DEF LockEntries
    <2> QED
      BY <1>t, <1>e, <1>i, <2>1, <2>2 DEF LockInv, InExchange, UnderActionMutex
  <1>1. ASSUME NEW r \in Requesters, NEW t \in Targets, UnwindWithSignal(r, t) PROVE LockInv'
    <2>1. At(r, "idle") /\ UNCHANGED <<hpc, entry, mutex_, live, action_mutex, entries_mutex>>
      BY <1>1, Zenon DEF UnwindWithSignal, entryVars, handlerVars
    <2>2. UNCHANGED pc \/ Goto(r, "action_mutex")
      BY <1>1, Zenon DEF UnwindWithSignal
    <2> QED
      BY <2>1, <2>2, <1>q, <1>g DEF At, UnderActionMutex
  <1>2. ASSUME NEW r \in Requesters, InitFails(r) PROVE LockInv'
    BY <1>2, <1>q, Zenon DEF InitFails, entryVars, handlerVars
  <1>3. ASSUME NEW r \in Requesters, LockActionMutex(r) PROVE LockInv'
    <2>1. /\ pc[r] = "action_mutex" /\ action_mutex = NULL /\ action_mutex' = r /\ Goto(r, "get")
          /\ UNCHANGED <<hpc, entry, mutex_, live, entries_mutex>>
      BY <1>3, Zenon DEF LockActionMutex, At, entryVars, handlerVars
    <2>2. \A q \in Requesters : pc'[q] = IF q = r THEN "get" ELSE pc[q]
      BY <1>t, <2>1 DEF Goto
    <2> QED
      BY <1>t, <1>i, <2>1, <2>2 DEF LockInv, InExchange, UnderActionMutex
  <1>4. ASSUME NEW r \in Requesters, GetLock(r) PROVE LockInv'
    BY <1>4, <1>e DEF GetLock, At, handlerVars
  <1>5. ASSUME NEW r \in Requesters, GetBody(r) PROVE LockInv'
    <2>1. PICK e \in Entry : GetLocked(tid[r], TRUE, e) /\ entry' = [entry EXCEPT ![r] = e]
      BY <1>5, Zenon DEF GetBody
    <2>2. /\ pc[r] = "get_locked" /\ pc' = [pc EXCEPT ![r] = "lock"] /\ UNCHANGED <<action_mutex, hpc>>
      BY <1>5, Zenon DEF GetBody, At, Goto, handlerVars
    <2>3. \A q \in Requesters : /\ pc'[q] = IF q = r THEN "lock" ELSE pc[q]
                                /\ entry'[q] = IF q = r THEN e ELSE entry[q]
      BY <1>t, <2>1, <2>2
    <2>4. /\ entries_mutex' = NULL
          /\ \/ UNCHANGED <<live, mutex_>>
             \/ e \notin live /\ live' = live \cup {e} /\ mutex_' = [mutex_ EXCEPT ![e] = NULL]
      BY <2>1 DEF GetLocked, Construct
    <2>5. \A f \in live : f \in live' /\ mutex_'[f] = mutex_[f]
      BY <1>t, <2>4
    <2>6. \A f \in live' : f \in live \/ mutex_'[f] = NULL
      BY <1>t, <2>4
    <2>7. \A q \in Requesters : pc'[q] \in Exchange => mutex_'[entry'[q]] = q
      BY <1>l, <1>i, <2>3, <2>5
    <2>8. \A f \in live' : mutex_'[f] # NULL =>
             mutex_'[f] \in Requesters /\ pc'[mutex_'[f]] \in Exchange /\ entry'[mutex_'[f]] = f
      BY <1>i, <2>2, <2>3, <2>5, <2>6
    <2>9. /\ \A q \in Requesters : pc'[q] \in UnderActionMutex => action_mutex' = q
          /\ action_mutex' # NULL => pc'[action_mutex'] \in Ending
      BY <1>t, <1>i, <2>2, <2>3 DEF UnderActionMutex
    <2> QED
      BY <2>4, <2>7, <2>8, <2>9 DEF LockInv, InExchange
  <1>6. ASSUME NEW r \in Requesters, LockEntry(r) PROVE LockInv'
    <2>1. /\ pc[r] = "lock" /\ pc' = [pc EXCEPT ![r] = "sigaction"] /\ mutex_[entry[r]] = NULL
          /\ mutex_' = [mutex_ EXCEPT ![entry[r]] = r]
          /\ UNCHANGED <<hpc, entry, live, action_mutex, entries_mutex>>
      BY <1>6, Zenon DEF LockEntry, Lock, At, Goto, handlerVars
    <2>2. entry[r] \in live
      BY <1>l, <2>1
    <2>3. /\ \A q \in Requesters : pc'[q] = IF q = r THEN "sigaction" ELSE pc[q]
          /\ \A f \in Entry : mutex_'[f] = IF f = entry[r] THEN r ELSE mutex_[f]
      BY <1>t, <2>1
    <2>4. \A q \in Requesters : pc'[q] \in Exchange => mutex_'[entry[q]] = q
      <3> SUFFICES ASSUME NEW q \in Requesters, pc'[q] \in Exchange PROVE mutex_'[entry[q]] = q
        OBVIOUS
      <3>1. CASE q = r
        BY <1>t, <2>2, <2>3, <3>1
      <3>2. CASE q # r
        <4>1. mutex_[entry[q]] = q /\ entry[q] \in Entry
          BY <1>t, <1>l, <1>i, <2>3, <3>2
        <4> QED
          BY <1>t, <2>1, <2>3, <4>1
      <3> QED
        BY <3>1, <3>2
    <2>5. \A f \in live : mutex_'[f] # NULL =>
             mutex_'[f] \in Requesters /\ pc'[mutex_'[f]] \in Exchange /\ entry[mutex_'[f]] = f
      BY <1>t, <1>i, <2>1, <2>2, <2>3
    <2>6. /\ \A q \in Requesters : pc'[q] \in UnderActionMutex => action_mutex = q
          /\ action_mutex # NULL => pc'[action_mutex] \in Ending
          /\ entries_mutex # NULL =>
              \/ hpc[entries_mutex] = "get_locked"
              \/ entries_mutex \in Requesters /\ pc'[entries_mutex] \in {"get_locked", "remove_locked"}
      BY <1>t, <1>i, <2>1, <2>3 DEF UnderActionMutex
    <2> QED
      BY <2>1, <2>4, <2>5, <2>6 DEF LockInv, InExchange
  <1>7. ASSUME NEW r \in Requesters, Sigaction(r) PROVE LockInv'
    BY <1>7, <1>g DEF Sigaction, At, UnderActionMutex, entryVars, handlerVars
  <1>8. ASSUME NEW r \in Requesters, SigactionFails(r) PROVE LockInv'
    BY <1>8, <1>g DEF SigactionFails, At, UnderActionMutex, entryVars, handlerVars
  <1>9. ASSUME NEW r \in Requesters, Tgkill(r) PROVE LockInv'
    BY <1>9, <1>g DEF Tgkill, At, UnderActionMutex, entryVars, handlerVars
  <1>10. ASSUME NEW r \in Requesters, TgkillFails(r) PROVE LockInv'
    BY <1>10, <1>g DEF TgkillFails, At, UnderActionMutex, entryVars, handlerVars
  <1>11. ASSUME NEW r \in Requesters, WaitUcontext(r) PROVE LockInv'
    <2>1. /\ pc[r] = "wait_ucontext" /\ action_mutex' = NULL /\ Goto(r, "regs")
          /\ UNCHANGED <<hpc, entry, mutex_, live, entries_mutex>>
      BY <1>11, Zenon DEF WaitUcontext, At, entryVars, handlerVars
    <2>2. \A q \in Requesters : pc'[q] = IF q = r THEN "regs" ELSE pc[q]
      BY <1>t, <2>1 DEF Goto
    <2>3. action_mutex = r
      BY <1>i, <2>1 DEF UnderActionMutex
    <2> QED
      BY <1>t, <1>i, <2>1, <2>2, <2>3 DEF LockInv, InExchange, UnderActionMutex
  <1>12. ASSUME NEW r \in Requesters, WaitUcontextTimeout(r) PROVE LockInv'
    BY <1>12, <1>g DEF WaitUcontextTimeout, At, UnderActionMutex, entryVars, handlerVars
  <1>13. ASSUME NEW r \in Requesters, CreateRegs(r) PROVE LockInv'
    BY <1>13, <1>g DEF CreateRegs, At, UnderActionMutex, entryVars, handlerVars
  <1>14. ASSUME NEW r \in Requesters, UnwindAndWake(r) PROVE LockInv'
    BY <1>14, <1>g DEF UnwindAndWake, StoreWaitValue, At, UnderActionMutex, handlerVars
  <1>15. ASSUME NEW r \in Requesters, WaitRestart(r) PROVE LockInv'
    BY <1>15, <1>g DEF WaitRestart, At, UnderActionMutex, entryVars, handlerVars
  <1>16. ASSUME NEW r \in Requesters, RemoveUnlock(r) PROVE LockInv'
    <2>1. /\ pc[r] = "remove" /\ pc' = [pc EXCEPT ![r] = "remove_lock"]
          /\ mutex_' = [mutex_ EXCEPT ![entry[r]] = NULL]
          /\ UNCHANGED <<hpc, entry, live, action_mutex, entries_mutex>>
      BY <1>16, Zenon DEF RemoveUnlock, Unlock, At, Goto, handlerVars
    <2>2. entry[r] \in live /\ mutex_[entry[r]] = r
      BY <1>l, <1>i, <2>1
    <2>3. /\ \A q \in Requesters : pc'[q] = IF q = r THEN "remove_lock" ELSE pc[q]
          /\ \A f \in Entry : mutex_'[f] = IF f = entry[r] THEN NULL ELSE mutex_[f]
      BY <1>t, <2>1
    <2>4. \A q \in Requesters : pc'[q] \in Exchange => mutex_'[entry[q]] = q
      BY <1>t, <1>l, <1>i, <2>2, <2>3
    <2>5. \A f \in live : mutex_'[f] # NULL =>
             mutex_'[f] \in Requesters /\ pc'[mutex_'[f]] \in Exchange /\ entry[mutex_'[f]] = f
      BY <1>t, <1>i, <2>2, <2>3
    <2>6. /\ \A q \in Requesters : pc'[q] \in UnderActionMutex => action_mutex = q
          /\ action_mutex # NULL => pc'[action_mutex] \in Ending
          /\ entries_mutex # NULL =>
              \/ hpc[entries_mutex] = "get_locked"
              \/ entries_mutex \in Requesters /\ pc'[entries_mutex] \in {"get_locked", "remove_locked"}
      BY <1>t, <1>i, <2>1, <2>3 DEF UnderActionMutex
    <2> QED
      BY <2>1, <2>4, <2>5, <2>6 DEF LockInv, InExchange
  <1>17. ASSUME NEW r \in Requesters, RemoveLock(r) PROVE LockInv'
    BY <1>17, <1>e DEF RemoveLock, At, handlerVars
  <1>18. ASSUME NEW r \in Requesters, RemoveBody(r) PROVE LockInv'
    <2>1. /\ pc[r] = "remove_locked" /\ pc' = [pc EXCEPT ![r] = "idle"]
          /\ entry' = [entry EXCEPT ![r] = NULL] /\ entries_mutex' = NULL
          /\ action_mutex' = IF action_mutex = r THEN NULL ELSE action_mutex
          /\ live' = live \/ live' = live \ {entry[r]}
          /\ UNCHANGED <<hpc, mutex_>>
      BY <1>18 DEF RemoveBody, RemoveLocked, At, Goto, handlerVars
    <2>2. /\ \A q \in Requesters : pc'[q] = IF q = r THEN "idle" ELSE pc[q]
          /\ \A q \in Requesters : q # r => entry'[q] = entry[q]
      BY <1>t, <2>1
    <2>3. \A q \in Requesters : pc'[q] \in Exchange => mutex_[entry'[q]] = q
      BY <1>i, <2>2
    <2>4. \A f \in live' : mutex_[f] # NULL =>
             mutex_[f] \in Requesters /\ pc'[mutex_[f]] \in Exchange /\ entry'[mutex_[f]] = f
      BY <1>i, <2>1, <2>2
    <2>5. /\ \A q \in Requesters : pc'[q] \in UnderActionMutex => action_mutex' = q
          /\ action_mutex' # NULL => pc'[action_mutex'] \in Ending
      BY <1>t, <1>i, <2>1, <2>2 DEF UnderActionMutex
    <2> QED
      BY <2>1, <2>3, <2>4, <2>5 DEF LockInv, InExchange
  <1>19. ASSUME NEW t \in Threads, DeliverSignal(t) PROVE LockInv'
    <2>1. /\ hpc[t] = "none" /\ (HGoto(t, "get") \/ UNCHANGED hpc)
          /\ UNCHANGED <<pc, entry, mutex_, live, action_mutex, entries_mutex>>
      BY <1>19, Zenon DEF DeliverSignal, entryVars, requesterVars
    <2> QED
      BY <2>1, <1>h, <1>q
  <1>20. ASSUME NEW t \in Threads, HandlerGetLock(t) PROVE LockInv'
    <2>1. /\ entries_mutex' = t /\ entries_mutex = NULL /\ HGoto(t, "get_locked")
          /\ UNCHANGED <<pc, entry, mutex_, live, action_mutex>>
      BY <1>20, Zenon DEF HandlerGetLock, LockEntries, requesterVars
    <2> QED
      BY <1>t, <2>1 DEF HGoto, LockInv, InExchange
  <1>21. ASSUME NEW t \in Threads, HandlerGetBody(t) PROVE LockInv'
    <2>1. entries_mutex' = NULL /\ UNCHANGED <<pc, entry, mutex_, live, action_mutex>>
      BY <1>21 DEF HandlerGetBody, GetLocked, requesterVars
    <2> QED
      BY <2>1 DEF LockInv, InExchange
  <1>22. ASSUME NEW t \in Threads, HandlerCopy(t) PROVE LockInv'
    BY <1>22, <1>h DEF HandlerCopy, HAt, CopyUcontextFromSigcontext, requesterVars
  <1>23. ASSUME NEW t \in Threads, HandlerWake(t) PROVE LockInv'
    BY <1>23, <1>h DEF HandlerWake, HandlerWakeLoad, HAt, entryVars, requesterVars
  <1>24. ASSUME NEW t \in Threads, HandlerWakeStore(t) PROVE LockInv'
    BY <1>24, <1>h DEF HandlerWakeStore, HAt, StoreWaitValue, requesterVars
  <1>25. ASSUME NEW t \in Threads, HandlerWaitUnwind(t) PROVE LockInv'
    BY <1>25, <1>h DEF HandlerWaitUnwind, HAt, entryVars, requesterVars
  <1>26. ASSUME NEW t \in Threads, HandlerTimeout(t) PROVE LockInv'
    BY <1>26, <1>h DEF HandlerTimeout, HAt, entryVars, requesterVars
  <1>27. ASSUME NEW t \in Threads, HandlerWakeDone(t) PROVE LockInv'
    BY <1>27, <1>h DEF HandlerWakeDone, HandlerWakeLoad, HAt, entryVars, requesterVars
  <1>28. ASSUME NEW t \in Threads, HandlerReturn(t) PROVE LockInv'
    BY <1>28, <1>h DEF HandlerReturn, HAt, StoreWaitValue, requesterVars
  <1>29. ASSUME NEW t \in Threads, Exit(t) PROVE LockInv'
    BY <1>29, <1>q, Zenon DEF Exit, entryVars, requesterVars, handlerVars
  <1>30. CASE UNCHANGED vars
    BY <1>30, <1>q, Zenon DEF vars, entryVars, requesterVars, handlerVars
  <1> QED
    BY Zenon, <1>1, <1>2, <1>3, <1>4, <1>5, <1>6, <1>7, <1>8, <1>9, <1>10, <1>11, <1>12, <1>13, <1>14,
       <1>15, <1>16, <1>17, <1>18, <1>19, <1>20, <1>21, <1>22, <1>23, <1>24, <1>25, <1>26,
       <1>27, <1>28, <1>29, <1>30
       DEF Next, RequesterStep, HandlerStep, Rest

(* The disposition of the signal.                                          *)

\* action_mutex makes the disposition stable from sigaction to the end of the
\* first wait, and a saved default action was saved with no signal in flight.
SignalInv ==
    /\ NoFatalSignal
    /\ \A r \in Requesters : pc[r] \in {"tgkill", "wait_ucontext"} => sigact = "SignalHandler"
    /\ \A r \in Requesters : pc[r] = "tgkill" /\ old_action[r] = "default" =>
          \A t \in Threads : pending[t] = 0

\* Every step keeps SignalInv.
LEMMA SignalStep == TypeOK /\ LifeInv /\ LockInv /\ SignalInv /\ [Next]_vars => SignalInv'
  <1> SUFFICES ASSUME TypeOK, LifeInv, LockInv, SignalInv, [Next]_vars PROVE SignalInv'
    OBVIOUS
  <1> USE NullAssumption, ThreadsAssumption
  <1>t. /\ pc \in [Requesters -> RequesterPc]
        /\ old_action \in [Requesters -> SigAction]
        /\ pending \in [Threads -> Nat]
        /\ tid \in [Requesters -> Targets \cup {NULL}]
    BY DEF TypeOK
  \* A step that leaves all that SignalInv speaks of alone.
  <1>q. ASSUME UNCHANGED <<sigact, pending, pc, old_action>> PROVE SignalInv'
    BY <1>q DEF SignalInv, NoFatalSignal
  \* A requester that goes to a step outside the exchange of signals.
  <1>g. ASSUME NEW r \in Requesters, NEW to, to \notin {"tgkill", "wait_ucontext"},
               Goto(r, to), UNCHANGED <<sigact, pending, old_action>>
        PROVE  SignalInv'
    BY <1>g, <1>t DEF Goto, SignalInv, NoFatalSignal
  <1>1. ASSUME NEW r \in Requesters, NEW t \in Targets, UnwindWithSignal(r, t) PROVE SignalInv'
    BY <1>1, <1>g, <1>q DEF UnwindWithSignal, kernelVars
  <1>2. ASSUME NEW r \in Requesters, InitFails(r) PROVE SignalInv'
    BY <1>2, <1>q DEF InitFails, kernelVars
  <1>3. ASSUME NEW r \in Requesters, LockActionMutex(r) PROVE SignalInv'
    BY <1>3, <1>g DEF LockActionMutex, kernelVars
  <1>4. ASSUME NEW r \in Requesters, GetLock(r) PROVE SignalInv'
    BY <1>4, <1>g DEF GetLock, kernelVars
  <1>5. ASSUME NEW r \in Requesters, GetBody(r) PROVE SignalInv'
    BY <1>5, <1>g DEF GetBody, kernelVars
  <1>6. ASSUME NEW r \in Requesters, LockEntry(r) PROVE SignalInv'
    BY <1>6, <1>g DEF LockEntry, kernelVars
  <1>7. ASSUME NEW r \in Requesters, Sigaction(r) PROVE SignalInv'
    BY <1>7, <1>t DEF Sigaction, At, Goto, LockInv, UnderActionMutex, SignalInv, NoFatalSignal
  <1>8. ASSUME NEW r \in Requesters, SigactionFails(r) PROVE SignalInv'
    BY <1>8, <1>g DEF SigactionFails, kernelVars
  <1>9. ASSUME NEW r \in Requesters, Tgkill(r) PROVE SignalInv'
    BY <1>9, <1>t DEF Tgkill, LifeInv, PointersByPc, At, Goto, LockInv, UnderActionMutex, SignalInv, NoFatalSignal
  <1>10. ASSUME NEW r \in Requesters, TgkillFails(r) PROVE SignalInv'
    BY <1>10, <1>t DEF TgkillFails, At, Goto, LockInv, UnderActionMutex, SignalInv, NoFatalSignal
  <1>11. ASSUME NEW r \in Requesters, WaitUcontext(r) PROVE SignalInv'
    BY <1>11, <1>g DEF WaitUcontext, kernelVars
  <1>12. ASSUME NEW r \in Requesters, WaitUcontextTimeout(r) PROVE SignalInv'
    BY <1>12, <1>t DEF WaitUcontextTimeout, ActionAfterTimeout, At, Goto, LockInv, UnderActionMutex, SignalInv, NoFatalSignal
  <1>13. ASSUME NEW r \in Requesters, CreateRegs(r) PROVE SignalInv'
    BY <1>13, <1>g DEF CreateRegs, kernelVars
  <1>14. ASSUME NEW r \in Requesters, UnwindAndWake(r) PROVE SignalInv'
    BY <1>14, <1>g DEF UnwindAndWake, kernelVars
  <1>15. ASSUME NEW r \in Requesters, WaitRestart(r) PROVE SignalInv'
    BY <1>15, <1>g DEF WaitRestart, kernelVars
  <1>16. ASSUME NEW r \in Requesters, RemoveUnlock(r) PROVE SignalInv'
    BY <1>16, <1>g DEF RemoveUnlock, kernelVars
  <1>17. ASSUME NEW r \in Requesters, RemoveLock(r) PROVE SignalInv'
    BY <1>17, <1>g DEF RemoveLock, kernelVars
  <1>18. ASSUME NEW r \in Requesters, RemoveBody(r) PROVE SignalInv'
    BY <1>18, <1>g DEF RemoveBody, kernelVars
  <1>19. ASSUME NEW t \in Threads, DeliverSignal(t) PROVE SignalInv'
    BY <1>19, <1>t DEF DeliverSignal, requesterVars, SignalInv, NoFatalSignal
  <1>20. ASSUME NEW t \in Threads, HandlerGetLock(t) PROVE SignalInv'
    BY <1>20, <1>q DEF HandlerGetLock, kernelVars, requesterVars
  <1>21. ASSUME NEW t \in Threads, HandlerGetBody(t) PROVE SignalInv'
    BY <1>21, <1>q DEF HandlerGetBody, kernelVars, requesterVars
  <1>22. ASSUME NEW t \in Threads, HandlerCopy(t) PROVE SignalInv'
    BY <1>22, <1>q DEF HandlerCopy, kernelVars, requesterVars
  <1>23. ASSUME NEW t \in Threads, HandlerWake(t) PROVE SignalInv'
    BY <1>23, <1>q DEF HandlerWake, HandlerWakeLoad, kernelVars, requesterVars
  <1>24. ASSUME NEW t \in Threads, HandlerWakeStore(t) PROVE SignalInv'
    BY <1>24, <1>q DEF HandlerWakeStore, kernelVars, requesterVars
  <1>25. ASSUME NEW t \in Threads, HandlerWaitUnwind(t) PROVE SignalInv'
    BY <1>25, <1>q DEF HandlerWaitUnwind, kernelVars, requesterVars
  <1>26. ASSUME NEW t \in Threads, HandlerTimeout(t) PROVE SignalInv'
    BY <1>26, <1>q DEF HandlerTimeout, kernelVars, requesterVars
  <1>27. ASSUME NEW t \in Threads, HandlerWakeDone(t) PROVE SignalInv'
    BY <1>27, <1>q DEF HandlerWakeDone, HandlerWakeLoad, kernelVars, requesterVars
  <1>28. ASSUME NEW t \in Threads, HandlerReturn(t) PROVE SignalInv'
    BY <1>28, <1>q DEF HandlerReturn, kernelVars, requesterVars
  <1>29. ASSUME NEW t \in Threads, Exit(t) PROVE SignalInv'
    BY <1>29, <1>t DEF Exit, requesterVars, SignalInv, NoFatalSignal
  <1>30. CASE UNCHANGED vars
    BY <1>30, <1>q DEF vars, kernelVars, requesterVars
  <1> QED
    BY Zenon, <1>1, <1>2, <1>3, <1>4, <1>5, <1>6, <1>7, <1>8, <1>9, <1>10, <1>11, <1>12, <1>13, <1>14,
       <1>15, <1>16, <1>17, <1>18, <1>19, <1>20, <1>21, <1>22, <1>23, <1>24, <1>25, <1>26,
       <1>27, <1>28, <1>29, <1>30
       DEF Next, RequesterStep, HandlerStep, Rest

(* Counting holders.                                                       *)

\* What is used of Cardinality: it is a number for every set of threads, and it
\* changes by one with every holder added or removed.
CountFacts ==
    /\ Cardinality({}) = 0
    /\ \A x : Cardinality({x}) = 1
    /\ \A S \in SUBSET Threads :
          /\ Cardinality(S) \in Nat
          /\ \A x \in S : Cardinality(S \ {x}) = Cardinality(S) - 1
          /\ \A x \in Threads : x \notin S => Cardinality(S \cup {x}) = Cardinality(S) + 1

\* The two counts of an entry are numbers.
LEMMA HolderCounts ==
    ASSUME CountFacts, NEW e
    PROVE  /\ RequesterHolders(e) \in SUBSET Threads /\ Cardinality(RequesterHolders(e)) \in Nat
           /\ HandlerHolders(e) \in SUBSET Threads /\ Cardinality(HandlerHolders(e)) \in Nat
  <1>1. RequesterHolders(e) \in SUBSET Threads /\ HandlerHolders(e) \in SUBSET Threads
    BY ThreadsAssumption DEF RequesterHolders, HandlerHolders
  <1> QED
    BY <1>1, Zenon DEF CountFacts

\* A holder makes the count positive.
LEMMA OneHolder ==
    ASSUME CountFacts, NEW S \in SUBSET Threads, NEW x \in S
    PROVE  Cardinality(S) >= 1
  <1>1. Cardinality(S \ {x}) = Cardinality(S) - 1 /\ Cardinality(S) \in Nat
    BY Zenon DEF CountFacts
  <1>2. S \ {x} \in SUBSET Threads
    OBVIOUS
  <1>3. Cardinality(S \ {x}) \in Nat
    BY <1>2, Zenon DEF CountFacts
  <1> QED
    BY <1>1, <1>3

\* Two holders make it at least two.
LEMMA TwoHolders ==
    ASSUME CountFacts, NEW S \in SUBSET Threads, NEW x \in S, NEW y \in S, x # y
    PROVE  Cardinality(S) >= 2
  <1>1. Cardinality(S \ {x}) = Cardinality(S) - 1 /\ Cardinality(S) \in Nat
    BY Zenon DEF CountFacts
  <1>2. S \ {x} \in SUBSET Threads /\ y \in S \ {x}
    OBVIOUS
  <1>3. Cardinality(S \ {x}) >= 1
    BY <1>2, OneHolder
  <1> QED
    BY <1>1, <1>3

(* Type correctness.  ref_count_ stays a natural number only because the   *)
(* caller of Remove is itself counted, hence the appeal to LifeInv.        *)

\* The initial state has the types of TypeOK and satisfies LifeInv.
LEMMA InitLife == Init => TypeOK /\ LifeInv
  <1> SUFFICES ASSUME Init PROVE TypeOK /\ LifeInv
    OBVIOUS
  <1> USE NullAssumption, ThreadsAssumption DEF Init, EntryInit
  <1>1. TypeOK
    BY DEF TypeOK, EntryTypeOK, SigAction, RequesterPc, HandlerPc, ErrorCode
  <1>2. PointersByPc
    BY DEF PointersByPc, HoldingPc, HandlerHoldingPc
  <1>3. NoUseAfterFree /\ RefCountCovers /\ EntriesExact
    BY SMTT(30) DEF NoUseAfterFree, RefCountCovers, EntriesExact
  <1> QED
    BY <1>1, <1>2, <1>3 DEF LifeInv

\* Every step keeps the types, ref_count_ never becoming negative included.
LEMMA TypeStep == CountFacts /\ TypeOK /\ LifeInv /\ [Next]_vars => TypeOK'
  <1> SUFFICES ASSUME CountFacts, TypeOK, LifeInv, [Next]_vars PROVE TypeOK'
    OBVIOUS
  <1> USE NullAssumption, ThreadsAssumption
  <1> USE DEF TypeOK, EntryTypeOK, SigAction, RequesterPc, HandlerPc, ErrorCode, entryVars,
              requesterVars, handlerVars, kernelVars
  <1>1. ASSUME NEW r \in Requesters, NEW t \in Targets, UnwindWithSignal(r, t) PROVE TypeOK'
    BY <1>1 DEF UnwindWithSignal, At, Goto
  <1>2. ASSUME NEW r \in Requesters, InitFails(r) PROVE TypeOK'
    BY <1>2 DEF InitFails, At, Goto
  <1>3. ASSUME NEW r \in Requesters, LockActionMutex(r) PROVE TypeOK'
    BY <1>3 DEF LockActionMutex, At, Goto
  <1>4. ASSUME NEW r \in Requesters, GetLock(r) PROVE TypeOK'
    BY <1>4 DEF GetLock, LockEntries, At, Goto
  <1>5. ASSUME NEW r \in Requesters, GetBody(r) PROVE TypeOK'
    <2>1. tid[r] \in Threads
      BY <1>5 DEF LifeInv, PointersByPc, GetBody, GetLocked, Construct, At, Goto
    <2>2. PICK e \in Entry : GetLocked(tid[r], TRUE, e) /\ entry' = [entry EXCEPT ![r] = e]
      BY <1>5, Zenon DEF GetBody
    <2>3. EntryTypeOK'
      <3>1. CASE entries_[tid[r]] # NULL
        BY <2>1, <2>2, <3>1 DEF GetLocked
      <3>2. CASE entries_[tid[r]] = NULL
        <4>1. Construct(e, tid[r]) /\ entries_mutex' = NULL
          BY <2>2, <3>2 DEF GetLocked
        <4> QED
          BY <2>1, <4>1 DEF Construct
      <3> QED
        BY <3>1, <3>2
    <2> QED
      BY <1>5, <2>2, <2>3 DEF GetBody, At, Goto
  <1>6. ASSUME NEW r \in Requesters, LockEntry(r) PROVE TypeOK'
    <2>1. entry[r] \in Entry
      BY <1>6 DEF LifeInv, PointersByPc, HoldingPc, HandlerHoldingPc, LockEntry, Lock, At, Goto
    <2> QED
      BY <1>6, <2>1 DEF LockEntry, Lock, At, Goto
  <1>7. ASSUME NEW r \in Requesters, Sigaction(r) PROVE TypeOK'
    BY <1>7 DEF Sigaction, At, Goto
  <1>8. ASSUME NEW r \in Requesters, SigactionFails(r) PROVE TypeOK'
    BY SMTT(30), <1>8 DEF SigactionFails, At, Goto
  <1>9. ASSUME NEW r \in Requesters, Tgkill(r) PROVE TypeOK'
    <2>1. tid[r] \in Threads
      BY <1>9 DEF LifeInv, PointersByPc, HoldingPc, HandlerHoldingPc, Tgkill, At, Goto
    <2> QED
      BY <1>9, <2>1 DEF Tgkill, At, Goto
  <1>10. ASSUME NEW r \in Requesters, TgkillFails(r) PROVE TypeOK'
    BY <1>10 DEF TgkillFails, At, Goto
  <1>11. ASSUME NEW r \in Requesters, WaitUcontext(r) PROVE TypeOK'
    BY SMTT(30), <1>11 DEF WaitUcontext, At, Goto
  <1>12. ASSUME NEW r \in Requesters, WaitUcontextTimeout(r) PROVE TypeOK'
    BY SMTT(30), <1>12 DEF WaitUcontextTimeout, ActionAfterTimeout, At, Goto
  <1>13. ASSUME NEW r \in Requesters, CreateRegs(r) PROVE TypeOK'
    <2>1. entry[r] \in Entry
      BY <1>13 DEF LifeInv, PointersByPc, HoldingPc, HandlerHoldingPc, CreateRegs, At, Goto
    <2> QED
      BY <1>13, <2>1 DEF CreateRegs, At, Goto
  <1>14. ASSUME NEW r \in Requesters, UnwindAndWake(r) PROVE TypeOK'
    <2>1. entry[r] \in Entry
      BY SMTT(30), <1>14 DEF LifeInv, PointersByPc, HoldingPc, HandlerHoldingPc, UnwindAndWake,
         StoreWaitValue, At, Goto
    <2> QED
      BY <1>14, <2>1 DEF UnwindAndWake, StoreWaitValue, At, Goto
  <1>15. ASSUME NEW r \in Requesters, WaitRestart(r) PROVE TypeOK'
    BY SMTT(30), <1>15 DEF WaitRestart, At, Goto
  <1>16. ASSUME NEW r \in Requesters, RemoveUnlock(r) PROVE TypeOK'
    <2>1. entry[r] \in Entry
      BY <1>16 DEF LifeInv, PointersByPc, HoldingPc, HandlerHoldingPc, RemoveUnlock, Unlock, At,
         Goto
    <2> QED
      BY <1>16, <2>1 DEF RemoveUnlock, Unlock, At, Goto
  <1>17. ASSUME NEW r \in Requesters, RemoveLock(r) PROVE TypeOK'
    BY SMTT(30), <1>17 DEF RemoveLock, LockEntries, At, Goto
  <1>18. ASSUME NEW r \in Requesters, RemoveBody(r) PROVE TypeOK'
    <2>1. entry[r] \in live /\ r \in RequesterHolders(entry[r]) /\ tid_[entry[r]] \in Threads
      BY <1>18 DEF LifeInv, PointersByPc, NoUseAfterFree, HoldingPc, RequesterHolders,
         RemoveBody, RemoveLocked, At, Goto
    <2>2. ref_count_[entry[r]] >= 1
      <3>1. ref_count_[entry[r]] >= Cardinality(RequesterHolders(entry[r])) + Cardinality(HandlerHolders(entry[r]))
        BY <2>1 DEF LifeInv, RefCountCovers
      <3>2. Cardinality(RequesterHolders(entry[r])) >= 1
        BY SMTT(30), <2>1, HolderCounts, OneHolder
      <3> QED
        BY <2>1, <3>1, <3>2, HolderCounts
    <2> QED
      BY SMTT(30), <1>18, <2>1, <2>2 DEF RemoveBody, RemoveLocked, At, Goto
  <1>19. ASSUME NEW t \in Threads, DeliverSignal(t) PROVE TypeOK'
    <2>1. pending' \in [Threads -> Nat]
      BY <1>19 DEF DeliverSignal
    <2>2. stop' \in [Threads -> Nat] /\ hpc' \in [Threads -> HandlerPc]
      BY <1>19, SMTT(30) DEF DeliverSignal, HGoto
    <2> QED
      BY <1>19, <2>1, <2>2 DEF DeliverSignal
  <1>20. ASSUME NEW t \in Threads, HandlerGetLock(t) PROVE TypeOK'
    BY SMTT(30), <1>20 DEF HandlerGetLock, LockEntries, HAt, HGoto
  <1>21. ASSUME NEW t \in Threads, HandlerGetBody(t) PROVE TypeOK'
    BY SMTT(30), <1>21 DEF HandlerGetBody, GetLocked, Construct, HAt, HGoto
  <1>22. ASSUME NEW t \in Threads, HandlerCopy(t) PROVE TypeOK'
    <2>1. hentry[t] \in Entry
      BY SMTT(30), <1>22 DEF LifeInv, PointersByPc, HoldingPc, HandlerHoldingPc, HandlerCopy,
         CopyUcontextFromSigcontext, HAt, HGoto
    <2> QED
      BY SMTT(30), <1>22, <2>1 DEF HandlerCopy, CopyUcontextFromSigcontext, HAt, HGoto
  <1>23. ASSUME NEW t \in Threads, HandlerWake(t) PROVE TypeOK'
    <2>1. hentry[t] \in Entry
      BY SMTT(30), <1>23 DEF LifeInv, PointersByPc, HoldingPc, HandlerHoldingPc, HandlerWake,
         HandlerWakeLoad, HAt, HGoto
    <2> QED
      BY SMTT(30), <1>23, <2>1 DEF HandlerWake, HandlerWakeLoad, HAt, HGoto
  <1>24. ASSUME NEW t \in Threads, HandlerWakeStore(t) PROVE TypeOK'
    <2>1. hentry[t] \in Entry
      BY SMTT(30), <1>24 DEF LifeInv, PointersByPc, HoldingPc, HandlerHoldingPc, HandlerWakeStore,
         StoreWaitValue, HAt, HGoto
    <2> QED
      BY SMTT(30), <1>24, <2>1 DEF HandlerWakeStore, StoreWaitValue, HAt, HGoto
  <1>25. ASSUME NEW t \in Threads, HandlerWaitUnwind(t) PROVE TypeOK'
    BY SMTT(30), <1>25 DEF HandlerWaitUnwind, HAt, HGoto
  <1>26. ASSUME NEW t \in Threads, HandlerTimeout(t) PROVE TypeOK'
    BY SMTT(30), <1>26 DEF HandlerTimeout, HAt, HGoto
  <1>27. ASSUME NEW t \in Threads, HandlerWakeDone(t) PROVE TypeOK'
    <2>1. hentry[t] \in Entry
      BY SMTT(30), <1>27 DEF LifeInv, PointersByPc, HoldingPc, HandlerHoldingPc, HandlerWakeDone,
         HandlerWakeLoad, HAt, HGoto
    <2> QED
      BY <1>27, <2>1 DEF HandlerWakeDone, HandlerWakeLoad, HAt, HGoto
  <1>28. ASSUME NEW t \in Threads, HandlerReturn(t) PROVE TypeOK'
    <2>1. hentry[t] \in Entry
      BY SMTT(30), <1>28 DEF LifeInv, PointersByPc, HoldingPc, HandlerHoldingPc, HandlerReturn,
         StoreWaitValue, HAt, HGoto
    <2> QED
      BY SMTT(30), <1>28, <2>1 DEF HandlerReturn, StoreWaitValue, HAt, HGoto
  <1>29. ASSUME NEW t \in Threads, Exit(t) PROVE TypeOK'
    BY SMTT(30), <1>29 DEF Exit
  <1>30. CASE UNCHANGED vars
    BY <1>30 DEF vars
  <1> QED
    BY Zenon, <1>1, <1>2, <1>3, <1>4, <1>5, <1>6, <1>7, <1>8, <1>9, <1>10, <1>11, <1>12, <1>13, <1>14,
       <1>15, <1>16, <1>17, <1>18, <1>19, <1>20, <1>21, <1>22, <1>23, <1>24, <1>25, <1>26,
       <1>27, <1>28, <1>29, <1>30
       DEF Next, RequesterStep, HandlerStep, Rest

(* The life of an entry.                                                   *)

\* The types of the state an entry's life depends on.
LifeTypeOK ==
    /\ entries_ \in [Threads -> Entry \cup {NULL}] /\ live \in SUBSET Entry
    /\ tid_ \in [Entry -> Threads \cup {NULL}] /\ ref_count_ \in [Entry -> Nat]
    /\ entry \in [Requesters -> Entry \cup {NULL}] /\ hentry \in [Threads -> Entry \cup {NULL}]

\* A step that leaves the pointers and the counts alone keeps RefCountCovers.
LEMMA CountsUnchanged ==
    ASSUME RefCountCovers, UNCHANGED <<live, ref_count_, entry, hentry>>
    PROVE  RefCountCovers'
  <1>1. ASSUME NEW e
        PROVE  RequesterHolders(e)' = RequesterHolders(e) /\ HandlerHolders(e)' = HandlerHolders(e)
    BY DEF RequesterHolders, HandlerHolders
  <1> QED
    BY <1>1, Zenon DEF RefCountCovers

\* Steps that move no pointer and touch neither the map nor a count.
LEMMA LifeFrame ==
    ASSUME LifeInv, UNCHANGED lifeVars
    PROVE  NoUseAfterFree' /\ RefCountCovers' /\ EntriesExact'
  <1>1. NoUseAfterFree' /\ EntriesExact'
    BY Zenon DEF LifeInv, lifeVars, NoUseAfterFree, EntriesExact
  <1>2. RefCountCovers'
    BY CountsUnchanged, Zenon DEF LifeInv, lifeVars
  <1> QED
    BY <1>1, <1>2

\* A handler that returns drops its pointer without touching the count.
LEMMA LifeHandlerReturns ==
    ASSUME CountFacts, LifeTypeOK, LifeInv, NEW t \in Threads, hentry[t] # NULL,
           hentry' = [hentry EXCEPT ![t] = NULL],
           UNCHANGED <<entries_, live, tid_, ref_count_, entry, tid>>
    PROVE  NoUseAfterFree' /\ RefCountCovers' /\ EntriesExact'
  <1>1. NoUseAfterFree' /\ EntriesExact'
    BY SMTT(30), NullAssumption DEF LifeTypeOK, LifeInv, NoUseAfterFree, EntriesExact
  <1>2. RefCountCovers'
    <2> SUFFICES ASSUME NEW e \in live
                 PROVE  ref_count_[e] >= Cardinality(RequesterHolders(e)') + Cardinality(HandlerHolders(e)')
      BY DEF RefCountCovers
    <2>1. /\ ref_count_[e] \in Nat
          /\ ref_count_[e] >= Cardinality(RequesterHolders(e)) + Cardinality(HandlerHolders(e))
      BY DEF LifeTypeOK, LifeInv, RefCountCovers
    <2>2. RequesterHolders(e)' = RequesterHolders(e)
      BY DEF RequesterHolders
    <2>3. CASE hentry[t] = e
      <3>1. HandlerHolders(e)' = HandlerHolders(e) \ {t} /\ t \in HandlerHolders(e)
        BY <2>3, NullAssumption DEF HandlerHolders, LifeTypeOK
      <3>2. Cardinality(HandlerHolders(e) \ {t}) = Cardinality(HandlerHolders(e)) - 1
        BY <3>1, HolderCounts, Zenon DEF CountFacts
      <3> QED
        BY <2>1, <2>2, <3>1, <3>2, HolderCounts
    <2>4. CASE hentry[t] # e
      <3>1. HandlerHolders(e)' = HandlerHolders(e)
        BY SMTT(30), <2>4, NullAssumption DEF HandlerHolders, LifeTypeOK
      <3> QED
        BY <2>1, <2>2, <3>1
    <2> QED
      BY <2>3, <2>4
  <1> QED
    BY <1>1, <1>2

\* Get by a requester: a fresh entry starts with its one holder, a found one
\* gains a holder and a count.
LEMMA LifeGet ==
    ASSUME CountFacts, LifeTypeOK, LifeInv, NEW r \in Requesters, NEW e \in Entry, entry[r] = NULL,
           tid[r] \in Threads, GetLocked(tid[r], TRUE, e), entry' = [entry EXCEPT ![r] = e],
           UNCHANGED <<hentry, tid>>
    PROVE  NoUseAfterFree' /\ RefCountCovers' /\ EntriesExact'
  <1>0. r \in Threads
    BY ThreadsAssumption
  <1>1. ASSUME NEW f \in Entry
        PROVE  /\ HandlerHolders(f)' = HandlerHolders(f)
               /\ RequesterHolders(f)' = IF f = e THEN RequesterHolders(f) \cup {r} ELSE RequesterHolders(f)
               /\ r \notin RequesterHolders(f)
    BY NullAssumption DEF LifeTypeOK, HandlerHolders, RequesterHolders
  <1>2. CASE entries_[tid[r]] # NULL
    <2>1. /\ e \in live /\ tid_[e] = tid[r]
          /\ ref_count_' = [ref_count_ EXCEPT ![e] = @ + 1]
          /\ UNCHANGED <<entries_, live, tid_>>
      BY SMTT(30), <1>2 DEF GetLocked, LifeInv, EntriesExact
    <2>2. NoUseAfterFree' /\ EntriesExact'
      BY <2>1, NullAssumption DEF LifeTypeOK, LifeInv, NoUseAfterFree, EntriesExact
    <2>3. RefCountCovers'
      <3> SUFFICES ASSUME NEW f \in live
                   PROVE  ref_count_'[f] >= Cardinality(RequesterHolders(f)') + Cardinality(HandlerHolders(f)')
        BY <2>1 DEF RefCountCovers
      <3>1. /\ f \in Entry /\ ref_count_[f] \in Nat
            /\ ref_count_[f] >= Cardinality(RequesterHolders(f)) + Cardinality(HandlerHolders(f))
        BY SMTT(30) DEF LifeTypeOK, LifeInv, RefCountCovers
      <3>2. CASE f = e
        <4>1. Cardinality(RequesterHolders(f) \cup {r}) = Cardinality(RequesterHolders(f)) + 1
          BY <1>0, <1>1, <3>1, HolderCounts, Zenon DEF CountFacts
        <4>2. ref_count_'[f] = ref_count_[f] + 1
          BY <2>1, <3>1, <3>2 DEF LifeTypeOK
        <4> QED
          <5>1. /\ Cardinality(RequesterHolders(f)') = Cardinality(RequesterHolders(f)) + 1
                /\ Cardinality(HandlerHolders(f)') = Cardinality(HandlerHolders(f))
            BY <1>1, <3>1, <3>2, <4>1, Zenon
          <5> QED
            BY SMTT(30), <3>1, <4>2, <5>1, HolderCounts
      <3>3. CASE f # e
        <4>1. ref_count_'[f] = ref_count_[f]
          BY <2>1, <3>1, <3>3 DEF LifeTypeOK
        <4> QED
          BY <1>1, <3>1, <3>3, <4>1
      <3> QED
        BY <3>2, <3>3
    <2> QED
      BY SMTT(30), <2>2, <2>3
  <1>3. CASE entries_[tid[r]] = NULL
    <2>1. /\ e \notin live /\ live' = live \cup {e}
          /\ entries_' = [entries_ EXCEPT ![tid[r]] = e]
          /\ tid_' = [tid_ EXCEPT ![e] = tid[r]]
          /\ ref_count_' = [ref_count_ EXCEPT ![e] = 1]
      BY SMTT(30), <1>3 DEF GetLocked, Construct
    <2>2. RequesterHolders(e) = {} /\ HandlerHolders(e) = {}
      BY SMTT(30), <2>1, NullAssumption DEF LifeInv, NoUseAfterFree, RequesterHolders, HandlerHolders
    <2>3. NoUseAfterFree'
      BY <2>1, NullAssumption DEF LifeTypeOK, LifeInv, NoUseAfterFree
    <2>4. EntriesExact'
      <3> SUFFICES ASSUME NEW t \in Threads, NEW f \in Entry
                   PROVE  entries_'[t] = f <=> (f \in live' /\ tid_'[f] = t)
        BY DEF EntriesExact
      <3>1. entries_[t] = f <=> (f \in live /\ tid_[f] = t)
        BY DEF LifeInv, EntriesExact
      <3>2. entries_'[t] = IF t = tid[r] THEN e ELSE entries_[t]
        BY <2>1 DEF LifeTypeOK
      <3>3. tid_'[f] = IF f = e THEN tid[r] ELSE tid_[f]
        BY <2>1 DEF LifeTypeOK
      <3> QED
        BY SMTT(30), <1>3, <2>1, <3>1, <3>2, <3>3, NullAssumption
    <2>5. RefCountCovers'
      <3> SUFFICES ASSUME NEW f \in live'
                   PROVE  ref_count_'[f] >= Cardinality(RequesterHolders(f)') + Cardinality(HandlerHolders(f)')
        BY DEF RefCountCovers
      <3>1. CASE f = e
        <4>1. RequesterHolders(f)' = {r} /\ HandlerHolders(f)' = {}
          BY <1>1, <2>2, <3>1
        <4>2. ref_count_'[f] = 1
          BY <2>1, <3>1 DEF LifeTypeOK
        <4> QED
          <5>1. Cardinality({r}) = 1 /\ Cardinality({}) = 0
            BY Zenon DEF CountFacts
          <5> QED
            BY <4>1, <4>2, <5>1
      <3>2. CASE f # e
        <4>1. /\ f \in Entry /\ ref_count_'[f] = ref_count_[f]
              /\ ref_count_[f] >= Cardinality(RequesterHolders(f)) + Cardinality(HandlerHolders(f))
          BY <2>1, <3>2 DEF LifeTypeOK, LifeInv, RefCountCovers
        <4> QED
          BY <1>1, <3>2, <4>1
      <3> QED
        BY <3>1, <3>2
    <2> QED
      BY SMTT(30), <2>3, <2>4, <2>5
  <1> QED
    BY SMTT(30), <1>2, <1>3

\* Get by a handler: the entry found gains a holder and a count.
LEMMA LifeHandlerGet ==
    ASSUME CountFacts, LifeTypeOK, LifeInv, NEW t \in Threads, NEW e \in Entry \cup {NULL},
           hentry[t] = NULL, GetLocked(t, FALSE, e), hentry' = [hentry EXCEPT ![t] = e],
           UNCHANGED <<entry, tid>>
    PROVE  NoUseAfterFree' /\ RefCountCovers' /\ EntriesExact'
  <1>1. CASE entries_[t] # NULL
    <2>1. /\ e \in live /\ tid_[e] = t
          /\ ref_count_' = [ref_count_ EXCEPT ![e] = @ + 1]
          /\ UNCHANGED <<entries_, live, tid_>>
      BY SMTT(30), <1>1 DEF GetLocked, LifeTypeOK, LifeInv, EntriesExact
    <2>2. NoUseAfterFree' /\ EntriesExact'
      BY <2>1, NullAssumption DEF LifeTypeOK, LifeInv, NoUseAfterFree, EntriesExact
    <2>3. ASSUME NEW f \in Entry
          PROVE  /\ RequesterHolders(f)' = RequesterHolders(f)
                 /\ HandlerHolders(f)' = IF f = e THEN HandlerHolders(f) \cup {t} ELSE HandlerHolders(f)
                 /\ t \notin HandlerHolders(f)
      BY SMTT(30), NullAssumption DEF LifeTypeOK, HandlerHolders, RequesterHolders
    <2>4. RefCountCovers'
      <3> SUFFICES ASSUME NEW f \in live
                   PROVE  ref_count_'[f] >= Cardinality(RequesterHolders(f)') + Cardinality(HandlerHolders(f)')
        BY <2>1 DEF RefCountCovers
      <3>1. /\ f \in Entry /\ ref_count_[f] \in Nat
            /\ ref_count_[f] >= Cardinality(RequesterHolders(f)) + Cardinality(HandlerHolders(f))
        BY SMTT(30) DEF LifeTypeOK, LifeInv, RefCountCovers
      <3>2. CASE f = e
        <4>1. Cardinality(HandlerHolders(f) \cup {t}) = Cardinality(HandlerHolders(f)) + 1
          BY <2>3, <3>1, HolderCounts, Zenon DEF CountFacts
        <4>2. ref_count_'[f] = ref_count_[f] + 1
          BY <2>1, <3>1, <3>2 DEF LifeTypeOK
        <4> QED
          <5>1. /\ Cardinality(HandlerHolders(f)') = Cardinality(HandlerHolders(f)) + 1
                /\ Cardinality(RequesterHolders(f)') = Cardinality(RequesterHolders(f))
            BY <2>3, <3>1, <3>2, <4>1
          <5> QED
            BY SMTT(30), <3>1, <4>2, <5>1, HolderCounts
      <3>3. CASE f # e
        <4>1. ref_count_'[f] = ref_count_[f]
          BY <2>1, <3>1, <3>3 DEF LifeTypeOK
        <4> QED
          BY <2>3, <3>1, <3>3, <4>1
      <3> QED
        BY SMTT(30), <3>2, <3>3
    <2> QED
      BY <2>2, <2>4
  <1>2. CASE entries_[t] = NULL
    <2>1. e = NULL /\ UNCHANGED lifeVars
      BY <1>2 DEF GetLocked, lifeVars, LifeTypeOK
    <2> QED
      BY <2>1, LifeFrame
  <1> QED
    BY <1>1, <1>2

\* Remove: the count reaches zero only when the caller is the last holder.
LEMMA LifeRemove ==
    ASSUME CountFacts, LifeTypeOK, LifeInv, NEW r \in Requesters, NEW e, e = entry[r], e # NULL,
           RemoveLocked(e), entry' = [entry EXCEPT ![r] = NULL],
           tid' = [tid EXCEPT ![r] = NULL], tid \in [Requesters -> Threads \cup {NULL}], UNCHANGED hentry
    PROVE  NoUseAfterFree' /\ RefCountCovers' /\ EntriesExact'
  <1>1. /\ e \in live /\ e \in Entry /\ tid_[e] = tid[r] /\ r \in RequesterHolders(e)
        /\ ref_count_[e] \in Nat
        /\ ref_count_[e] >= Cardinality(RequesterHolders(e)) + Cardinality(HandlerHolders(e))
    BY DEF LifeTypeOK, LifeInv, NoUseAfterFree, RefCountCovers, RequesterHolders
  <1>2. ref_count_' = [ref_count_ EXCEPT ![e] = @ - 1] /\ UNCHANGED tid_
    BY DEF RemoveLocked
  <1>3. ASSUME NEW f \in Entry
        PROVE  /\ HandlerHolders(f)' = HandlerHolders(f)
               /\ RequesterHolders(f)' = IF f = e THEN RequesterHolders(f) \ {r} ELSE RequesterHolders(f)
    BY NullAssumption DEF LifeTypeOK, HandlerHolders, RequesterHolders
  <1>4. ASSUME NEW f \in live
        PROVE  ref_count_'[f] >= Cardinality(RequesterHolders(f)') + Cardinality(HandlerHolders(f)')
    <2>1. /\ f \in Entry /\ ref_count_[f] \in Nat
          /\ ref_count_[f] >= Cardinality(RequesterHolders(f)) + Cardinality(HandlerHolders(f))
      BY DEF LifeTypeOK, LifeInv, RefCountCovers
    <2>2. CASE f = e
      <3>1. Cardinality(RequesterHolders(f) \ {r}) = Cardinality(RequesterHolders(f)) - 1
        BY <1>1, <2>2, HolderCounts, Zenon DEF CountFacts
      <3>2. ref_count_'[f] = ref_count_[f] - 1
        BY <1>2, <2>1, <2>2 DEF LifeTypeOK
      <3> QED
        <4>1. /\ Cardinality(RequesterHolders(f)') = Cardinality(RequesterHolders(f)) - 1
              /\ Cardinality(HandlerHolders(f)') = Cardinality(HandlerHolders(f))
          BY <1>3, <2>1, <2>2, <3>1, Zenon
        <4> QED
          BY <2>1, <3>2, <4>1, HolderCounts
    <2>3. CASE f # e
      <3>1. ref_count_'[f] = ref_count_[f]
        BY <1>2, <2>1, <2>3 DEF LifeTypeOK
      <3> QED
        BY <1>3, <2>1, <2>3, <3>1
    <2> QED
      BY <2>2, <2>3
  <1>5. CASE ref_count_[e] = 1
    <2>1. live' = live \ {e} /\ entries_' = [entries_ EXCEPT ![tid_[e]] = NULL]
      BY <1>5 DEF RemoveLocked
    <2>2. \A q \in Requesters : entry[q] = e => q = r
      <3> SUFFICES ASSUME NEW q \in Requesters, entry[q] = e, q # r PROVE FALSE
        OBVIOUS
      <3>1. q \in RequesterHolders(e)
        BY DEF RequesterHolders
      <3>2. Cardinality(RequesterHolders(e)) >= 2
        BY <1>1, <3>1, HolderCounts, TwoHolders
      <3> QED
        BY <1>1, <1>5, <3>2, HolderCounts
    <2>3. \A t \in Threads : hentry[t] # e
      <3> SUFFICES ASSUME NEW t \in Threads, hentry[t] = e PROVE FALSE
        OBVIOUS
      <3>1. t \in HandlerHolders(e)
        BY DEF HandlerHolders
      <3>2. Cardinality(HandlerHolders(e)) >= 1 /\ Cardinality(RequesterHolders(e)) >= 1
        BY <1>1, <3>1, HolderCounts, OneHolder
      <3> QED
        BY <1>1, <1>5, <3>2, HolderCounts
    <2>4. NoUseAfterFree'
      BY <1>2, <2>1, <2>2, <2>3 DEF LifeTypeOK, LifeInv, NoUseAfterFree
    <2>5. EntriesExact'
      <3> SUFFICES ASSUME NEW t \in Threads, NEW f \in Entry
                   PROVE  entries_'[t] = f <=> (f \in live' /\ tid_[f] = t)
        BY <1>2 DEF EntriesExact
      <3>1. /\ entries_[t] = f <=> (f \in live /\ tid_[f] = t)
            /\ entries_[t] = e <=> tid_[e] = t
        BY <1>1 DEF LifeInv, EntriesExact
      <3>2. entries_'[t] = IF t = tid_[e] THEN NULL ELSE entries_[t]
        BY <2>1 DEF LifeTypeOK
      <3> QED
        BY <2>1, <3>1, <3>2, NullAssumption
    <2>6. RefCountCovers'
      BY <1>4, <2>1, Zenon DEF RefCountCovers
    <2> QED
      BY <2>4, <2>5, <2>6
  <1>6. CASE ref_count_[e] # 1
    <2>1. UNCHANGED <<live, entries_>>
      BY <1>6 DEF RemoveLocked
    <2>2. NoUseAfterFree' /\ EntriesExact'
      BY <1>2, <2>1 DEF LifeTypeOK, LifeInv, NoUseAfterFree, EntriesExact
    <2>3. RefCountCovers'
      BY <1>4, <2>1, Zenon DEF RefCountCovers
    <2> QED
      BY <2>2, <2>3
  <1> QED
    BY <1>5, <1>6

\* Every step keeps LifeInv.
LEMMA LifeStep == CountFacts /\ TypeOK /\ LifeInv /\ [Next]_vars => LifeInv'
  <1> SUFFICES ASSUME CountFacts, TypeOK, LifeInv, [Next]_vars PROVE LifeInv'
    OBVIOUS
  <1>t. /\ LifeTypeOK /\ pc \in [Requesters -> RequesterPc] /\ hpc \in [Threads -> HandlerPc]
        /\ tid \in [Requesters -> Targets \cup {NULL}] /\ Targets \subseteq Threads
    BY SMTT(30), ThreadsAssumption DEF TypeOK, EntryTypeOK, LifeTypeOK
  <1>p. /\ \A r \in Requesters : entry[r] # NULL <=> pc[r] \in HoldingPc
        /\ \A r \in Requesters : pc[r] # "idle" => tid[r] \in Targets
    BY DEF LifeInv, PointersByPc
  <1>s. \A t \in Threads : hentry[t] # NULL <=> hpc[t] \in HandlerHoldingPc
    BY DEF LifeInv, PointersByPc
  <1>q. ASSUME UNCHANGED <<lifeVars, pc, hpc>> PROVE LifeInv'
    <2>1. PointersByPc'
      BY <1>q, <1>p, <1>s, Zenon DEF PointersByPc, lifeVars
    <2> QED
      BY SMTT(30), <1>q, <2>1, LifeFrame DEF LifeInv
  \* A requester goes on with the entry it has, or without one.
  <1>g. ASSUME NEW r \in Requesters, NEW to, Goto(r, to), pc[r] \in HoldingPc <=> to \in HoldingPc,
               pc[r] # "idle", UNCHANGED <<lifeVars, hpc>>
        PROVE  LifeInv'
    <2>1. PointersByPc'
      BY <1>t, <1>p, <1>s, <1>g DEF Goto, PointersByPc, lifeVars
    <2> QED
      BY <1>g, <2>1, LifeFrame DEF LifeInv
  \* So does a handler.
  <1>h. ASSUME NEW t \in Threads, NEW to, HGoto(t, to),
               hpc[t] \in HandlerHoldingPc <=> to \in HandlerHoldingPc, UNCHANGED <<lifeVars, pc>>
        PROVE  LifeInv'
    <2>1. PointersByPc'
      BY <1>t, <1>p, <1>s, <1>h DEF HGoto, PointersByPc, lifeVars
    <2> QED
      BY SMTT(30), <1>h, <2>1, LifeFrame DEF LifeInv
  \* A handler returns.
  <1>r. ASSUME NEW t \in Threads, hpc[t] \in HandlerHoldingPc, HGoto(t, "none"),
               hentry' = [hentry EXCEPT ![t] = NULL],
               UNCHANGED <<entries_, live, tid_, ref_count_, entry, tid, pc>>
        PROVE  LifeInv'
    <2>1. PointersByPc'
      BY <1>t, <1>p, <1>s, <1>r DEF HGoto, PointersByPc, HandlerHoldingPc, LifeTypeOK
    <2>2. hentry[t] # NULL
      BY <1>s, <1>r
    <2> QED
      BY <1>t, <1>r, <2>1, <2>2, LifeHandlerReturns, Zenon DEF LifeInv
  <1>1. ASSUME NEW r \in Requesters, NEW t \in Targets, UnwindWithSignal(r, t) PROVE LifeInv'
    <2>1. /\ pc[r] = "idle" /\ UNCHANGED <<entries_, live, tid_, ref_count_, entry, hentry, hpc>>
          /\ \/ UNCHANGED <<tid, pc>>
             \/ tid' = [tid EXCEPT ![r] = t] /\ pc' = [pc EXCEPT ![r] = "action_mutex"]
      BY <1>1, Zenon DEF UnwindWithSignal, At, Goto, entryVars, handlerVars
    <2>2. /\ \A q \in Requesters : q # r => tid'[q] = tid[q] /\ pc'[q] = pc[q]
          /\ pc'[r] \in {"idle", "action_mutex"} /\ (pc'[r] # "idle" => tid'[r] \in Targets)
      BY <1>t, <1>p, <2>1
    <2>3. entry[r] = NULL
      BY <1>p, <2>1 DEF HoldingPc
    <2>4. PointersByPc'
      BY SMTT(30), <1>p, <1>s, <2>1, <2>2, <2>3 DEF PointersByPc, HoldingPc
    <2>5. NoUseAfterFree'
      BY <2>1, <2>2, <2>3 DEF LifeInv, NoUseAfterFree
    <2>6. RefCountCovers' /\ EntriesExact'
      <3>1. RefCountCovers'
        BY <2>1, CountsUnchanged, Zenon DEF LifeInv
      <3>2. EntriesExact'
        BY <2>1, Zenon DEF LifeInv, EntriesExact
      <3> QED
        BY <3>1, <3>2
    <2> QED
      BY <2>4, <2>5, <2>6, Zenon DEF LifeInv
  <1>2. ASSUME NEW r \in Requesters, InitFails(r) PROVE LifeInv'
    BY <1>2, <1>q, Zenon DEF InitFails, lifeVars, entryVars, handlerVars
  <1>3. ASSUME NEW r \in Requesters, LockActionMutex(r) PROVE LifeInv'
    BY <1>3, <1>g DEF LockActionMutex, At, HoldingPc, lifeVars, entryVars, handlerVars
  <1>4. ASSUME NEW r \in Requesters, GetLock(r) PROVE LifeInv'
    BY <1>4, <1>g DEF GetLock, LockEntries, At, HoldingPc, lifeVars, handlerVars
  <1>5. ASSUME NEW r \in Requesters, GetBody(r) PROVE LifeInv'
    <2>1. PICK e \in Entry : GetLocked(tid[r], TRUE, e) /\ entry' = [entry EXCEPT ![r] = e]
      BY <1>5, Zenon DEF GetBody
    <2>2. pc[r] = "get_locked" /\ Goto(r, "lock") /\ UNCHANGED <<hentry, hpc, tid>>
      BY <1>5, Zenon DEF GetBody, At, handlerVars
    <2>3. PointersByPc'
      BY <1>t, <1>p, <1>s, <2>1, <2>2, NullAssumption DEF PointersByPc, HoldingPc, Goto, LifeTypeOK
    <2>4. entry[r] = NULL /\ tid[r] \in Threads
      BY SMTT(30), <1>t, <1>p, <2>2 DEF HoldingPc
    <2> QED
      BY <1>t, <2>1, <2>2, <2>3, <2>4, LifeGet, Zenon DEF LifeInv
  <1>6. ASSUME NEW r \in Requesters, LockEntry(r) PROVE LifeInv'
    BY SMTT(30), <1>6, <1>g DEF LockEntry, Lock, At, HoldingPc, lifeVars, handlerVars
  <1>7. ASSUME NEW r \in Requesters, Sigaction(r) PROVE LifeInv'
    BY <1>7, <1>g DEF Sigaction, At, HoldingPc, lifeVars, entryVars, handlerVars
  <1>8. ASSUME NEW r \in Requesters, SigactionFails(r) PROVE LifeInv'
    BY SMTT(30), <1>8, <1>g DEF SigactionFails, At, HoldingPc, lifeVars, entryVars, handlerVars
  <1>9. ASSUME NEW r \in Requesters, Tgkill(r) PROVE LifeInv'
    BY SMTT(30), <1>9, <1>g DEF Tgkill, At, HoldingPc, lifeVars, entryVars, handlerVars
  <1>10. ASSUME NEW r \in Requesters, TgkillFails(r) PROVE LifeInv'
    BY SMTT(30), <1>10, <1>g DEF TgkillFails, At, HoldingPc, lifeVars, entryVars, handlerVars
  <1>11. ASSUME NEW r \in Requesters, WaitUcontext(r) PROVE LifeInv'
    BY SMTT(30), <1>11, <1>g DEF WaitUcontext, At, HoldingPc, lifeVars, entryVars, handlerVars
  <1>12. ASSUME NEW r \in Requesters, WaitUcontextTimeout(r) PROVE LifeInv'
    BY SMTT(30), <1>12, <1>g DEF WaitUcontextTimeout, At, HoldingPc, lifeVars, entryVars, handlerVars
  <1>13. ASSUME NEW r \in Requesters, CreateRegs(r) PROVE LifeInv'
    BY SMTT(30), <1>13, <1>g DEF CreateRegs, At, HoldingPc, lifeVars, entryVars, handlerVars
  <1>14. ASSUME NEW r \in Requesters, UnwindAndWake(r) PROVE LifeInv'
    BY SMTT(30), <1>14, <1>g DEF UnwindAndWake, StoreWaitValue, At, HoldingPc, lifeVars, handlerVars
  <1>15. ASSUME NEW r \in Requesters, WaitRestart(r) PROVE LifeInv'
    BY SMTT(30), <1>15, <1>g DEF WaitRestart, At, HoldingPc, lifeVars, entryVars, handlerVars
  <1>16. ASSUME NEW r \in Requesters, RemoveUnlock(r) PROVE LifeInv'
    BY SMTT(30), <1>16, <1>g DEF RemoveUnlock, Unlock, At, HoldingPc, lifeVars, handlerVars
  <1>17. ASSUME NEW r \in Requesters, RemoveLock(r) PROVE LifeInv'
    BY <1>17, <1>g DEF RemoveLock, LockEntries, At, HoldingPc, lifeVars, handlerVars
  <1>18. ASSUME NEW r \in Requesters, RemoveBody(r) PROVE LifeInv'
    <2>1. /\ pc[r] = "remove_locked" /\ Goto(r, "idle") /\ RemoveLocked(entry[r])
          /\ entry' = [entry EXCEPT ![r] = NULL] /\ tid' = [tid EXCEPT ![r] = NULL]
          /\ UNCHANGED <<hentry, hpc>>
      BY <1>18, Zenon DEF RemoveBody, At, handlerVars
    <2>2. PointersByPc'
      BY SMTT(30), <1>t, <1>p, <1>s, <2>1 DEF PointersByPc, HoldingPc, Goto, LifeTypeOK
    <2>3. entry[r] # NULL
      BY <1>p, <2>1 DEF HoldingPc
    <2>4. tid \in [Requesters -> Threads \cup {NULL}]
      BY <1>t
    <2> QED
      BY <1>t, <2>1, <2>2, <2>3, <2>4, LifeRemove, Zenon DEF LifeInv
  <1>19. ASSUME NEW t \in Threads, DeliverSignal(t) PROVE LifeInv'
    <2>1. /\ hpc[t] = "none" /\ (HGoto(t, "get") \/ UNCHANGED hpc) /\ UNCHANGED <<lifeVars, pc>>
      BY <1>19, Zenon DEF DeliverSignal, lifeVars, entryVars, requesterVars
    <2> QED
      BY <2>1, <1>h, <1>q DEF HandlerHoldingPc
  <1>20. ASSUME NEW t \in Threads, HandlerGetLock(t) PROVE LifeInv'
    BY <1>20, <1>h DEF HandlerGetLock, LockEntries, HAt, HandlerHoldingPc, lifeVars, requesterVars
  <1>21. ASSUME NEW t \in Threads, HandlerGetBody(t) PROVE LifeInv'
    <2>1. PICK e \in Entry \cup {NULL} :
             /\ GetLocked(t, FALSE, e)
             /\ hentry' = [hentry EXCEPT ![t] = e]
             /\ HGoto(t, IF e = NULL THEN "none" ELSE "copy")
      BY <1>21, Zenon DEF HandlerGetBody
    <2>2. hpc[t] = "get_locked" /\ UNCHANGED <<entry, tid, pc>>
      BY <1>21, Zenon DEF HandlerGetBody, HAt, requesterVars
    <2>3. PointersByPc'
      BY <1>t, <1>p, <1>s, <2>1, <2>2 DEF PointersByPc, HandlerHoldingPc, HGoto, LifeTypeOK
    <2>4. hentry[t] = NULL
      BY <1>s, <2>2 DEF HandlerHoldingPc
    <2> QED
      BY <1>t, <2>1, <2>2, <2>3, <2>4, LifeHandlerGet, Zenon DEF LifeInv
  <1>22. ASSUME NEW t \in Threads, HandlerCopy(t) PROVE LifeInv'
    <2>1. hpc[t] = "copy" /\ HGoto(t, "wake") /\ UNCHANGED <<lifeVars, pc>>
      BY <1>22, Zenon DEF HandlerCopy, HAt, CopyUcontextFromSigcontext, lifeVars, requesterVars
    <2> QED
      BY <2>1, <1>h DEF HandlerHoldingPc
  <1>23. ASSUME NEW t \in Threads, HandlerWake(t) PROVE LifeInv'
    <2>1. hpc[t] = "wake" /\ HGoto(t, "wake_store") /\ UNCHANGED <<lifeVars, pc>>
      BY <1>23, Zenon DEF HandlerWake, HandlerWakeLoad, HAt, lifeVars, entryVars, requesterVars
    <2> QED
      BY <2>1, <1>h DEF HandlerHoldingPc
  <1>24. ASSUME NEW t \in Threads, HandlerWakeStore(t) PROVE LifeInv'
    <2>1. hpc[t] = "wake_store" /\ HGoto(t, "wait_unwind") /\ UNCHANGED <<lifeVars, pc>>
      BY <1>24, Zenon DEF HandlerWakeStore, HAt, StoreWaitValue, lifeVars, requesterVars
    <2> QED
      BY <2>1, <1>h DEF HandlerHoldingPc
  <1>25. ASSUME NEW t \in Threads, HandlerWaitUnwind(t) PROVE LifeInv'
    <2>1. hpc[t] = "wait_unwind" /\ HGoto(t, "wake_done") /\ UNCHANGED <<lifeVars, pc>>
      BY <1>25, Zenon DEF HandlerWaitUnwind, HAt, lifeVars, entryVars, requesterVars
    <2> QED
      BY <2>1, <1>h DEF HandlerHoldingPc
  <1>26. ASSUME NEW t \in Threads, HandlerTimeout(t) PROVE LifeInv'
    <2>1. /\ hpc[t] = "wait_unwind" /\ HGoto(t, "none") /\ hentry' = [hentry EXCEPT ![t] = NULL]
          /\ UNCHANGED <<entries_, live, tid_, ref_count_, entry, tid, pc>>
      BY <1>26, Zenon DEF HandlerTimeout, HAt, entryVars, requesterVars
    <2> QED
      BY <2>1, <1>r, Zenon DEF HandlerHoldingPc
  <1>27. ASSUME NEW t \in Threads, HandlerWakeDone(t) PROVE LifeInv'
    <2>1. hpc[t] = "wake_done" /\ HGoto(t, "wake_done_store") /\ UNCHANGED <<lifeVars, pc>>
      BY <1>27, Zenon DEF HandlerWakeDone, HandlerWakeLoad, HAt, lifeVars, entryVars, requesterVars
    <2> QED
      BY <2>1, <1>h DEF HandlerHoldingPc
  <1>28. ASSUME NEW t \in Threads, HandlerReturn(t) PROVE LifeInv'
    <2>1. /\ hpc[t] = "wake_done_store" /\ HGoto(t, "none") /\ hentry' = [hentry EXCEPT ![t] = NULL]
          /\ UNCHANGED <<entries_, live, tid_, ref_count_, entry, tid, pc>>
      BY <1>28, Zenon DEF HandlerReturn, HAt, StoreWaitValue, requesterVars
    <2> QED
      BY <2>1, <1>r, Zenon DEF HandlerHoldingPc
  <1>29. ASSUME NEW t \in Threads, Exit(t) PROVE LifeInv'
    BY <1>29, <1>q, Zenon DEF Exit, lifeVars, entryVars, requesterVars, handlerVars
  <1>30. CASE UNCHANGED vars
    BY <1>30, <1>q, Zenon DEF vars, lifeVars, entryVars, requesterVars, handlerVars
  <1> QED
    BY Zenon, <1>1, <1>2, <1>3, <1>4, <1>5, <1>6, <1>7, <1>8, <1>9, <1>10, <1>11, <1>12, <1>13, <1>14,
       <1>15, <1>16, <1>17, <1>18, <1>19, <1>20, <1>21, <1>22, <1>23, <1>24, <1>25, <1>26,
       <1>27, <1>28, <1>29, <1>30
       DEF Next, RequesterStep, HandlerStep, Rest

\* The whole inductive invariant.
IInv == TypeOK /\ LifeInv /\ LockInv /\ SignalInv

\* It holds initially.
LEMMA InitIInv == Init => IInv
  <1> SUFFICES ASSUME Init PROVE LockInv /\ SignalInv
    BY InitLife DEF IInv
  <1>1. LockInv
    BY NullAssumption, ThreadsAssumption DEF Init, EntryInit, LockInv, InExchange, UnderActionMutex
  <1>2. SignalInv
    BY ThreadsAssumption DEF Init, SignalInv, NoFatalSignal
  <1> QED
    BY <1>1, <1>2

\* The owner of an entry's mutex_ is the one requester in an exchange on it.
LEMMA ExchangesExcludeNow == IInv => OneExchangePerTarget
  <1> SUFFICES ASSUME IInv, NEW r1 \in Requesters, NEW r2 \in Requesters, r1 # r2,
                      InExchange(r1), InExchange(r2), tid[r1] = tid[r2]
               PROVE  FALSE
    BY SMTT(30) DEF OneExchangePerTarget
  <1>1. entry[r1] \in live /\ entry[r2] \in live /\ tid[r1] \in Threads
    BY SMTT(30), ThreadsAssumption DEF IInv, LifeInv, PointersByPc, HoldingPc, NoUseAfterFree, InExchange
  <1>2. tid_[entry[r1]] = tid[r1] /\ tid_[entry[r2]] = tid[r2]
    BY SMTT(30), NullAssumption, <1>1 DEF IInv, LifeInv, NoUseAfterFree, TypeOK, EntryTypeOK
  <1>3. entries_[tid[r1]] = entry[r1] /\ entries_[tid[r1]] = entry[r2]
    BY <1>1, <1>2 DEF IInv, LifeInv, EntriesExact, TypeOK, EntryTypeOK
  <1>4. mutex_[entry[r1]] = r1 /\ mutex_[entry[r2]] = r2
    BY SMTT(30) DEF IInv, LockInv
  <1> QED
    BY <1>3, <1>4

\* The owner of each mutex is inside UnwindWithSignal.
LEMMA ReturnsHoldingNothingNow == IInv => IdleHoldsNothing
  <1> SUFFICES ASSUME LockInv, NEW r \in Requesters, pc[r] = "idle"
               PROVE  /\ action_mutex # r
                      /\ \A e \in live : mutex_[e] # r
                      /\ entries_mutex = r => hpc[r] = "get_locked"
    BY Zenon DEF IInv, IdleHoldsNothing
  <1>1. r # NULL
    BY NullAssumption, ThreadsAssumption
  <1> QED
    BY <1>1 DEF LockInv, InExchange, UnderActionMutex

\* An entry's waiting requester owns its mutex_, its waiting handler is on its thread.
LEMMA OneWaiterNow == CountFacts /\ IInv => NotifyOneSuffices
  <1> SUFFICES ASSUME CountFacts, IInv, NEW e \in Entry
               PROVE  LET waiting == {r \in Requesters : entry[r] = e /\ pc[r] \in {"wait_ucontext", "wait_restart"}}
                          hwaiting == {t \in Threads : hentry[t] = e /\ hpc[t] = "wait_unwind"}
                          waking == {r \in Requesters : entry[r] = e /\ pc[r] = "unwind"}
                          hwaking == {t \in Threads : hentry[t] = e /\ hpc[t] \in {"wake", "wake_done"}}
                      IN waking # {} \/ hwaking # {} => Cardinality(waiting) + Cardinality(hwaiting) <= 1
    BY Zenon DEF NotifyOneSuffices
  <1> DEFINE waiting == {r \in Requesters : entry[r] = e /\ pc[r] \in {"wait_ucontext", "wait_restart"}}
             hwaiting == {t \in Threads : hentry[t] = e /\ hpc[t] = "wait_unwind"}
             waking == {r \in Requesters : entry[r] = e /\ pc[r] = "unwind"}
             hwaking == {t \in Threads : hentry[t] = e /\ hpc[t] \in {"wake", "wake_done"}}
  <1>1. \A r \in waiting \cup waking : r = mutex_[e]
    <2>1. LockInv
      BY Zenon DEF IInv
    <2> QED
      BY <2>1, SMTT(30) DEF LockInv, InExchange
  <1>2. \A t \in hwaiting \cup hwaking : t = tid_[e]
    <2>1. NoUseAfterFree
      BY Zenon DEF IInv, LifeInv
    <2> QED
      BY <2>1, NullAssumption, SMTT(30) DEF NoUseAfterFree
  <1>3. waiting = {} \/ waiting = {mutex_[e]}
    BY <1>1
  <1>4. hwaiting = {} \/ hwaiting = {tid_[e]}
    BY <1>2
  <1>5. waking # {} => waiting = {}
    BY <1>1
  <1>6. hwaking # {} => hwaiting = {}
    BY <1>2
  <1>7. Cardinality({}) = 0 /\ \A x : Cardinality({x}) = 1
    BY Zenon DEF CountFacts
  <1>8. waking # {} \/ hwaking # {} => Cardinality(waiting) + Cardinality(hwaiting) <= 1
    <2>1. Cardinality(waiting) \in {0, 1} /\ Cardinality(hwaiting) \in {0, 1}
      BY <1>3, <1>4, <1>7, Zenon
    <2>2. waiting = {} \/ hwaiting = {} => Cardinality(waiting) = 0 \/ Cardinality(hwaiting) = 0
      BY <1>7
    <2> HIDE DEF waiting, hwaiting, waking, hwaking
    <2> QED
      BY <1>5, <1>6, <2>1, <2>2
  <1> QED
    BY <1>8, Zenon

FS == INSTANCE FiniteSetTheorems

\* The library's notions of a finite set and of its size are those of ThreadEntry.
LEMMA SameNotions ==
    \A S : (FS!IsFiniteSet(S) <=> IsFiniteSet(S)) /\ FS!Cardinality(S) = Cardinality(S)
  BY Zenon DEF FS!IsFiniteSet, IsFiniteSet, FS!Cardinality, Cardinality

\* Since there are finitely many threads, CountFacts holds.
LEMMA CountsRight == CountFacts
  <1>1. Cardinality({}) = 0 /\ \A x : Cardinality({x}) = 1
    BY FS!FS_EmptySet, FS!FS_Singleton, SameNotions, Zenon
  <1>2. ASSUME NEW S \in SUBSET Threads PROVE IsFiniteSet(S) /\ Cardinality(S) \in Nat
    <2>1. FS!IsFiniteSet(S)
      BY ThreadsAssumption, FS!FS_Subset, SameNotions, Zenon
    <2> QED
      BY <2>1, FS!FS_CardinalityType, SameNotions, Zenon
  <1>3. ASSUME NEW S \in SUBSET Threads, NEW x \in S PROVE Cardinality(S \ {x}) = Cardinality(S) - 1
    BY <1>2, FS!FS_RemoveElement, SameNotions, Zenon
  <1>4. ASSUME NEW S \in SUBSET Threads, NEW x \in Threads, x \notin S
        PROVE  Cardinality(S \cup {x}) = Cardinality(S) + 1
    <2>1. FS!IsFiniteSet(S)
      BY <1>2, SameNotions, Zenon
    <2>2. FS!Cardinality(S \cup {x}) = IF x \in S THEN FS!Cardinality(S) ELSE FS!Cardinality(S) + 1
      BY <2>1, FS!FS_AddElement, Zenon
    <2>3. FS!Cardinality(S \cup {x}) = Cardinality(S \cup {x}) /\ FS!Cardinality(S) = Cardinality(S)
      BY SameNotions, Zenon
    <2> QED
      BY <1>4, <2>2, <2>3, Zenon
  <1> QED
    BY <1>1, <1>2, <1>3, <1>4, Zenon DEF CountFacts

\* TypeOK and LifeInv together are inductive.
LEMMA TypeAndLife == Spec => [](TypeOK /\ LifeInv)
  BY CountsRight, InitLife, TypeStep, LifeStep, PTL DEF Spec

\* All variables keep their types; in particular ref_count_, decremented by
\* ThreadEntry::Remove, never goes below zero.
THEOREM TypeCorrect == Spec => []TypeOK
  BY TypeAndLife, PTL

\* No requester and no signal handler ever dereferences a ThreadEntry that
\* ThreadEntry::Remove has deleted.
THEOREM NoEntryUsedAfterFree == Spec => []NoUseAfterFree
  <1>1. LifeInv => NoUseAfterFree
    BY DEF LifeInv
  <1> QED
    BY <1>1, TypeAndLife, PTL

\* ref_count_ of a live entry is at least the number of pointers in use.
THEOREM CountCoversHolders == Spec => []RefCountCovers
  <1>1. LifeInv => RefCountCovers
    BY DEF LifeInv
  <1> QED
    BY <1>1, TypeAndLife, PTL

\* entries_ maps each tid to its one live entry and holds nothing else.
THEOREM MapIsExact == Spec => []EntriesExact
  <1>1. LifeInv => EntriesExact
    BY DEF LifeInv
  <1> QED
    BY <1>1, TypeAndLife, PTL

\* It holds always.
LEMMA Invariance == Spec => []IInv
  <1>1. IInv /\ [Next]_vars => IInv'
    BY CountsRight, TypeStep, LifeStep, LockStep, SignalStep DEF IInv
  <1> QED
    BY InitIInv, <1>1, PTL DEF Spec

\* SendSignalToThread never leaves a signal in flight to the default action,
\* which would kill the process.
THEOREM NoSignalIsFatal == Spec => []NoFatalSignal
  <1>1. IInv => NoFatalSignal
    BY DEF IInv, SignalInv
  <1> QED
    BY <1>1, Invariance, PTL

\* Two requesters are never between Lock and Unlock for the same thread.
THEOREM ExchangesExclude == Spec => []OneExchangePerTarget
  BY ExchangesExcludeNow, Invariance, PTL

\* A call of UnwindWithSignal that has returned holds no mutex, on any path.
THEOREM ReturnsHoldingNothing == Spec => []IdleHoldsNothing
  BY ReturnsHoldingNothingNow, Invariance, PTL

\* notify_one in Wake always has at most one candidate.
THEOREM OneWaiterPerEntry == Spec => []NotifyOneSuffices
  BY CountsRight, OneWaiterNow, Invariance, PTL
=============================================================================
