--------------------------- MODULE ThreadUnwinder ---------------------------
(***************************************************************************)
(* ThreadUnwinder.cpp: unwinding another thread of the process.  A         *)
(* requester sends a signal to the target, the signal handler publishes    *)
(* the target's registers in a ThreadEntry and keeps the target stopped,   *)
(* the requester unwinds and lets it go.                                   *)
(*                                                                         *)
(* A thread has a program of its own (pc, for those that call              *)
(* UnwindWithSignal) and, on top of it, possibly an activation of the      *)
(* signal handler (hpc); while the handler is active the thread's own      *)
(* program is suspended and a further signal stays pending.                *)
(***************************************************************************)
EXTENDS ThreadEntry

CONSTANTS
    Requesters,   \* threads that call UnwindWithSignal
    Targets,      \* thread ids they ask for
    MaxUnwinds,   \* bound: calls made by one requester
    MayTimeout,   \* bound: the waits that can last longer than ten seconds
    MayExit       \* bound: threads that can terminate

ASSUME ThreadsAssumption ==
    /\ IsFiniteSet(Threads)
    /\ Requesters \subseteq Threads
    /\ Targets \subseteq Threads
    /\ MayExit \subseteq Targets \ Requesters
    /\ MaxUnwinds \in Nat
    /\ MayTimeout \subseteq WaitType

ErrorCode == {"ERROR_NONE", "ERROR_UNSUPPORTED", "ERROR_INVALID_MAP", "ERROR_SYSTEM_CALL",
              "ERROR_THREAD_DOES_NOT_EXIST", "ERROR_THREAD_TIMEOUT"}

\* Dispositions of the signal.  "app" is a handler of the application.
SigAction == {"default", "app", "SignalHandler", "SignalLogOnly"}

RequesterPc == {"idle", "action_mutex", "get", "get_locked", "lock", "sigaction", "tgkill",
                "wait_ucontext", "regs", "unwind", "wait_restart",
                "remove", "remove_lock", "remove_locked"}

HandlerPc == {"none", "get", "get_locked", "copy", "wake", "wake_store", "wait_unwind",
              "wake_done", "wake_done_store"}

VARIABLES
    action_mutex,  \* static mutex of SendSignalToThread: owner
    sigact,        \* disposition of the signal, process wide
    pending,       \* per thread: queued instances of the (real-time) signal
    exited,        \* threads that have terminated
    pc,            \* per requester: next step of UnwindWithSignal / SendSignalToThread
    tid,           \* its argument
    entry,         \* its ThreadEntry*
    old_action,    \* its saved disposition
    last_error,    \* its last_error_.code
    regs,          \* the stop whose registers it unwinds from
    calls,         \* calls made so far
    hpc,           \* per thread: next step of SignalHandler, "none" when not active
    hentry,        \* the handler's ThreadEntry*
    hvalue,        \* the handler's copy of wait_value_ inside Wake
    stop           \* per thread: number of handler activations so far

requesterVars == <<pc, tid, entry, old_action, last_error, regs, calls>>
handlerVars   == <<hpc, hentry, hvalue, stop>>
kernelVars    == <<sigact, pending, exited>>
vars == <<entryVars, action_mutex, kernelVars, requesterVars, handlerVars>>

TypeOK ==
    /\ EntryTypeOK
    /\ action_mutex \in Requesters \cup {NULL}
    /\ sigact \in SigAction
    /\ pending \in [Threads -> Nat]
    /\ exited \in SUBSET Threads
    /\ pc \in [Requesters -> RequesterPc]
    /\ tid \in [Requesters -> Targets \cup {NULL}]
    /\ entry \in [Requesters -> Entry \cup {NULL}]
    /\ old_action \in [Requesters -> SigAction]
    /\ last_error \in [Requesters -> ErrorCode]
    /\ regs \in [Requesters -> Nat]
    /\ calls \in [Requesters -> Nat]
    /\ hpc \in [Threads -> HandlerPc]
    /\ hentry \in [Threads -> Entry \cup {NULL}]
    /\ hvalue \in [Threads -> Nat]
    /\ stop \in [Threads -> Nat]

\* The application may have installed its own action for the signal before.
Init ==
    /\ EntryInit
    /\ action_mutex = NULL
    /\ sigact \in {"default", "app"}
    /\ pending = [t \in Threads |-> 0]
    /\ exited = {}
    /\ pc = [r \in Requesters |-> "idle"]
    /\ tid = [r \in Requesters |-> NULL]
    /\ entry = [r \in Requesters |-> NULL]
    /\ old_action = [r \in Requesters |-> "default"]
    /\ last_error = [r \in Requesters |-> "ERROR_NONE"]
    /\ regs = [r \in Requesters |-> 0]
    /\ calls = [r \in Requesters |-> 0]
    /\ hpc = [t \in Threads |-> "none"]
    /\ hentry = [t \in Threads |-> NULL]
    /\ hvalue = [t \in Threads |-> 0]
    /\ stop = [t \in Threads |-> 0]

\* Requester r takes the step at "from"; its own program runs only while no
\* handler is active on it.
At(r, from) == pc[r] = from /\ hpc[r] = "none"
Goto(r, to) == pc' = [pc EXCEPT ![r] = to]

\* Whether a handler is between the load and the store of a Wake on e, that is,
\* whether it holds the wait_mutex_ of e.
WaitMutexFree(e) ==
    \A t \in Threads : hentry[t] = e => hpc[t] \notin {"wake_store", "wake_done_store"}

\* UnwindWithSignal up to the call of SendSignalToThread.  A thread may not ask
\* for itself.
UnwindWithSignal(r, t) ==
    /\ At(r, "idle")
    /\ calls[r] < MaxUnwinds
    /\ calls' = [calls EXCEPT ![r] = @ + 1]
    /\ IF t = r
         THEN /\ last_error' = [last_error EXCEPT ![r] = "ERROR_UNSUPPORTED"]
              /\ UNCHANGED <<pc, tid>>
         ELSE /\ last_error' = [last_error EXCEPT ![r] = "ERROR_NONE"]
              /\ tid' = [tid EXCEPT ![r] = t]
              /\ Goto(r, "action_mutex")
    /\ UNCHANGED <<entryVars, action_mutex, kernelVars, entry, old_action, regs, handlerVars>>

\* Init() fails on an unwinder used for the first time: the maps cannot be read.
InitFails(r) ==
    /\ At(r, "idle")
    /\ calls[r] < MaxUnwinds
    /\ calls' = [calls EXCEPT ![r] = @ + 1]
    /\ last_error' = [last_error EXCEPT ![r] = "ERROR_INVALID_MAP"]
    /\ UNCHANGED <<entryVars, action_mutex, kernelVars, pc, tid, entry, old_action, regs,
                   handlerVars>>

LockActionMutex(r) ==
    /\ At(r, "action_mutex")
    /\ action_mutex = NULL
    /\ action_mutex' = r
    /\ Goto(r, "get")
    /\ UNCHANGED <<entryVars, kernelVars, tid, entry, old_action, last_error, regs, calls,
                   handlerVars>>

GetLock(r) ==
    /\ At(r, "get")
    /\ LockEntries(r)
    /\ Goto(r, "get_locked")
    /\ UNCHANGED <<action_mutex, kernelVars, tid, entry, old_action, last_error, regs, calls,
                   handlerVars>>

GetBody(r) ==
    /\ At(r, "get_locked")
    /\ \E e \in Entry : GetLocked(tid[r], TRUE, e) /\ entry' = [entry EXCEPT ![r] = e]
    /\ Goto(r, "lock")
    /\ UNCHANGED <<action_mutex, kernelVars, tid, old_action, last_error, regs, calls, handlerVars>>

LockEntry(r) ==
    /\ At(r, "lock")
    /\ Lock(entry[r], r)
    /\ Goto(r, "sigaction")
    /\ UNCHANGED <<action_mutex, kernelVars, tid, entry, old_action, last_error, regs, calls,
                   handlerVars>>

Sigaction(r) ==
    /\ At(r, "sigaction")
    /\ old_action' = [old_action EXCEPT ![r] = sigact]
    /\ sigact' = "SignalHandler"
    /\ Goto(r, "tgkill")
    /\ UNCHANGED <<entryVars, action_mutex, pending, exited, tid, entry, last_error, regs, calls,
                   handlerVars>>

\* sigaction fails: the signal number is not one that can be handled.
SigactionFails(r) ==
    /\ At(r, "sigaction")
    /\ last_error' = [last_error EXCEPT ![r] = "ERROR_SYSTEM_CALL"]
    /\ Goto(r, "remove")
    /\ UNCHANGED <<entryVars, action_mutex, kernelVars, tid, entry, old_action, regs, calls,
                   handlerVars>>

Tgkill(r) ==
    /\ At(r, "tgkill")
    /\ tid[r] \notin exited
    /\ pending' = [pending EXCEPT ![tid[r]] = @ + 1]
    /\ Goto(r, "wait_ucontext")
    /\ UNCHANGED <<entryVars, action_mutex, sigact, exited, tid, entry, old_action, last_error,
                   regs, calls, handlerVars>>

\* tgkill fails with ESRCH, or with EAGAIN when no more signals can be queued.
TgkillFails(r) ==
    /\ At(r, "tgkill")
    /\ \E error \in {"ERROR_THREAD_DOES_NOT_EXIST", "ERROR_SYSTEM_CALL"} :
          /\ (error = "ERROR_THREAD_DOES_NOT_EXIST") <=> (tid[r] \in exited)
          /\ last_error' = [last_error EXCEPT ![r] = error]
    /\ sigact' = old_action[r]
    /\ Goto(r, "remove")
    /\ UNCHANGED <<entryVars, action_mutex, pending, exited, tid, entry, old_action, regs, calls,
                   handlerVars>>

\* Wait(WAIT_FOR_UCONTEXT) succeeds; returning the entry releases action_mutex.
WaitUcontext(r) ==
    /\ At(r, "wait_ucontext")
    /\ WaitMutexFree(entry[r])
    /\ Waited(entry[r], WAIT_FOR_UCONTEXT)
    /\ action_mutex' = NULL
    /\ Goto(r, "regs")
    /\ UNCHANGED <<entryVars, kernelVars, tid, entry, old_action, last_error, regs, calls,
                   handlerVars>>

\* Mutant: the old disposition is put back whatever it was.
ActionAfterTimeoutOld(old) == old

\* What is left installed when the signal was not handled within ten seconds.
ActionAfterTimeout(old) == IF old = "default" THEN "SignalLogOnly" ELSE old

WaitUcontextTimeout(r) ==
    /\ At(r, "wait_ucontext")
    /\ WAIT_FOR_UCONTEXT \in MayTimeout
    /\ WaitMutexFree(entry[r])
    /\ ~Waited(entry[r], WAIT_FOR_UCONTEXT)
    /\ sigact' = ActionAfterTimeout(old_action[r])
    /\ last_error' = [last_error EXCEPT ![r] = IF tid[r] \in exited
                                                 THEN "ERROR_THREAD_DOES_NOT_EXIST"
                                                 ELSE "ERROR_THREAD_TIMEOUT"]
    /\ Goto(r, "remove")
    /\ UNCHANGED <<entryVars, action_mutex, pending, exited, tid, entry, old_action, regs, calls,
                   handlerVars>>

\* Regs::CreateFromUcontext copies the registers out of the entry.
CreateRegs(r) ==
    /\ At(r, "regs")
    /\ regs' = [regs EXCEPT ![r] = ucontext_[entry[r]]]
    /\ Goto(r, "unwind")
    /\ UNCHANGED <<entryVars, action_mutex, kernelVars, tid, entry, old_action, last_error, calls,
                   handlerVars>>

\* Mutant: the requester does not wait for the handler to finish.
UnwindNoWait(r) ==
    /\ At(r, "unwind")
    /\ WaitMutexFree(entry[r])
    /\ StoreWaitValue(entry[r], wait_value_[entry[r]] + 1)
    /\ regs' = [regs EXCEPT ![r] = 0]
    /\ Goto(r, "remove")
    /\ UNCHANGED <<action_mutex, kernelVars, tid, entry, old_action, last_error, calls, handlerVars>>

\* UnwinderFromPid::Unwind returns and the handler is told to go on.
UnwindAndWake(r) ==
    /\ At(r, "unwind")
    /\ WaitMutexFree(entry[r])
    /\ StoreWaitValue(entry[r], wait_value_[entry[r]] + 1)
    /\ regs' = [regs EXCEPT ![r] = 0]
    /\ Goto(r, "wait_restart")
    /\ UNCHANGED <<action_mutex, kernelVars, tid, entry, old_action, last_error, calls, handlerVars>>

\* Wait(WAIT_FOR_THREAD_TO_RESTART); its result is ignored.
WaitRestart(r) ==
    /\ At(r, "wait_restart")
    /\ WaitMutexFree(entry[r])
    /\ Waited(entry[r], WAIT_FOR_THREAD_TO_RESTART) \/ WAIT_FOR_THREAD_TO_RESTART \in MayTimeout
    /\ Goto(r, "remove")
    /\ UNCHANGED <<entryVars, action_mutex, kernelVars, tid, entry, old_action, last_error, regs,
                   calls, handlerVars>>

RemoveUnlock(r) ==
    /\ At(r, "remove")
    /\ Unlock(entry[r])
    /\ Goto(r, "remove_lock")
    /\ UNCHANGED <<action_mutex, kernelVars, tid, entry, old_action, last_error, regs, calls,
                   handlerVars>>

RemoveLock(r) ==
    /\ At(r, "remove_lock")
    /\ LockEntries(r)
    /\ Goto(r, "remove_locked")
    /\ UNCHANGED <<action_mutex, kernelVars, tid, entry, old_action, last_error, regs, calls,
                   handlerVars>>

\* The last step of UnwindWithSignal; on an error path SendSignalToThread also
\* releases action_mutex as it returns.
RemoveBody(r) ==
    /\ At(r, "remove_locked")
    /\ RemoveLocked(entry[r])
    /\ entry' = [entry EXCEPT ![r] = NULL]
    /\ tid' = [tid EXCEPT ![r] = NULL]
    /\ action_mutex' = IF action_mutex = r THEN NULL ELSE action_mutex
    /\ Goto(r, "idle")
    /\ UNCHANGED <<kernelVars, old_action, last_error, regs, calls, handlerVars>>

HAt(t, from) == hpc[t] = from
HGoto(t, to) == hpc' = [hpc EXCEPT ![t] = to]

\* The kernel delivers one pending signal.  The signal is blocked while its
\* handler runs.  SignalLogOnly and an application's handler return at once.
DeliverSignal(t) ==
    /\ t \notin exited
    /\ pending[t] > 0
    /\ hpc[t] = "none"
    /\ pending' = [pending EXCEPT ![t] = @ - 1]
    /\ \/ /\ sigact = "SignalHandler"
          /\ stop' = [stop EXCEPT ![t] = @ + 1]
          /\ HGoto(t, "get")
       \/ /\ sigact # "SignalHandler"
          /\ UNCHANGED <<stop, hpc>>
    /\ UNCHANGED <<entryVars, action_mutex, sigact, exited, requesterVars, hentry, hvalue>>

HandlerGetLock(t) ==
    /\ HAt(t, "get")
    /\ LockEntries(t)
    /\ HGoto(t, "get_locked")
    /\ UNCHANGED <<action_mutex, kernelVars, requesterVars, hentry, hvalue, stop>>

\* ThreadEntry::Get(tid, false); without an entry the handler returns.
HandlerGetBody(t) ==
    /\ HAt(t, "get_locked")
    /\ \E e \in Entry \cup {NULL} :
          /\ GetLocked(t, FALSE, e)
          /\ hentry' = [hentry EXCEPT ![t] = e]
          /\ HGoto(t, IF e = NULL THEN "none" ELSE "copy")
    /\ UNCHANGED <<action_mutex, kernelVars, requesterVars, hvalue, stop>>

HandlerCopy(t) ==
    /\ HAt(t, "copy")
    /\ CopyUcontextFromSigcontext(hentry[t], stop[t])
    /\ HGoto(t, "wake")
    /\ UNCHANGED <<action_mutex, kernelVars, requesterVars, hentry, hvalue, stop>>

\* Wake, as the load and the store of wait_value_++: wait_mutex_ keeps other
\* Wakes and Waits out, but not the plain store made by Lock.
HandlerWakeLoad(t, from, to) ==
    /\ HAt(t, from)
    /\ hvalue' = [hvalue EXCEPT ![t] = wait_value_[hentry[t]]]
    /\ HGoto(t, to)
    /\ UNCHANGED <<entryVars, action_mutex, kernelVars, requesterVars, hentry, stop>>

HandlerWake(t) == HandlerWakeLoad(t, "wake", "wake_store")

HandlerWakeStore(t) ==
    /\ HAt(t, "wake_store")
    /\ StoreWaitValue(hentry[t], hvalue[t] + 1)
    /\ hvalue' = [hvalue EXCEPT ![t] = 0]
    /\ HGoto(t, "wait_unwind")
    /\ UNCHANGED <<action_mutex, kernelVars, requesterVars, hentry, stop>>

HandlerWaitUnwind(t) ==
    /\ HAt(t, "wait_unwind")
    /\ Waited(hentry[t], WAIT_FOR_UNWIND_TO_COMPLETE)
    /\ HGoto(t, "wake_done")
    /\ UNCHANGED <<entryVars, action_mutex, kernelVars, requesterVars, hentry, hvalue, stop>>

\* Mutant: the handler waits again when its wait has timed out.
HandlerNeverTimesOut(t) ==
    /\ HAt(t, "wait_unwind")
    /\ ~Waited(hentry[t], WAIT_FOR_UNWIND_TO_COMPLETE)
    /\ UNCHANGED vars

\* The handler gives up after ten seconds and returns; the reference taken by
\* Get is not given back.
HandlerTimeout(t) ==
    /\ HAt(t, "wait_unwind")
    /\ WAIT_FOR_UNWIND_TO_COMPLETE \in MayTimeout
    /\ ~Waited(hentry[t], WAIT_FOR_UNWIND_TO_COMPLETE)
    /\ hentry' = [hentry EXCEPT ![t] = NULL]
    /\ HGoto(t, "none")
    /\ UNCHANGED <<entryVars, action_mutex, kernelVars, requesterVars, hvalue, stop>>

HandlerWakeDone(t) == HandlerWakeLoad(t, "wake_done", "wake_done_store")

\* The second Wake, after which the handler returns, again keeping its reference.
HandlerReturn(t) ==
    /\ HAt(t, "wake_done_store")
    /\ StoreWaitValue(hentry[t], hvalue[t] + 1)
    /\ hvalue' = [hvalue EXCEPT ![t] = 0]
    /\ hentry' = [hentry EXCEPT ![t] = NULL]
    /\ HGoto(t, "none")
    /\ UNCHANGED <<action_mutex, kernelVars, requesterVars, stop>>

\* A thread terminates; signals pending for it are discarded.
Exit(t) ==
    /\ t \in MayExit \ exited
    /\ hpc[t] = "none"
    /\ exited' = exited \cup {t}
    /\ pending' = [pending EXCEPT ![t] = 0]
    /\ UNCHANGED <<entryVars, action_mutex, sigact, requesterVars, handlerVars>>

RequesterStep(r) ==
    \/ \E t \in Targets : UnwindWithSignal(r, t)
    \/ InitFails(r)
    \/ LockActionMutex(r)
    \/ GetLock(r)
    \/ GetBody(r)
    \/ LockEntry(r)
    \/ Sigaction(r)
    \/ SigactionFails(r)
    \/ Tgkill(r)
    \/ TgkillFails(r)
    \/ WaitUcontext(r)
    \/ WaitUcontextTimeout(r)
    \/ CreateRegs(r)
    \/ UnwindAndWake(r)
    \/ WaitRestart(r)
    \/ RemoveUnlock(r)
    \/ RemoveLock(r)
    \/ RemoveBody(r)

HandlerStep(t) ==
    \/ DeliverSignal(t)
    \/ HandlerGetLock(t)
    \/ HandlerGetBody(t)
    \/ HandlerCopy(t)
    \/ HandlerWake(t)
    \/ HandlerWakeStore(t)
    \/ HandlerWaitUnwind(t)
    \/ HandlerTimeout(t)
    \/ HandlerWakeDone(t)
    \/ HandlerReturn(t)

\* Every call has returned and no handler is active or due: the system may rest.
Quiescent ==
    /\ \A r \in Requesters : pc[r] = "idle"
    /\ \A t \in Threads : hpc[t] = "none" /\ pending[t] = 0

Rest ==
    /\ Quiescent
    /\ \A r \in Requesters : calls[r] = MaxUnwinds
    /\ UNCHANGED vars

Next ==
    \/ \E r \in Requesters : RequesterStep(r)
    \/ \E t \in Threads : HandlerStep(t)
    \/ \E t \in Threads : Exit(t)
    \/ Rest

\* A runnable thread keeps running, a pending signal is delivered, and a wait
\* whose condition stays false ends after ten seconds.
Fairness ==
    /\ \A r \in Requesters : WF_vars(RequesterStep(r))
    /\ \A t \in Threads : WF_vars(HandlerStep(t))

Spec == Init /\ [][Next]_vars

FairSpec == Spec /\ Fairness

(* Properties.                                                             *)

\* The threads that hold a ThreadEntry* to e they may still dereference.
RequesterHolders(e) == {r \in Requesters : entry[r] = e}
HandlerHolders(e)   == {t \in Threads : hentry[t] = e}

\* Whatever times out, exits or is delivered late, an entry that a requester or
\* a handler still points to has not been deleted by ThreadEntry::Remove, and it
\* is the entry of the right thread.
NoUseAfterFree ==
    /\ \A r \in Requesters : entry[r] # NULL => entry[r] \in live /\ tid_[entry[r]] = tid[r]
    /\ \A t \in Threads : hentry[t] # NULL => hentry[t] \in live /\ tid_[hentry[t]] = t

\* ref_count_ never falls behind the pointers in use, so "--ref_count_ == 0" in
\* Remove is reached by the last of them only.
RefCountCovers ==
    \A e \in live :
        ref_count_[e] >= Cardinality(RequesterHolders(e)) + Cardinality(HandlerHolders(e))

\* entries_ holds exactly the objects that exist, each under its own tid: the
\* constructor never shadows a live entry and the destructor erases its own.
EntriesExact ==
    \A t \in Threads, e \in Entry : entries_[t] = e <=> (e \in live /\ tid_[e] = t)

\* The steps of UnwindWithSignal between Lock and Unlock.
InExchange(r) ==
    pc[r] \in {"sigaction", "tgkill", "wait_ucontext", "regs", "unwind", "wait_restart", "remove"}

\* Two requesters never run the exchange with one target at the same time, though
\* each looks the entry up by itself and the entry may come and go in between.
OneExchangePerTarget ==
    \A r1, r2 \in Requesters : r1 # r2 /\ InExchange(r1) /\ InExchange(r2) => tid[r1] # tid[r2]

\* A signal that was sent never finds the default action, which would kill the
\* process, however late it is delivered ("so that we don't crash if the signal
\* eventually gets delivered", ThreadUnwinder.cpp:135).
NoFatalSignal == (\E t \in Threads : pending[t] > 0) => sigact # "default"

\* Whoever is about to call Wake on e finds at most one thread blocked in Wait on
\* e, so notify_one cannot wake the wrong one.
NotifyOneSuffices ==
    \A e \in Entry :
        LET waiting == {r \in Requesters : entry[r] = e /\ pc[r] \in {"wait_ucontext", "wait_restart"}}
            hwaiting == {t \in Threads : hentry[t] = e /\ hpc[t] = "wait_unwind"}
            waking == {r \in Requesters : entry[r] = e /\ pc[r] = "unwind"}
            hwaking == {t \in Threads : hentry[t] = e /\ hpc[t] \in {"wake", "wake_done"}}
        IN waking # {} \/ hwaking # {} => Cardinality(waiting) + Cardinality(hwaiting) <= 1

\* From the copy of the registers to the end of the unwind the target is held in
\* the handler that published them ("Pause the thread until the unwind is
\* complete", ThreadUnwinder.cpp:66): they are the registers of this stop.
PausedDuringUnwind ==
    \A r \in Requesters :
        pc[r] \in {"regs", "unwind"} =>
            /\ hpc[tid[r]] = "wait_unwind"
            /\ hentry[tid[r]] = entry[r]
            /\ (IF pc[r] = "regs" THEN ucontext_[entry[r]] ELSE regs[r]) = stop[tid[r]]

\* UnwindWithSignal returns, with or without an error, holding no lock.
IdleHoldsNothing ==
    \A r \in Requesters :
        pc[r] = "idle" =>
            /\ action_mutex # r
            /\ \A e \in live : mutex_[e] # r
            /\ entries_mutex = r => hpc[r] = "get_locked"

\* Every call of UnwindWithSignal returns, and once a handler is entered the
\* thread gets back to its own program.
EveryoneReturns ==
    /\ \A r \in Requesters : pc[r] # "idle" ~> pc[r] = "idle"
    /\ \A t \in Threads : hpc[t] # "none" ~> hpc[t] = "none"

\* The handler does not deadlock on entries_mutex_ with the thread it interrupted
\* (ThreadUnwinder.cpp:71 leaves Remove out of the handler for fear of this).
NoSelfDeadlock == \A t \in Threads : hpc[t] = "get" => entries_mutex # t
=============================================================================
