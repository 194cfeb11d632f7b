---------------------------- MODULE ThreadEntry ----------------------------
(***************************************************************************)
(* ThreadEntry.cpp / ThreadEntry.h: the reference counted object through   *)
(* which a thread that wants an unwind and the signal handler running on   *)
(* the unwound thread synchronise.  This module holds the state of every   *)
(* ThreadEntry object, the static map entries_ and its mutex, and the      *)
(* methods as action operators; the programs calling them are in           *)
(* ThreadUnwinder.                                                         *)
(*                                                                         *)
(* An object is named by its address, a member of Entry.  A freed address  *)
(* may be handed out again by a later "new".                               *)
(***************************************************************************)
EXTENDS Integers, FiniteSets

CONSTANTS
    Threads,      \* thread ids
    Entry,        \* addresses at which a ThreadEntry may be allocated
    NULL          \* nullptr, and the owner of a free mutex

ASSUME NullAssumption == NULL \notin Threads /\ NULL \notin Entry

WAIT_FOR_UCONTEXT           == 1
WAIT_FOR_UNWIND_TO_COMPLETE == 2
WAIT_FOR_THREAD_TO_RESTART  == 3
WaitType == {WAIT_FOR_UCONTEXT, WAIT_FOR_UNWIND_TO_COMPLETE, WAIT_FOR_THREAD_TO_RESTART}

VARIABLES
    entries_mutex,   \* static: the thread that holds it, or NULL
    entries_,        \* static: tid -> address, NULL when the map has no such key
    live,            \* addresses currently allocated
    tid_,            \* per object fields, meaningful for live addresses
    ref_count_,
    mutex_,          \* owner
    wait_value_,
    ucontext_        \* which stop of the thread was copied; 0 when not yet written

entryVars == <<entries_mutex, entries_, live, tid_, ref_count_, mutex_, wait_value_, ucontext_>>

EntryTypeOK ==
    /\ entries_mutex \in Threads \cup {NULL}
    /\ entries_ \in [Threads -> Entry \cup {NULL}]
    /\ live \in SUBSET Entry
    /\ tid_ \in [Entry -> Threads \cup {NULL}]
    /\ ref_count_ \in [Entry -> Nat]
    /\ mutex_ \in [Entry -> Threads \cup {NULL}]
    /\ wait_value_ \in [Entry -> Nat]
    /\ ucontext_ \in [Entry -> Nat]

EntryInit ==
    /\ entries_mutex = NULL
    /\ entries_ = [t \in Threads |-> NULL]
    /\ live = {}
    /\ tid_ = [e \in Entry |-> NULL]
    /\ ref_count_ = [e \in Entry |-> 0]
    /\ mutex_ = [e \in Entry |-> NULL]
    /\ wait_value_ = [e \in Entry |-> 0]
    /\ ucontext_ = [e \in Entry |-> 0]

\* std::lock_guard guard(entries_mutex_).  The mutex is not recursive: a thread
\* that owns it already waits like any other.
LockEntries(t) ==
    /\ entries_mutex = NULL
    /\ entries_mutex' = t
    /\ UNCHANGED <<entries_, live, tid_, ref_count_, mutex_, wait_value_, ucontext_>>

\* The constructor; the caller holds entries_mutex_.
Construct(e, t) ==
    /\ e \in Entry \ live
    /\ live' = live \cup {e}
    /\ entries_' = [entries_ EXCEPT ![t] = e]
    /\ tid_' = [tid_ EXCEPT ![e] = t]
    /\ ref_count_' = [ref_count_ EXCEPT ![e] = 1]
    /\ mutex_' = [mutex_ EXCEPT ![e] = NULL]
    /\ wait_value_' = [wait_value_ EXCEPT ![e] = 0]
    /\ ucontext_' = [ucontext_ EXCEPT ![e] = 0]

\* The rest of Get, up to the release of the mutex; result is the pointer returned.
GetLocked(t, create, result) ==
    /\ entries_mutex' = NULL
    /\ \/ /\ entries_[t] # NULL
          /\ result = entries_[t]
          /\ ref_count_' = [ref_count_ EXCEPT ![result] = @ + 1]
          /\ UNCHANGED <<entries_, live, tid_, mutex_, wait_value_, ucontext_>>
       \/ /\ entries_[t] = NULL
          /\ create
          /\ Construct(result, t)
       \/ /\ entries_[t] = NULL
          /\ ~create
          /\ result = NULL
          /\ UNCHANGED <<entries_, live, tid_, ref_count_, mutex_, wait_value_, ucontext_>>

\* Mutant: Lock resets the wait value without taking the mutex.
LockWithoutMutex(e, t) ==
    /\ mutex_' = [mutex_ EXCEPT ![e] = t]
    /\ wait_value_' = [wait_value_ EXCEPT ![e] = 0]
    /\ UNCHANGED <<entries_mutex, entries_, live, tid_, ref_count_, ucontext_>>

\* Lock.  The store to wait_value_ is made without wait_mutex_.
Lock(e, t) ==
    /\ mutex_[e] = NULL
    /\ mutex_' = [mutex_ EXCEPT ![e] = t]
    /\ wait_value_' = [wait_value_ EXCEPT ![e] = 0]
    /\ UNCHANGED <<entries_mutex, entries_, live, tid_, ref_count_, ucontext_>>

\* The first statement of Remove, made before entries_mutex_ is taken.
Unlock(e) ==
    /\ mutex_' = [mutex_ EXCEPT ![e] = NULL]
    /\ UNCHANGED <<entries_mutex, entries_, live, tid_, ref_count_, wait_value_, ucontext_>>

\* Mutant: the destructor does not erase the entry from the map.
RemoveLockedNoErase(e) ==
    /\ entries_mutex' = NULL
    /\ ref_count_' = [ref_count_ EXCEPT ![e] = @ - 1]
    /\ live' = IF ref_count_[e] = 1 THEN live \ {e} ELSE live
    /\ UNCHANGED <<entries_, tid_, mutex_, wait_value_, ucontext_>>

\* Mutant: the entry is deleted while one other holder is left.
RemoveLockedEarly(e) ==
    /\ entries_mutex' = NULL
    /\ ref_count_' = [ref_count_ EXCEPT ![e] = @ - 1]
    /\ IF ref_count_[e] <= 2
         THEN /\ live' = live \ {e}
              /\ entries_' = [entries_ EXCEPT ![tid_[e]] = NULL]
         ELSE UNCHANGED <<live, entries_>>
    /\ UNCHANGED <<tid_, mutex_, wait_value_, ucontext_>>

\* The rest of Remove and the destructor, up to the release of entries_mutex_.
RemoveLocked(e) ==
    /\ entries_mutex' = NULL
    /\ ref_count_' = [ref_count_ EXCEPT ![e] = @ - 1]
    /\ IF ref_count_[e] = 1
         THEN /\ live' = live \ {e}
              /\ entries_' = [entries_ EXCEPT ![tid_[e]] = NULL]
         ELSE UNCHANGED <<live, entries_>>
    /\ UNCHANGED <<tid_, mutex_, wait_value_, ucontext_>>

\* The predicate of Wait: equality, not "at least".
Waited(e, type) == wait_value_[e] = type

\* Wake's increment of a value read earlier under wait_mutex_.
StoreWaitValue(e, v) ==
    /\ wait_value_' = [wait_value_ EXCEPT ![e] = v]
    /\ UNCHANGED <<entries_mutex, entries_, live, tid_, ref_count_, mutex_, ucontext_>>

CopyUcontextFromSigcontext(e, stop) ==
    /\ ucontext_' = [ucontext_ EXCEPT ![e] = stop]
    /\ UNCHANGED <<entries_mutex, entries_, live, tid_, ref_count_, mutex_, wait_value_>>
=============================================================================
