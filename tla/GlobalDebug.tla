---------------------------- MODULE GlobalDebug ----------------------------
(***************************************************************************)
(* GlobalDebugImpl.h: finding the JIT (or DEX) symbol file of a pc.  The   *)
(* reader walks a linked list in the memory of a process whose runtime     *)
(* keeps adding, repacking and deleting entries; it takes no lock of that  *)
(* process and relies on the seqlock of each entry (even: live, odd:       *)
(* deleted; an address and an even seqlock never name two entries).        *)
(*                                                                         *)
(* The runtime is external; its steps are the ones the reader's comments   *)
(* rely on: an entry is filled in while its seqlock is odd, new entries go *)
(* to the head, an entry is invalidated before it is unlinked and freed,   *)
(* and repacking publishes the merged entry before it deletes the parts.   *)
(*                                                                         *)
(* ForEachSymfile holds lock_ throughout, so there is one reader.          *)
(***************************************************************************)
EXTENDS Integers, FiniteSets

CONSTANTS
    Addr,              \* addresses of JITCodeEntry objects
    HEAD,              \* &descriptor.first_entry, treated as a "next" field
    ZERO,              \* the null address
    Methods,           \* functions with JIT code; a symfile is a set of them
    kMaxRaceRetries,
    kMaxHeadRetries,
    MayFail,           \* whether a read of the process memory, or the loading of a symfile, can fail
    MaxOps,            \* bound: list operations of the runtime
    MaxFinds           \* bound: calls of ForEachSymfile

ASSUME ConstantsAssumption ==
    /\ HEAD \notin Addr /\ ZERO \notin Addr /\ HEAD # ZERO
    /\ kMaxRaceRetries \in Nat \ {0} /\ kMaxHeadRetries \in Nat \ {0}
    /\ MayFail \in BOOLEAN
    /\ MaxOps \in Nat /\ MaxFinds \in Nat

VARIABLES
    HasSeqlock,  \* seqlock_offset_ # 0, i.e. the descriptor has the Android fields; a runtime
                 \* without them only adds entries
    nxt,         \* next fields of the entries and of the descriptor
    seqlock,
    symfile,     \* what symfile_addr leads to; {} for address zero
    wpc, wnew, wdel, ops,   \* the runtime: step, entry being added, entries to delete, operations
    linked,      \* ghost: the entries in the list
    created,     \* ghost: every entry ever published
    rpc,         \* the reader: next read of ForEachSymfile
    pc,          \* its argument: the function that contains the pc
    known,       \* descriptor_addr_ # 0
    entries_,    \* cache: set of [addr, seq, sym]
    todo,        \* cached entries still to look at
    entries,     \* local map of ReadAllEntries
    old_size,
    race, head,  \* retries so far
    uid,         \* the entry at hand
    field, address, lock, address1,    \* ReadNextField
    loaded,      \* symfile_addr / the symfile just loaded
    result, finds,
    ok,          \* what ReadAllEntries returned; ForEachSymfile does not look at it
    whole,       \* ghost: no symfile was left out of entries because it did not load
    always,      \* ghost: functions in some live entry at every instant of the call
    liveDuring   \* ghost: entries live at some instant of the call

runtimeVars == <<HasSeqlock, nxt, seqlock, symfile, wpc, wnew, wdel, ops, linked, created>>
callVars    == <<pc, finds, whole>>
walkVars    == <<uid, field, address, lock, address1, loaded>>
readVars    == <<entries, old_size, race, head>>
ghostVars   == <<always, liveDuring>>
vars == <<runtimeVars, rpc, callVars, known, entries_, todo, readVars, walkVars, result, ok,
          ghostVars>>

Even(n)    == n % 2 = 0
Live       == {a \in linked : Even(seqlock[a])}
Covered    == UNION {symfile[a] : a \in Live}
SeqOf(n)   == IF HasSeqlock THEN n ELSE 0     \* as the reader sees it
Uid(a, s)  == [addr |-> a, seq |-> s]
NoUid      == Uid(ZERO, 0)
UidOf(x)   == Uid(x.addr, x.seq)
Nothing    == [addr |-> ZERO, seq |-> 0, sym |-> {}]

Init ==
    /\ HasSeqlock \in BOOLEAN
    /\ nxt = [a \in Addr \cup {HEAD} |-> ZERO]
    /\ seqlock = [a \in Addr |-> 1]
    /\ symfile = [a \in Addr |-> {}]
    /\ wpc = "idle" /\ wnew = ZERO /\ wdel = {} /\ ops = 0
    /\ linked = {} /\ created = {}
    /\ rpc = "idle" /\ pc \in Methods /\ known = FALSE /\ entries_ = {} /\ todo = {}
    /\ entries = {} /\ old_size = 0 /\ race = 0 /\ head = 0
    /\ uid = NoUid /\ field = HEAD /\ address = ZERO /\ lock = 0 /\ address1 = ZERO /\ loaded = {}
    /\ result = Nothing /\ finds = 0 /\ ok = TRUE /\ whole = TRUE
    /\ always = {} /\ liveDuring = {}

(* The runtime (external).                                                 *)

readerVars == <<rpc, callVars, known, entries_, todo, readVars, walkVars, result, ok>>

\* What a change of the list means for a call that is under way.
Observe == /\ always' = always \cap Covered'
           /\ liveDuring' = liveDuring \cup {Uid(a, SeqOf(seqlock'[a])) : a \in Live'}

\* A free entry is filled in: new code, or a copy of some entries to be merged.
Fill(a, sym, del) ==
    /\ wpc = "idle" /\ ops < MaxOps
    /\ a \notin linked
    /\ symfile' = [symfile EXCEPT ![a] = sym]
    /\ nxt' = [nxt EXCEPT ![a] = nxt[HEAD]]
    /\ wnew' = a /\ wdel' = del /\ ops' = ops + 1 /\ wpc' = "validate"
    /\ UNCHANGED <<HasSeqlock, seqlock, linked, created, readerVars>>
    /\ Observe

Compile == \E a \in Addr, m \in Methods \ Covered : Fill(a, {m}, {})

Repack ==
    /\ HasSeqlock
    /\ \E a \in Addr, del \in SUBSET Live \ {{}} : Fill(a, UNION {symfile[d] : d \in del}, del)

Validate ==
    /\ wpc = "validate"
    /\ seqlock' = [seqlock EXCEPT ![wnew] = @ + 1]
    /\ created' = created \cup {[addr |-> wnew, seq |-> SeqOf(seqlock[wnew] + 1), sym |-> symfile[wnew]]}
    /\ wpc' = "publish"
    /\ UNCHANGED <<HasSeqlock, nxt, symfile, wnew, wdel, ops, linked, readerVars>>
    /\ Observe

Publish ==
    /\ wpc = "publish"
    /\ nxt' = [nxt EXCEPT ![HEAD] = wnew]
    /\ linked' = linked \cup {wnew}
    /\ wpc' = IF wdel = {} THEN "idle" ELSE "delete"
    /\ UNCHANGED <<HasSeqlock, seqlock, symfile, wnew, wdel, ops, created, readerVars>>
    /\ Observe

\* The method's code is collected.
Collect ==
    /\ HasSeqlock
    /\ wpc = "idle" /\ ops < MaxOps
    /\ \E d \in Live : wdel' = {d}
    /\ ops' = ops + 1 /\ wpc' = "delete"
    /\ UNCHANGED <<HasSeqlock, nxt, seqlock, symfile, wnew, linked, created, readerVars>>
    /\ Observe

Invalidate(d) ==
    /\ wpc = "delete" /\ d \in wdel
    /\ seqlock' = [seqlock EXCEPT ![d] = @ + 1]
    /\ wpc' = "unlink" /\ wnew' = d
    /\ UNCHANGED <<HasSeqlock, nxt, symfile, wdel, ops, linked, created, readerVars>>
    /\ Observe

Unlink ==
    /\ wpc = "unlink"
    /\ nxt' = [f \in Addr \cup {HEAD} |->
                 IF f \in linked \cup {HEAD} /\ nxt[f] = wnew THEN nxt[wnew] ELSE nxt[f]]
    /\ linked' = linked \ {wnew}
    /\ wpc' = "free"
    /\ UNCHANGED <<HasSeqlock, seqlock, symfile, wnew, wdel, ops, created, readerVars>>
    /\ Observe

Free ==
    /\ wpc = "free"
    /\ symfile' = [symfile EXCEPT ![wnew] = {}]
    /\ nxt' = [nxt EXCEPT ![wnew] = ZERO]
    /\ wdel' = wdel \ {wnew}
    /\ wpc' = IF wdel = {wnew} THEN "idle" ELSE "delete"
    /\ UNCHANGED <<HasSeqlock, seqlock, wnew, ops, linked, created, readerVars>>
    /\ Observe

Runtime == \/ Compile \/ Repack \/ Validate \/ Publish \/ Collect
           \/ (\E d \in Addr : Invalidate(d)) \/ Unlink \/ Free

(* The reader: one step per read of the other process.                     *)

\* The cached entries whose symfile covers the pc.
Candidates(cache) == {x \in cache : pc' \in x.sym}

ForEachSymfile(m) ==
    /\ rpc = "idle" /\ finds < MaxFinds
    /\ pc' = m /\ finds' = finds + 1 /\ result' = Nothing /\ ok' = TRUE /\ whole' = TRUE
    /\ always' = Covered /\ liveDuring' = {Uid(a, SeqOf(seqlock[a])) : a \in Live}
    /\ rpc' = IF known THEN "cached" ELSE "descriptor"
    /\ todo' = Candidates(entries_)
    /\ UNCHANGED <<runtimeVars, known, entries_, readVars, walkVars>>

\* Return from ForEachSymfile.
Return(x) ==
    /\ rpc' = "idle" /\ result' = x
    /\ todo' = {} /\ entries' = {} /\ old_size' = 0 /\ race' = 0 /\ head' = 0
    /\ uid' = NoUid /\ field' = HEAD /\ address' = ZERO /\ lock' = 0 /\ address1' = ZERO
    /\ loaded' = {}
    /\ UNCHANGED <<runtimeVars, callVars, ghostVars>>

\* FindAndReadVariable / ReadDescriptor: an empty list counts as no descriptor.
ReadDescriptor ==
    /\ rpc = "descriptor"
    /\ \/ /\ nxt[HEAD] = ZERO
          /\ Return(Nothing)
          /\ UNCHANGED <<known, entries_, ok>>
       \/ /\ nxt[HEAD] # ZERO
          /\ known' = TRUE
          /\ rpc' = "cached"
          /\ UNCHANGED <<runtimeVars, callVars, entries_, todo, readVars, walkVars, result, ok, ghostVars>>

\* Mutant: the seqlock is only looked at in ReadNextField.
CheckSeqlockNever(u) == TRUE

\* CheckSeqlock.
CheckSeqlock(u) == HasSeqlock => seqlock[u.addr] = u.seq

\* One cached entry is looked at; it counts only if it is still valid.
CheckCached(x) ==
    /\ rpc = "cached" /\ x \in todo
    /\ \/ /\ CheckSeqlock(x)
          /\ Return(x)
          /\ UNCHANGED <<known, entries_, ok>>
       \/ /\ ~CheckSeqlock(x) \/ MayFail
          /\ todo' = todo \ {x}
          /\ UNCHANGED <<runtimeVars, rpc, callVars, known, entries_, readVars, walkVars, result, ok,
                         ghostVars>>

\* ReadNewEntries starts from the head of the list (again).
GotoHead ==
    /\ rpc' = "address0" /\ field' = HEAD
    /\ uid' = NoUid /\ address' = ZERO /\ lock' = 0 /\ address1' = ZERO /\ loaded' = {}

ReadAllEntries ==
    /\ rpc = "cached" /\ todo = {}
    /\ GotoHead
    /\ UNCHANGED <<runtimeVars, callVars, known, entries_, todo, readVars, result, ok, ghostVars>>

\* The second loop of ForEachSymfile, over the entries cached by now, whose
\* seqlocks are not looked at again.
SecondLoop(cache, success) ==
    /\ entries_' = cache /\ ok' = success
    /\ \/ \E x \in cache : pc \in x.sym /\ Return(x)
       \/ (\A x \in cache : pc \notin x.sym) /\ Return(Nothing)
    /\ UNCHANGED known

\* A race was detected: retry, unless that was the last attempt.
Race ==
    \/ /\ race + 1 < kMaxRaceRetries
       /\ race' = race + 1 /\ head' = 0 /\ entries' = {} /\ old_size' = 0 /\ whole' = TRUE
       /\ GotoHead
       /\ UNCHANGED <<runtimeVars, pc, finds, known, entries_, todo, result, ok, ghostVars>>
    \/ /\ race + 1 = kMaxRaceRetries
       /\ SecondLoop(entries_, FALSE)

\* Mutant: the list is taken as it was after one pass.
EndOfPassOnce == SecondLoop(entries, TRUE)

\* ReadNewEntries returned true: done when the pass added nothing.
EndOfPass ==
    \/ /\ Cardinality(entries) = old_size
       /\ SecondLoop(entries, TRUE)
    \/ /\ Cardinality(entries) # old_size
       /\ head + 1 < kMaxHeadRetries
       /\ head' = head + 1 /\ old_size' = Cardinality(entries)
       /\ GotoHead
       /\ UNCHANGED <<runtimeVars, callVars, known, entries_, todo, entries, race, result, ok, ghostVars>>
    \/ /\ Cardinality(entries) # old_size
       /\ head + 1 = kMaxHeadRetries
       /\ SecondLoop(entries_, FALSE)

\* The walk has arrived at entry u: stop at the end of the list or at an entry
\* seen in an earlier pass, otherwise go and read it.
Visit(u) ==
    \/ /\ u.addr = ZERO \/ u \in {UidOf(x) : x \in entries}
       /\ EndOfPass
    \/ /\ u.addr # ZERO /\ u \notin {UidOf(x) : x \in entries}
       /\ uid' = u /\ rpc' = "entry"
       /\ field' = HEAD /\ address' = ZERO /\ lock' = 0 /\ address1' = ZERO /\ loaded' = {}
       /\ UNCHANGED <<runtimeVars, callVars, known, entries_, todo, readVars, result, ok, ghostVars>>

\* Steps that only move the walk on.
Walk(to) ==
    /\ rpc' = to
    /\ UNCHANGED <<runtimeVars, callVars, known, entries_, todo, result, ok, ghostVars>>

\* ReadNextField returned uid u: for the head go there, otherwise look once more
\* whether the entry we come from is still in place.
GotNext(u) ==
    \/ /\ field = HEAD
       /\ Visit(u)
    \/ /\ field # HEAD
       /\ address' = u.addr /\ lock' = u.seq /\ address1' = ZERO
       /\ Walk("recheck")
       /\ UNCHANGED <<readVars, uid, field, loaded>>

ReadAddress0 ==
    /\ rpc = "address0"
    /\ \/ /\ ~HasSeqlock
          /\ GotNext(Uid(nxt[field], 0))
       \/ /\ HasSeqlock
          /\ address' = nxt[field] /\ lock' = 0
          /\ Walk(IF nxt[field] = ZERO THEN "address1" ELSE "seqlock0")
          /\ UNCHANGED <<readVars, uid, field, address1, loaded>>

ReadSeqlock0 ==
    /\ rpc = "seqlock0"
    /\ lock' = seqlock[address]
    /\ Walk("address1")
    /\ UNCHANGED <<readVars, uid, field, address, address1, loaded>>

\* Mutant: the second read is only compared, a deleted entry passes.
ConsistentOnly(a1, s1) == address = a1 /\ lock = s1

\* Both reads agree and the entry is live.
Consistent(a1, s1) == address = a1 /\ lock = s1 /\ Even(lock)

ReadAddress1 ==
    /\ rpc = "address1"
    /\ \/ /\ nxt[field] # ZERO
          /\ address1' = nxt[field]
          /\ Walk("seqlock1")
          /\ UNCHANGED <<readVars, uid, field, address, lock, loaded>>
       \/ /\ nxt[field] = ZERO
          /\ \/ Consistent(ZERO, 0) /\ GotNext(NoUid)
             \/ ~Consistent(ZERO, 0) /\ Race

ReadSeqlock1 ==
    /\ rpc = "seqlock1"
    /\ \/ /\ Consistent(address1, seqlock[address1])
          /\ GotNext(Uid(address1, lock))
       \/ /\ ~Consistent(address1, seqlock[address1])
          /\ Race

\* After the second read of the next field: this entry must not have been deleted.
Recheck ==
    /\ rpc = "recheck"
    /\ \/ CheckSeqlock(uid) /\ Visit(Uid(address, lock))
       \/ ~CheckSeqlock(uid) /\ Race

\* memory_->ReadFully(uid.address, &data, ...): only symfile_addr matters here.
ReadEntry ==
    /\ rpc = "entry"
    /\ loaded' = symfile[uid.addr]
    /\ Walk("check")
    /\ UNCHANGED <<readVars, uid, field, address, lock, address1>>

\* Go on to the next field of the entry at hand.
GotoNext ==
    /\ rpc' = "address0" /\ field' = uid.addr /\ loaded' = {}
    /\ UNCHANGED <<runtimeVars, pc, finds, known, entries_, todo, old_size, race, head, uid, address,
                   lock, address1, result, ok, ghostVars>>

Cached == {x \in entries_ : UidOf(x) = uid}

CheckEntry ==
    /\ rpc = "check"
    /\ \/ ~CheckSeqlock(uid) /\ Race
       \/ /\ CheckSeqlock(uid)
          /\ Cached # {} \/ loaded = {}
          /\ entries' = entries \cup Cached
          /\ GotoNext
          /\ UNCHANGED whole
       \/ /\ CheckSeqlock(uid)
          /\ Cached = {} /\ loaded # {}
          /\ Walk("load")
          /\ UNCHANGED <<readVars, uid, field, address, lock, address1, loaded>>

\* Load copies the symfile; its memory may have been freed and used again.
Load ==
    /\ rpc = "load"
    /\ loaded' = symfile[uid.addr]
    /\ Walk("loaded")
    /\ UNCHANGED <<readVars, uid, field, address, lock, address1>>

\* The seqlock is looked at first, because a load can fail by a race.  A symfile that does not load
\* although its entry is in place is left out, and the walk goes on.
CheckLoaded ==
    /\ rpc = "loaded"
    /\ \/ ~CheckSeqlock(uid) /\ Race
       \/ /\ CheckSeqlock(uid)
          /\ entries' = entries \cup {[addr |-> uid.addr, seq |-> uid.seq, sym |-> loaded]}
          /\ GotoNext
          /\ UNCHANGED whole
       \/ /\ CheckSeqlock(uid) /\ MayFail
          /\ whole' = FALSE
          /\ GotoNext
          /\ UNCHANGED entries

\* A read of the process memory fails: no retry.
ReadFails ==
    /\ MayFail
    /\ rpc \in {"address0", "seqlock0", "address1", "seqlock1", "recheck", "entry", "check", "loaded"}
    /\ SecondLoop(entries_, FALSE)

Reader ==
    \/ \E m \in Methods : ForEachSymfile(m)
    \/ ReadDescriptor
    \/ \E x \in todo : CheckCached(x)
    \/ ReadAllEntries
    \/ ReadAddress0 \/ ReadSeqlock0 \/ ReadAddress1 \/ ReadSeqlock1
    \/ Recheck \/ ReadEntry \/ CheckEntry \/ Load \/ CheckLoaded
    \/ ReadFails

\* All calls and list operations that the bounds allow have been made.
Rest == /\ rpc = "idle" /\ finds = MaxFinds /\ wpc = "idle"
        /\ UNCHANGED vars

Next == Runtime \/ Reader \/ Rest

Spec == Init /\ [][Next]_vars

(* Properties.                                                             *)

\* Every cached symfile is the one the runtime published under that address and
\* seqlock, even if the entry or its memory was reused while ReadNewEntries was
\* loading it.
CacheSound == entries_ \subseteq created

\* A function that some live entry covers at every instant of the call is found,
\* also when repacking moves it from an entry not yet read to the head of the
\* list ("keep reading the most recent entries until we reach a fixed point",
\* GlobalDebugImpl.h:217), unless the reader gave up or left out a symfile that did
\* not load.  That need not be the function's own: a pass that leaves out the only
\* new entry does not change the size, so the fixed point is reached too early.
FindComplete ==
    rpc = "idle" /\ finds > 0 /\ ok /\ whole /\ result = Nothing => pc \notin always

\* The entry that is returned was live at some instant of the call ("This is as
\* if we found the entry in time and it became invalid after return",
\* GlobalDebugImpl.h:157), unless ReadAllEntries gave up, which ForEachSymfile
\* does not look at.
FoundWasLiveIfRead == ok /\ result # Nothing => UidOf(result) \in liveDuring
=============================================================================
