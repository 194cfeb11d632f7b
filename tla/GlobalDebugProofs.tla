------------------------- MODULE GlobalDebugProofs -------------------------
(***************************************************************************)
(* What the reader caches and returns is genuine: a proof for any number   *)
(* of entries, functions, operations of the runtime, retries and lookups.  *)
(***************************************************************************)
EXTENDS GlobalDebug, TLAPS

Uids == [addr : Addr, seq : Nat]
Symfiles == SUBSET Methods

(* The runtime's list.                                                     *)

RuntimeType ==
    /\ HasSeqlock \in BOOLEAN
    /\ nxt \in [Addr \cup {HEAD} -> Addr \cup {ZERO}]
    /\ seqlock \in [Addr -> Nat]
    /\ symfile \in [Addr -> Symfiles]
    /\ wpc \in {"idle", "validate", "publish", "delete", "unlink", "free"}
    /\ wnew \in Addr \cup {ZERO}
    /\ linked \in SUBSET Addr
    /\ created \in SUBSET [addr : Addr, seq : Nat, sym : Symfiles]

Unpublished(a) == wpc \in {"validate", "publish"} /\ a = wnew
Leaving(a)     == wpc \in {"unlink", "free"} /\ a = wnew

\* The entry the runtime is working on; the entries yet to be deleted are in the list.
WorkOK ==
    /\ wpc \in {"validate", "publish", "free"} => wnew \in Addr \ linked
    /\ wpc = "unlink" => wnew \in linked
    /\ \A d \in wdel : d \in linked \/ Leaving(d)
    /\ wpc = "idle" => wdel = {}
    /\ ~HasSeqlock => wpc \in {"idle", "validate", "publish"} /\ wdel = {}

\* Even seqlocks are those of the entries in the list, and of a new one about to enter it.
SeqlocksOK ==
    /\ \A a \in linked : ~Leaving(a) => Even(seqlock[a])
    /\ \A a \in Addr \ linked : ~(wpc = "publish" /\ a = wnew) => ~Even(seqlock[a])
    /\ wpc = "unlink" => ~Even(seqlock[wnew])
    /\ wpc = "publish" => Even(seqlock[wnew])
    /\ \A a \in Addr : Even(seqlock[a]) =>
          [addr |-> a, seq |-> SeqOf(seqlock[a]), sym |-> symfile[a]] \in created

\* Age grows along the list: an entry points to older ones only.
Aged(age) == \A a \in linked : nxt[a] # ZERO => age[nxt[a]] < age[a]

\* From the head and from entries in the list one gets to entries in the list.
ListOK ==
    /\ \A f \in linked \cup {HEAD} : nxt[f] \in linked \cup {ZERO}
    /\ \A a \in Addr \ linked : nxt[a] = ZERO \/ Unpublished(a) \/ Leaving(a)
    /\ wpc \in {"validate", "publish"} => nxt[wnew] = nxt[HEAD]
    /\ \E age \in [Addr -> Nat] : Aged(age)

Observed == \A a \in Live : Uid(a, SeqOf(seqlock[a])) \in liveDuring

RuntimeInv == RuntimeType /\ WorkOK /\ SeqlocksOK /\ ListOK /\ Observed

(* The reader.                                                             *)

ReaderType ==
    /\ field \in Addr \cup {HEAD}
    /\ address \in Addr \cup {ZERO}
    /\ address1 \in Addr \cup {ZERO}
    /\ lock \in Nat

\* Uid u names an entry that has been in the list; if it still has that seqlock, it is there now.
SettledIn(u, has, seqlocks, list) ==
    /\ u \in Uids
    /\ ~has => u.seq = 0 /\ u.addr \in list
    /\ has => /\ Even(u.seq)
              /\ u.seq <= seqlocks[u.addr]
              /\ u.seq = seqlocks[u.addr] => u.addr \in list
Settled(u) == SettledIn(u, HasSeqlock, seqlock, linked)
Seen(u) == Settled(u) /\ u \in liveDuring

CachesOK ==
    /\ entries_ \subseteq created /\ entries \subseteq created
    /\ todo \subseteq entries_
    /\ \A x \in entries_ : Settled(UidOf(x))
    /\ \A x \in entries : Seen(UidOf(x))
    /\ rpc \in {"idle", "descriptor", "cached"} => entries = {}

\* The two reads of ReadNextField.
ReadOK ==
    /\ rpc \in {"seqlock0", "seqlock1", "address1"} => HasSeqlock
    /\ rpc = "seqlock0" => address \in Addr
    /\ rpc \in {"address1", "seqlock1"} /\ address # ZERO => lock <= seqlock[address]
    /\ rpc = "seqlock1" => /\ address1 \in Addr
                           /\ address1 = address /\ Even(lock) => Settled(Uid(address, lock))

WalkOK ==
    /\ rpc \in {"address0", "seqlock0", "address1", "seqlock1"} /\ field # HEAD =>
          Seen(uid) /\ field = uid.addr
    /\ rpc \in {"entry", "check", "load", "loaded", "recheck"} => Seen(uid)
    /\ rpc = "recheck" => address = ZERO \/ Seen(Uid(address, lock))
    /\ rpc = "loaded" /\ CheckSeqlock(uid) => loaded = symfile[uid.addr]

ResultOK == (rpc # "idle" => result = Nothing) /\ FoundWasLiveIfRead

ReaderInv == ReaderType /\ CachesOK /\ ReadOK /\ WalkOK /\ ResultOK

\* The inductive invariant.
IInv == RuntimeInv /\ ReaderInv

(* The runtime's steps.                                                    *)

\* What the reader may rely on while the runtime takes a step.
Grows ==
    /\ HasSeqlock' = HasSeqlock
    /\ created \subseteq created' /\ liveDuring \subseteq liveDuring'
    /\ \A a \in Addr : /\ seqlock[a] <= seqlock'[a]
                       /\ Even(seqlock[a]) /\ seqlock'[a] = seqlock[a] =>
                             symfile'[a] = symfile[a] /\ (a \in linked => a \in linked')
    /\ ~HasSeqlock => \A a \in linked : a \in linked' /\ symfile'[a] = symfile[a]

LEMMA EvenSucc == ASSUME NEW n \in Nat PROVE Even(n + 1) <=> ~Even(n)
  BY DEF Even

LEMMA Between ==
    ASSUME NEW l \in Nat, NEW m \in Nat, NEW n \in Nat, l <= m, m <= n
    PROVE  l <= n /\ (l = n => l = m /\ m = n)
  OBVIOUS

LEMMA ObserveKeeps ==
    ASSUME Observe, UNCHANGED HasSeqlock PROVE Observed' /\ liveDuring \subseteq liveDuring'
  BY DEF Observe, Observed, SeqOf

LEMMA FillKeeps ==
    ASSUME RuntimeInv, NEW a \in Addr, NEW sym \in Symfiles, NEW del \in SUBSET Live,
           ~HasSeqlock => del = {}, Fill(a, sym, del)
    PROVE  RuntimeInv' /\ Grows
  <1> USE DEF RuntimeInv, Fill
  <1>0. /\ del \subseteq linked /\ a \notin linked /\ a # HEAD /\ a # ZERO
        /\ ZERO \notin linked /\ HEAD \notin linked
    BY ConstantsAssumption DEF Live, RuntimeType
  <1>1. RuntimeType'
    BY DEF RuntimeType
  <1>2. WorkOK'
    BY <1>0 DEF RuntimeType, WorkOK, Leaving
  <1>a. ~Even(seqlock[a])
    BY DEF SeqlocksOK
  <1>3. SeqlocksOK'
    BY <1>0, <1>a DEF SeqlocksOK, RuntimeType, Leaving, SeqOf
  <1>4. ListOK'
    <2>1. PICK age \in [Addr -> Nat] : Aged(age)
      BY DEF ListOK
    <2>2. Aged(age)'
      BY <2>1, <1>0 DEF Aged, RuntimeType
    <2>3. \A f \in linked \cup {HEAD} : nxt'[f] = nxt[f]
      BY <1>0 DEF RuntimeType
    <2>4. nxt'[a] = nxt'[HEAD]
      BY <1>0 DEF RuntimeType
    <2>5. \A b \in Addr \ linked : b = a \/ nxt'[b] = ZERO
      BY <1>0 DEF RuntimeType, ListOK, Unpublished, Leaving
    <2> QED
      BY <2>2, <2>3, <2>4, <2>5 DEF ListOK, Unpublished
  <1>5. Grows
    BY <1>0, <1>a, ObserveKeeps DEF Grows, RuntimeType
  <1> QED
    BY <1>1, <1>2, <1>3, <1>4, <1>5, ObserveKeeps

LEMMA RuntimeKeeps ==
    ASSUME RuntimeInv, Runtime
    PROVE  RuntimeInv' /\ Grows /\ UNCHANGED readerVars
  <1> USE DEF RuntimeInv
  <1>0. HEAD \notin Addr /\ ZERO \notin Addr /\ HEAD # ZERO
    BY ConstantsAssumption
  <1>1. CASE Compile
    <2>1. PICK a \in Addr, m \in Methods : Fill(a, {m}, {})
      BY <1>1 DEF Compile
    <2> QED
      BY <2>1, FillKeeps, {m} \in Symfiles, Zenon DEF Symfiles, Fill
  <1>2. CASE Repack
    <2>1. PICK a \in Addr, del \in SUBSET Live : HasSeqlock /\ Fill(a, UNION {symfile[d] : d \in del}, del)
      BY <1>2, Zenon DEF Repack
    <2>2. UNION {symfile[d] : d \in del} \in Symfiles
      BY DEF Symfiles, Live, RuntimeType
    <2> QED
      BY <2>1, <2>2, FillKeeps, Zenon DEF Fill
  <1>3. CASE Validate
    <2> USE <1>3 DEF Validate
    <2>0. wnew \in Addr \ linked
      BY DEF WorkOK
    <2>1. /\ seqlock'[wnew] = seqlock[wnew] + 1
          /\ \A a \in Addr \ {wnew} : seqlock'[a] = seqlock[a]
          /\ seqlock[wnew] \in Nat
      BY <2>0 DEF RuntimeType
    <2>2. ~Even(seqlock[wnew]) /\ Even(seqlock'[wnew])
      BY <2>0, <2>1, EvenSucc DEF SeqlocksOK
    <2>3. SeqOf(seqlock[wnew] + 1) \in Nat /\ symfile[wnew] \in Symfiles
      BY <2>0, <2>1 DEF SeqOf, RuntimeType
    <2>4. RuntimeType'
      BY <2>0, <2>1, <2>3 DEF RuntimeType
    <2>5. WorkOK'
      BY DEF WorkOK, Leaving
    <2>6. SeqlocksOK'
      <3>1. \A a \in Addr : Even(seqlock'[a]) =>
               [addr |-> a, seq |-> SeqOf(seqlock'[a]), sym |-> symfile[a]] \in created'
        BY <2>1 DEF SeqlocksOK
      <3> QED
        BY <2>0, <2>1, <2>2, <3>1 DEF SeqlocksOK, RuntimeType, Leaving, SeqOf
    <2>7. ListOK'
      BY DEF ListOK, Aged, Unpublished, Leaving
    <2>8. Grows
      BY <2>0, <2>1, <2>2, ObserveKeeps DEF Grows, RuntimeType
    <2> QED
      BY <2>4, <2>5, <2>6, <2>7, <2>8, ObserveKeeps
  <1>4. CASE Publish
    <2> USE <1>4 DEF Publish
    <2>0. wnew \in Addr \ linked /\ wnew # ZERO /\ wnew # HEAD
      BY <1>0 DEF WorkOK
    <2>1. RuntimeType'
      BY <2>0 DEF RuntimeType
    <2>2. WorkOK'
      BY DEF WorkOK, Leaving
    <2>3. SeqlocksOK'
      BY <2>0 DEF SeqlocksOK, Leaving, SeqOf
    <2>4. ListOK'
      <3>0. nxt'[HEAD] = wnew /\ \A a \in Addr : nxt'[a] = nxt[a]
        BY <1>0 DEF RuntimeType
      <3>1. PICK age \in [Addr -> Nat] : Aged(age)
        BY DEF ListOK
      <3> DEFINE older == nxt[wnew]
      <3>2. older \in linked \cup {ZERO}
        BY DEF ListOK
      <3>a. older # ZERO => age[older] + 1 \in Nat
        BY <3>2 DEF RuntimeType
      <3>b. [age EXCEPT ![wnew] = IF older = ZERO THEN 0 ELSE age[older] + 1] \in [Addr -> Nat]
        BY <2>0, <3>a
      <3>3. PICK new \in [Addr -> Nat] :
               new = [age EXCEPT ![wnew] = IF older = ZERO THEN 0 ELSE age[older] + 1]
        BY <3>b, Zenon
      <3>4. \A a \in linked : new[a] = age[a] /\ nxt[a] \in linked \cup {ZERO}
        BY <2>0, <3>3 DEF RuntimeType, ListOK
      <3>5. older # ZERO => new[older] = age[older] /\ new[wnew] = age[older] + 1 /\ age[older] \in Nat
        BY <2>0, <3>2, <3>3 DEF RuntimeType
      <3>6. Aged(new)'
        BY <2>0, <3>0, <3>1, <3>4, <3>5, <1>0 DEF Aged, RuntimeType
      <3>7. \A f \in linked' \cup {HEAD} : nxt'[f] \in linked' \cup {ZERO}
        BY <2>0, <3>0, <3>2 DEF ListOK, RuntimeType
      <3>8. \A a \in Addr \ linked' : nxt'[a] = ZERO
        BY <2>0, <3>0 DEF ListOK, Unpublished, Leaving
      <3> QED
        BY <3>6, <3>7, <3>8 DEF ListOK
    <2>5. Grows
      BY <2>0, ObserveKeeps DEF Grows, RuntimeType
    <2> QED
      BY <2>1, <2>2, <2>3, <2>4, <2>5, ObserveKeeps
  <1>5. CASE Collect
    <2> USE <1>5 DEF Collect
    <2>1. RuntimeType' /\ WorkOK'
      BY DEF RuntimeType, WorkOK, Live
    <2>2. SeqlocksOK'
      BY DEF SeqlocksOK, Leaving, SeqOf
    <2>3. ListOK'
      BY DEF ListOK, Aged, Unpublished, Leaving
    <2>4. Grows
      BY ObserveKeeps DEF Grows, RuntimeType
    <2> QED
      BY <2>1, <2>2, <2>3, <2>4, ObserveKeeps
  <1>6. CASE \E d \in Addr : Invalidate(d)
    <2>0. PICK d \in Addr : Invalidate(d)
      BY <1>6
    <2> USE <2>0 DEF Invalidate
    <2>1. d \in linked /\ HasSeqlock
      BY DEF WorkOK, Leaving
    <2>2. /\ seqlock'[d] = seqlock[d] + 1
          /\ \A a \in Addr \ {d} : seqlock'[a] = seqlock[a]
          /\ seqlock[d] \in Nat
      BY DEF RuntimeType
    <2>3. Even(seqlock[d]) /\ ~Even(seqlock'[d])
      BY <2>1, <2>2, EvenSucc DEF SeqlocksOK, Leaving
    <2>4. RuntimeType'
      BY <2>2 DEF RuntimeType
    <2>5. WorkOK'
      BY <2>1 DEF WorkOK, Leaving
    <2>6. SeqlocksOK'
      BY <2>1, <2>2, <2>3 DEF SeqlocksOK, RuntimeType, Leaving, SeqOf
    <2>7. ListOK'
      BY DEF ListOK, Aged, Unpublished, Leaving
    <2>8. Grows
      BY <2>1, <2>2, <2>3, ObserveKeeps DEF Grows, RuntimeType
    <2> QED
      BY <2>4, <2>5, <2>6, <2>7, <2>8, ObserveKeeps
  <1>7. CASE Unlink
    <2> USE <1>7 DEF Unlink
    <2>0. wnew \in linked /\ wnew \in Addr /\ HasSeqlock
      BY DEF WorkOK, RuntimeType
    <2>1. nxt[wnew] \in (linked \ {wnew}) \cup {ZERO}
      <3>1. PICK age \in [Addr -> Nat] : Aged(age)
        BY DEF ListOK
      <3>2. nxt[wnew] # wnew
        BY <2>0, <3>1, <1>0 DEF Aged
      <3> QED
        BY <2>0, <3>2 DEF ListOK
    <2>2. \A f \in Addr \cup {HEAD} :
             nxt'[f] = IF f \in linked \cup {HEAD} /\ nxt[f] = wnew THEN nxt[wnew] ELSE nxt[f]
      OBVIOUS
    <2>3. RuntimeType'
      BY <2>0, <2>1 DEF RuntimeType
    <2>4. WorkOK'
      BY <2>0 DEF WorkOK, Leaving
    <2>5. SeqlocksOK'
      BY <2>0 DEF SeqlocksOK, RuntimeType, Leaving, SeqOf
    <2>6. ListOK'
      <3>1. PICK age \in [Addr -> Nat] : Aged(age)
        BY DEF ListOK
      <3>2. Aged(age)'
        <4> SUFFICES ASSUME NEW a \in linked', nxt'[a] # ZERO
                     PROVE  age[nxt'[a]] < age[a]
          BY DEF Aged
        <4>1. a \in linked /\ a \in Addr
          BY DEF RuntimeType
        <4>2. CASE nxt[a] = wnew
          <5>1. nxt'[a] = nxt[wnew] /\ nxt[wnew] \in Addr
            BY <2>1, <2>2, <4>1, <4>2 DEF RuntimeType
          <5>2. age[wnew] < age[a] /\ age[nxt[wnew]] < age[wnew]
            BY <2>0, <3>1, <4>1, <4>2, <5>1, <1>0 DEF Aged
          <5> QED
            BY <2>0, <4>1, <5>1, <5>2
        <4>3. CASE nxt[a] # wnew
          BY <2>2, <3>1, <4>1, <4>3 DEF Aged
        <4> QED
          BY <4>2, <4>3
      <3>3. \A f \in linked' \cup {HEAD} : nxt'[f] \in linked' \cup {ZERO}
        BY <2>1, <2>2 DEF ListOK, RuntimeType
      <3>4. \A a \in Addr \ linked' : nxt'[a] = ZERO \/ Leaving(a)'
        BY <2>2, <1>0 DEF ListOK, Unpublished, Leaving
      <3> QED
        BY <3>2, <3>3, <3>4 DEF ListOK
    <2>7. Grows
      BY <2>0, ObserveKeeps DEF Grows, RuntimeType, SeqlocksOK
    <2> QED
      BY <2>3, <2>4, <2>5, <2>6, <2>7, ObserveKeeps
  <1>8. CASE Free
    <2> USE <1>8 DEF Free
    <2>0. wnew \in Addr \ linked /\ HasSeqlock /\ ~Even(seqlock[wnew])
      BY DEF WorkOK, SeqlocksOK
    <2>1. /\ symfile' \in [Addr -> Symfiles]
          /\ \A a \in Addr \ {wnew} : symfile'[a] = symfile[a]
      BY <2>0 DEF RuntimeType, Symfiles
    <2>2. /\ nxt' \in [Addr \cup {HEAD} -> Addr \cup {ZERO}]
          /\ \A f \in (Addr \cup {HEAD}) \ {wnew} : nxt'[f] = nxt[f]
          /\ nxt'[wnew] = ZERO
      BY <2>0 DEF RuntimeType
    <2>3. RuntimeType'
      BY <2>1, <2>2 DEF RuntimeType
    <2>4. WorkOK'
      BY <2>0 DEF WorkOK, Leaving
    <2>5. SeqlocksOK'
      BY <2>0, <2>1 DEF SeqlocksOK, RuntimeType, Leaving, SeqOf
    <2>6. ListOK'
      <3>1. PICK age \in [Addr -> Nat] : Aged(age)
        BY DEF ListOK
      <3>2. Aged(age)'
        BY <2>0, <2>2, <3>1 DEF Aged, RuntimeType
      <3>3. \A f \in linked' \cup {HEAD} : nxt'[f] \in linked' \cup {ZERO}
        BY <2>0, <2>2, <1>0 DEF ListOK, RuntimeType
      <3>4. \A a \in Addr \ linked' : nxt'[a] = ZERO
        BY <2>2 DEF ListOK, Unpublished, Leaving
      <3> QED
        BY <3>2, <3>3, <3>4 DEF ListOK
    <2>7. Grows
      BY <2>0, <2>1, ObserveKeeps DEF Grows, RuntimeType
    <2> QED
      BY <2>3, <2>4, <2>5, <2>6, <2>7, ObserveKeeps
  <1> QED
    BY <1>1, <1>2, <1>3, <1>4, <1>5, <1>6, <1>7, <1>8 DEF Runtime

(* The reader.                                                             *)

LEMMA RuntimeKeepsReader ==
    ASSUME IInv, RuntimeInv', Grows, UNCHANGED readerVars
    PROVE  ReaderInv'
  <1> USE DEF IInv, RuntimeInv, ReaderInv, readerVars, callVars, readVars, walkVars
  <1>1. \A u : Settled(u) => SettledIn(u, HasSeqlock', seqlock', linked')
    <2> SUFFICES ASSUME NEW u, Settled(u) PROVE SettledIn(u, HasSeqlock, seqlock', linked')
      BY DEF Grows
    <2>1. CASE ~HasSeqlock
      BY <2>1 DEF Settled, SettledIn, Grows
    <2>2. CASE HasSeqlock
      <3>1. /\ u.addr \in Addr /\ u.seq \in Nat /\ u \in Uids
            /\ seqlock[u.addr] \in Nat /\ seqlock'[u.addr] \in Nat
            /\ Even(u.seq) /\ u.seq <= seqlock[u.addr]
            /\ u.seq = seqlock[u.addr] => u.addr \in linked
        BY <2>2 DEF Settled, SettledIn, Uids, RuntimeType
      <3>2. seqlock[u.addr] <= seqlock'[u.addr]
        BY <3>1 DEF Grows
      <3>3. seqlock[u.addr] = seqlock'[u.addr] /\ u.seq = seqlock[u.addr] => u.addr \in linked'
        BY <3>1 DEF Grows
      <3>4. u.seq <= seqlock'[u.addr] /\ (u.seq = seqlock'[u.addr] => u.addr \in linked')
        BY <3>1, <3>2, <3>3, Between, Zenon
      <3> QED
        BY <2>2, <3>1, <3>4, Zenon DEF SettledIn
    <2> QED
      BY <2>1, <2>2
  <1>2. ReaderType' /\ ResultOK'
    BY DEF ReaderType, ResultOK, FoundWasLiveIfRead, Grows
  <1>3. CachesOK'
    BY <1>1 DEF CachesOK, Seen, Settled, Grows
  <1>4. ReadOK'
    <2>1. rpc \in {"address1", "seqlock1"} /\ address # ZERO => lock <= seqlock'[address]
      <3>1. address # ZERO => seqlock[address] \in Nat /\ seqlock'[address] \in Nat /\ lock \in Nat
        BY DEF ReaderType, RuntimeType
      <3>2. address # ZERO => seqlock[address] <= seqlock'[address]
        BY DEF ReaderType, Grows
      <3> QED
        BY <3>1, <3>2, Between, Zenon DEF ReadOK
    <2>2. rpc = "seqlock1" /\ address1 = address /\ Even(lock) => Settled(Uid(address, lock))'
      BY <1>1, Zenon DEF ReadOK, Settled, Grows
    <2> QED
      BY <2>1, <2>2 DEF ReadOK, Grows
  <1>5. WalkOK'
    <2>1. Seen(uid) => Seen(uid)'
      BY <1>1, Zenon DEF Seen, Settled, Grows
    <2>2. Seen(Uid(address, lock)) => Seen(Uid(address, lock))'
      BY <1>1 DEF Seen, Settled, Grows
    <2>3. ASSUME rpc = "loaded", CheckSeqlock(uid)' PROVE loaded = symfile'[uid.addr]
      <3>1. Seen(uid) /\ uid.addr \in Addr /\ uid.seq \in Nat
        BY <2>3 DEF WalkOK, Seen, Settled, SettledIn, Uids
      <3>2. CASE ~HasSeqlock
        BY <2>3, <3>1, <3>2 DEF WalkOK, CheckSeqlock, Seen, Settled, SettledIn, Grows
      <3>3. CASE HasSeqlock
        <4>1. seqlock[uid.addr] \in Nat /\ seqlock'[uid.addr] = uid.seq
          BY <2>3, <3>1, <3>3 DEF RuntimeType, CheckSeqlock, Grows
        <4>a. Even(uid.seq) /\ uid.seq <= seqlock[uid.addr] /\ seqlock[uid.addr] <= seqlock'[uid.addr]
          BY <3>1, <3>3, Zenon DEF Seen, Settled, SettledIn, Grows
        <4>2. seqlock[uid.addr] = uid.seq /\ Even(uid.seq)
          BY <3>1, <4>1, <4>a, Between, Zenon
        <4> QED
          BY <2>3, <3>1, <4>1, <4>2, Zenon DEF WalkOK, CheckSeqlock, Grows
      <3> QED
        BY <3>2, <3>3 DEF RuntimeType
    <2> QED
      BY <2>1, <2>2, <2>3 DEF WalkOK
  <1> QED
    BY <1>2, <1>3, <1>4, <1>5

\* A step of the reader inside a call leaves the runtime and the ghosts alone.
Quiet == UNCHANGED <<runtimeVars, ghostVars>>

LEMMA QuietKeeps == ASSUME IInv, Quiet PROVE RuntimeInv'
  BY DEF IInv, Quiet, runtimeVars, ghostVars, RuntimeInv, RuntimeType, WorkOK, Unpublished, Leaving,
         SeqlocksOK, SeqOf, ListOK, Aged, Observed, Live

\* The calls every reader step ends in.

LEMMA ReturnKeeps ==
    ASSUME IInv, NEW x, Return(x), entries_' \subseteq created,
           \A y \in entries_' : Settled(UidOf(y)),
           ok' /\ x # Nothing => UidOf(x) \in liveDuring
    PROVE  Quiet /\ ReaderInv'
  <1> USE DEF IInv, Return, runtimeVars, ghostVars
  <1>1. ReaderType' /\ ReadOK' /\ WalkOK'
    BY DEF ReaderType, ReadOK, WalkOK
  <1>2. CachesOK'
    BY DEF CachesOK, Settled
  <1>3. ResultOK'
    BY DEF ResultOK, FoundWasLiveIfRead, UidOf
  <1> QED
    BY <1>1, <1>2, <1>3 DEF ReaderInv, Quiet

LEMMA GiveUpKeeps == ASSUME IInv, SecondLoop(entries_, FALSE) PROVE Quiet /\ ReaderInv'
  <1>1. PICK x : Return(x)
    BY DEF SecondLoop
  <1> QED
    BY <1>1, ReturnKeeps, Zenon DEF SecondLoop, IInv, ReaderInv, CachesOK

LEMMA DoneKeeps == ASSUME IInv, SecondLoop(entries, TRUE) PROVE Quiet /\ ReaderInv'
  <1>1. PICK x \in entries \cup {Nothing} : Return(x)
    BY DEF SecondLoop
  <1>2. entries_' = entries
    BY DEF SecondLoop
  <1> QED
    BY <1>1, <1>2, ReturnKeeps DEF IInv, ReaderInv, CachesOK, Seen

LEMMA HeadKeeps ==
    ASSUME IInv, GotoHead, entries' \in {{}, entries}, Quiet, UNCHANGED <<entries_, todo, result, ok>>,
           rpc # "idle"
    PROVE  ReaderInv'
  <1> USE DEF IInv, ReaderInv, GotoHead, Quiet, runtimeVars, ghostVars
  <1>1. ReaderType' /\ ReadOK' /\ WalkOK'
    BY Zenon DEF ReaderType, ReadOK, WalkOK
  <1>2. CachesOK'
    BY DEF CachesOK, Seen, Settled
  <1>3. ResultOK'
    BY DEF ResultOK, FoundWasLiveIfRead, UidOf
  <1> QED
    BY <1>1, <1>2, <1>3

LEMMA RaceKeeps == ASSUME IInv, Race, rpc # "idle" PROVE Quiet /\ ReaderInv'
  BY HeadKeeps, GiveUpKeeps, Zenon DEF Race, Quiet

LEMMA EndOfPassKeeps == ASSUME IInv, EndOfPass, rpc # "idle" PROVE Quiet /\ ReaderInv'
  BY HeadKeeps, GiveUpKeeps, DoneKeeps, Zenon DEF EndOfPass, Quiet

LEMMA VisitKeeps ==
    ASSUME IInv, NEW u, u.addr # ZERO => Seen(u), Visit(u), rpc # "idle"
    PROVE  Quiet /\ ReaderInv'
  <1>1. CASE EndOfPass
    BY <1>1, EndOfPassKeeps
  <1>2. CASE ~EndOfPass
    <2>1. /\ Seen(u) /\ uid' = u /\ rpc' = "entry" /\ Quiet
          /\ field' = HEAD /\ address' = ZERO /\ lock' = 0 /\ address1' = ZERO
          /\ UNCHANGED <<entries_, todo, entries, result, ok>>
      BY <1>2 DEF Visit, readVars, Quiet
    <2> USE <2>1 DEF IInv, ReaderInv, Quiet, runtimeVars, ghostVars
    <2>2. ReaderType' /\ ReadOK'
      BY DEF ReaderType, ReadOK
    <2>3. WalkOK'
      BY <2>1, Zenon DEF WalkOK, Seen, Settled
    <2>4. CachesOK'
      BY <2>1 DEF CachesOK, Seen, Settled
    <2>5. ResultOK'
      BY DEF ResultOK, FoundWasLiveIfRead, UidOf
    <2> QED
      BY <2>2, <2>3, <2>4, <2>5
  <1> QED
    BY <1>1, <1>2

LEMMA GotNextKeeps ==
    ASSUME IInv, NEW u, u \in [addr : Addr \cup {ZERO}, seq : Nat], u.addr # ZERO => Seen(u),
           field # HEAD => Seen(uid), GotNext(u), rpc # "idle"
    PROVE  Quiet /\ ReaderInv'
  <1>1. CASE field = HEAD
    BY <1>1, VisitKeeps DEF GotNext
  <1>2. CASE field # HEAD
    <2>0. /\ u = Uid(u.addr, u.seq) /\ rpc' = "recheck" /\ Quiet
          /\ address' = u.addr /\ lock' = u.seq /\ address1' = ZERO
          /\ UNCHANGED <<entries_, todo, entries, uid, field, result, ok>>
      BY <1>2 DEF GotNext, Walk, readVars, Quiet, Uid
    <2> USE <1>2, <2>0 DEF IInv, ReaderInv, Quiet, runtimeVars, ghostVars
    <2>1. ReaderType' /\ ReadOK'
      BY DEF ReaderType, ReadOK
    <2>2. WalkOK'
      <3>1. Seen(uid)'
        BY DEF Seen, Settled
      <3>2. address' = ZERO \/ Seen(Uid(address, lock))'
        BY DEF Seen, Settled
      <3> QED
        BY <3>1, <3>2 DEF WalkOK
    <2>3. CachesOK'
      BY DEF CachesOK, Seen, Settled
    <2>4. ResultOK'
      BY DEF ResultOK, FoundWasLiveIfRead, UidOf
    <2> QED
      BY <2>1, <2>2, <2>3, <2>4 DEF Quiet
  <1> QED
    BY <1>1, <1>2

\* An entry in the list that is not being deleted has been observed.
LEMMA LinkedSeen ==
    ASSUME IInv, NEW a \in linked, ~Leaving(a)
    PROVE  Seen(Uid(a, SeqOf(seqlock[a])))
  <1>1. a \in Live /\ Even(seqlock[a]) /\ a \in Addr /\ seqlock[a] \in Nat
    BY DEF IInv, RuntimeInv, RuntimeType, SeqlocksOK, Live
  <1>2. Uid(a, SeqOf(seqlock[a])) \in liveDuring
    BY <1>1 DEF IInv, RuntimeInv, Observed
  <1>3. /\ Uid(a, SeqOf(seqlock[a])) \in Uids
        /\ Uid(a, SeqOf(seqlock[a])).addr = a /\ Uid(a, SeqOf(seqlock[a])).seq = SeqOf(seqlock[a])
    BY <1>1 DEF Uids, Uid, SeqOf
  <1>4. seqlock[a] <= seqlock[a]
    BY <1>1
  <1>5. CASE HasSeqlock
    BY <1>1, <1>2, <1>3, <1>4, <1>5, Zenon DEF Seen, Settled, SettledIn, SeqOf
  <1>6. CASE ~HasSeqlock
    BY <1>1, <1>2, <1>3, <1>6, Zenon DEF Seen, Settled, SettledIn, SeqOf
  <1> QED
    BY <1>5, <1>6

\* ForEachSymfile starts observing anew; nothing has been read yet.
LEMMA CallKeeps ==
    ASSUME IInv, NEW m \in Methods, ForEachSymfile(m)
    PROVE  IInv'
  <1> USE DEF IInv, ForEachSymfile, runtimeVars, readVars, walkVars
  <1>1. RuntimeInv'
    BY Zenon DEF RuntimeInv, RuntimeType, WorkOK, Unpublished, Leaving, SeqlocksOK, SeqOf, ListOK, Aged,
           Observed, Live
  <1>2. ReaderType' /\ ReadOK' /\ WalkOK'
    BY Zenon DEF ReaderInv, ReaderType, ReadOK, WalkOK
  <1>3. CachesOK'
    BY Zenon DEF ReaderInv, CachesOK, Settled, Candidates
  <1>4. ResultOK'
    BY DEF ResultOK, FoundWasLiveIfRead
  <1> QED
    BY <1>1, <1>2, <1>3, <1>4 DEF ReaderInv

\* Steps before the list is read, and giving up.
LEMMA EarlyKeeps ==
    ASSUME IInv, ReadDescriptor \/ (\E x \in todo : CheckCached(x)) \/ ReadAllEntries \/ ReadFails
    PROVE  Quiet /\ ReaderInv'
  <1> USE DEF IInv, ReaderInv
  <1>1. CASE ReadDescriptor
    <2>1. CASE Return(Nothing) /\ UNCHANGED entries_
      BY <2>1, ReturnKeeps DEF CachesOK
    <2>2. CASE rpc' = "cached"
      <3>0. /\ Quiet /\ rpc = "descriptor"
            /\ UNCHANGED <<entries_, todo, entries, field, address, lock, address1, result, ok>>
        BY <1>1, <2>2 DEF ReadDescriptor, Return, readVars, walkVars, Quiet
      <3> USE <2>2, <3>0 DEF Quiet, runtimeVars, ghostVars
      <3>1. ReaderType' /\ ReadOK' /\ WalkOK'
        BY Zenon DEF ReaderType, ReadOK, WalkOK
      <3>2. CachesOK'
        BY DEF CachesOK, Seen, Settled
      <3>3. ResultOK'
        BY DEF ResultOK, FoundWasLiveIfRead, UidOf
      <3> QED
        BY <3>1, <3>2, <3>3
    <2> QED
      BY <1>1, <2>1, <2>2 DEF ReadDescriptor
  <1>2. CASE \E x \in todo : CheckCached(x)
    <2>1. PICK x \in todo : CheckCached(x)
      BY <1>2
    <2>2. CASE CheckSeqlock(x) /\ Return(x) /\ UNCHANGED entries_
      <3>1. x \in entries_ /\ Settled(UidOf(x)) /\ UidOf(x) = Uid(x.addr, x.seq)
        BY DEF CachesOK, UidOf
      <3>a. UidOf(x).addr = x.addr /\ UidOf(x).seq = x.seq
        BY DEF UidOf, Uid
      <3>b. x.addr \in linked /\ x.seq = SeqOf(seqlock[x.addr]) /\ (HasSeqlock => Even(seqlock[x.addr]))
        BY <2>2, <3>1, <3>a, Zenon DEF CheckSeqlock, Settled, SettledIn, SeqOf
      <3>2. x.addr \in linked /\ ~Leaving(x.addr) /\ x.seq = SeqOf(seqlock[x.addr])
        BY <3>b, Zenon DEF RuntimeInv, WorkOK, SeqlocksOK, Leaving
      <3>3. UidOf(x) \in liveDuring
        BY <3>1, <3>2, LinkedSeen DEF Seen
      <3> QED
        BY <2>2, <3>3, ReturnKeeps DEF CachesOK
    <2>3. CASE todo' = todo \ {x} /\ UNCHANGED <<runtimeVars, rpc, entries_, readVars, walkVars, result, ok,
                                                 ghostVars>>
      <3> USE <2>3 DEF runtimeVars, readVars, walkVars, ghostVars
      <3>0. rpc = "cached"
        BY <2>1 DEF CheckCached
      <3>1. ReaderType' /\ ReadOK' /\ WalkOK'
        BY <3>0, Zenon DEF ReaderType, ReadOK, WalkOK
      <3>2. CachesOK'
        BY DEF CachesOK, Seen, Settled
      <3>3. ResultOK'
        BY DEF ResultOK, FoundWasLiveIfRead, UidOf
      <3> QED
        BY <3>1, <3>2, <3>3 DEF Quiet
    <2> QED
      BY <2>1, <2>2, <2>3 DEF CheckCached
  <1>3. CASE ReadAllEntries
    BY <1>3, HeadKeeps DEF ReadAllEntries, readVars, Quiet
  <1>4. CASE ReadFails
    BY <1>4, GiveUpKeeps DEF ReadFails
  <1> QED
    BY <1>1, <1>2, <1>3, <1>4

\* ReadNextField: an address and an even seqlock read twice name an entry of the list.
LEMMA NextFieldKeeps ==
    ASSUME IInv, ReadAddress0 \/ ReadSeqlock0 \/ ReadAddress1 \/ ReadSeqlock1 \/ Recheck
    PROVE  Quiet /\ ReaderInv'
  <1> USE DEF IInv, ReaderInv
  <1>0. HEAD \notin Addr /\ ZERO \notin Addr /\ HEAD # ZERO
    BY ConstantsAssumption
  <1>1. CASE ReadAddress0
    <2>1. nxt[field] \in Addr \cup {ZERO} /\ (field # HEAD => Seen(uid) /\ field = uid.addr)
      BY <1>1 DEF ReadAddress0, RuntimeInv, RuntimeType, ReaderType, WalkOK
    <2>2. CASE ~HasSeqlock /\ GotNext(Uid(nxt[field], 0))
      <3>1. nxt[field] \in linked \cup {ZERO}
        BY <2>1, <2>2, Zenon DEF Seen, Settled, SettledIn, RuntimeInv, ListOK
      <3>2. nxt[field] # ZERO => Seen(Uid(nxt[field], 0))
        BY <2>2, <3>1, LinkedSeen, Zenon DEF SeqOf, Leaving, RuntimeInv, WorkOK
      <3>3. /\ Uid(nxt[field], 0) \in [addr : Addr \cup {ZERO}, seq : Nat]
            /\ Uid(nxt[field], 0).addr = nxt[field]
        BY <2>1 DEF Uid
      <3> QED
        BY <1>1, <2>1, <2>2, <3>2, <3>3, GotNextKeeps DEF ReadAddress0
    <2>3. CASE HasSeqlock
      <3>0. /\ Quiet /\ rpc = "address0" /\ address' = nxt[field] /\ lock' = 0
            /\ rpc' = IF nxt[field] = ZERO THEN "address1" ELSE "seqlock0"
            /\ UNCHANGED <<entries_, todo, entries, uid, field, address1, result, ok>>
        BY <1>1, <2>3 DEF ReadAddress0, Walk, readVars, Quiet
      <3> USE <2>3, <3>0 DEF Quiet, runtimeVars, ghostVars
      <3>1. ReaderType' /\ ReadOK'
        BY <2>1 DEF ReaderType, ReadOK
      <3>2. WalkOK'
        BY <2>1, Zenon DEF WalkOK, Seen, Settled
      <3>3. CachesOK'
        BY Zenon DEF CachesOK, Seen, Settled
      <3>4. ResultOK'
        BY DEF ResultOK, FoundWasLiveIfRead, UidOf
      <3> QED
        BY <3>1, <3>2, <3>3, <3>4 DEF Quiet
    <2> QED
      BY <1>1, <2>2, <2>3 DEF ReadAddress0
  <1>2. CASE ReadSeqlock0
    <2>0. address \in Addr /\ seqlock[address] \in Nat /\ HasSeqlock
      BY <1>2 DEF ReadSeqlock0, ReadOK, RuntimeInv, RuntimeType
    <2>a. /\ Quiet /\ rpc = "seqlock0" /\ rpc' = "address1" /\ lock' = seqlock[address]
          /\ UNCHANGED <<entries_, todo, entries, uid, field, address, address1, result, ok>>
      BY <1>2 DEF ReadSeqlock0, Walk, readVars, Quiet
    <2> USE <2>a DEF Quiet, runtimeVars, ghostVars
    <2>b. lock' <= seqlock'[address'] /\ lock' \in Nat
      BY <2>0
    <2>1. ReaderType' /\ ReadOK'
      BY <2>0, <2>b DEF ReaderType, ReadOK
    <2>2. WalkOK'
      BY Zenon DEF WalkOK, Seen, Settled
    <2>3. CachesOK'
      BY DEF CachesOK, Seen, Settled
    <2>4. ResultOK'
      BY DEF ResultOK, FoundWasLiveIfRead, UidOf
    <2> QED
      BY <2>1, <2>2, <2>3, <2>4 DEF Quiet
  <1>3. CASE ReadAddress1
    <2>0. rpc = "address1" /\ HasSeqlock /\ nxt[field] \in Addr \cup {ZERO}
      BY <1>3 DEF ReadAddress1, ReadOK, RuntimeInv, RuntimeType, ReaderType
    <2>1. CASE nxt[field] # ZERO /\ address1' = nxt[field]
      <3>0. /\ rpc' = "seqlock1" /\ Quiet
            /\ UNCHANGED <<entries_, todo, entries, uid, field, address, lock, result, ok>>
        BY <1>3, <2>1 DEF ReadAddress1, Walk, readVars, Quiet
      <3> USE <2>1, <3>0 DEF Quiet, runtimeVars, ghostVars
      <3>1. Even(seqlock[nxt[field]]) => nxt[field] \in linked
        <4>1. CASE field \in linked \cup {HEAD}
          BY <2>0, <4>1, Zenon DEF RuntimeInv, ListOK
        <4>2. CASE field \in Addr \ linked
          BY <2>0, <4>2, Zenon DEF RuntimeInv, ListOK, WorkOK, SeqlocksOK, Unpublished, Leaving
        <4> QED
          BY <4>1, <4>2, Zenon DEF ReaderType
      <3>2. address = nxt[field] /\ Even(lock) => Settled(Uid(address, lock))
        <4> SUFFICES ASSUME address = nxt[field], Even(lock) PROVE Settled(Uid(address, lock))
          OBVIOUS
        <4>1. address \in Addr /\ lock \in Nat /\ lock <= seqlock[address]
          BY <2>0, Zenon DEF ReadOK, ReaderType
        <4> QED
          BY <2>0, <3>1, <4>1 DEF Settled, SettledIn, Uids, Uid
      <3>3. ReaderType'
        BY <2>0 DEF ReaderType
      <3>4. ReadOK'
        BY <2>0, <3>2, Zenon DEF ReadOK, Settled
      <3>5. WalkOK'
        BY <2>0, Zenon DEF WalkOK, Seen, Settled
      <3>6. CachesOK'
        BY <2>0, Zenon DEF CachesOK, Seen, Settled
      <3>7. ResultOK'
        BY <2>0 DEF ResultOK, FoundWasLiveIfRead, UidOf
      <3> QED
        BY <3>3, <3>4, <3>5, <3>6, <3>7 DEF Quiet
    <2>2. CASE GotNext(NoUid)
      <3>1. NoUid \in [addr : Addr \cup {ZERO}, seq : Nat] /\ NoUid.addr = ZERO
        BY DEF NoUid, Uid
      <3>2. field # HEAD => Seen(uid)
        BY <2>0 DEF WalkOK
      <3> QED
        BY <2>0, <2>2, <3>1, <3>2, GotNextKeeps, Zenon
    <2>3. CASE Race
      BY <2>0, <2>3, RaceKeeps
    <2> QED
      BY <1>3, <2>1, <2>2, <2>3 DEF ReadAddress1
  <1>4. CASE ReadSeqlock1
    <2>0. rpc = "seqlock1" /\ HasSeqlock
      BY <1>4 DEF ReadSeqlock1, ReadOK
    <2>1. CASE Consistent(address1, seqlock[address1]) /\ GotNext(Uid(address1, lock))
      <3>1. /\ address1 \in Addr /\ address1 = address /\ lock \in Nat
            /\ lock = seqlock[address1] /\ Even(lock) /\ Settled(Uid(address1, lock))
        BY <2>0, <2>1 DEF Consistent, ReadOK, ReaderType
      <3>2. address1 \in linked /\ ~Leaving(address1)
        BY <2>0, <3>1, Zenon DEF Settled, SettledIn, Uid, Leaving, RuntimeInv, WorkOK, SeqlocksOK
      <3>3. Seen(Uid(address1, lock))
        BY <2>0, <3>1, <3>2, LinkedSeen DEF SeqOf
      <3>4. Uid(address1, lock) \in [addr : Addr \cup {ZERO}, seq : Nat]
        BY <3>1 DEF Uid
      <3>5. field # HEAD => Seen(uid)
        BY <2>0 DEF WalkOK
      <3> QED
        BY <2>0, <2>1, <3>3, <3>4, <3>5, GotNextKeeps
    <2>2. CASE Race
      BY <2>0, <2>2, RaceKeeps
    <2> QED
      BY <1>4, <2>1, <2>2 DEF ReadSeqlock1
  <1>5. CASE Recheck
    <2>0. rpc = "recheck"
      BY <1>5 DEF Recheck
    <2>1. CASE Visit(Uid(address, lock))
      <3>1. Uid(address, lock).addr # ZERO => Seen(Uid(address, lock))
        BY <2>0 DEF WalkOK, Uid
      <3> QED
        BY <2>0, <2>1, <3>1, VisitKeeps
    <2>2. CASE Race
      BY <2>0, <2>2, RaceKeeps
    <2> QED
      BY <1>5, <2>1, <2>2 DEF Recheck
  <1> QED
    BY <1>1, <1>2, <1>3, <1>4, <1>5

\* Reading the entry at hand: a symfile is kept if the seqlock still is what it was before.
LEMMA EntryKeeps ==
    ASSUME IInv, ReadEntry \/ CheckEntry \/ Load \/ CheckLoaded
    PROVE  Quiet /\ ReaderInv'
  <1> USE DEF IInv, ReaderInv
  <1>0. rpc \in {"entry", "check", "load", "loaded"} /\ Seen(uid)
    BY Zenon DEF ReadEntry, CheckEntry, Load, CheckLoaded, WalkOK
  <1>1. ASSUME Quiet, UNCHANGED <<entries_, todo, entries, uid, field, address, lock, address1, result, ok>>,
               rpc' \in {"check", "load", "loaded"},
               rpc' = "loaded" => loaded' = symfile[uid.addr]
        PROVE  ReaderInv'
    <2> USE <1>1 DEF Quiet, runtimeVars, ghostVars
    <2>1. ReaderType' /\ ReadOK'
      BY Zenon DEF ReaderType, ReadOK
    <2>2. WalkOK'
      BY <1>0, Zenon DEF WalkOK, Seen, Settled
    <2>3. CachesOK'
      BY <1>0, Zenon DEF CachesOK, Seen, Settled
    <2>4. ResultOK'
      BY <1>0, Zenon DEF ResultOK, FoundWasLiveIfRead, UidOf
    <2> QED
      BY <2>1, <2>2, <2>3, <2>4
  <1>2. ASSUME NEW new \in SUBSET created, \A x \in new : UidOf(x) = uid,
               entries' = entries \cup new, GotoNext
        PROVE  Quiet /\ ReaderInv'
    <2> USE <1>2 DEF GotoNext, runtimeVars, ghostVars
    <2>1. ReaderType'
      BY <1>0 DEF ReaderType, Seen, Settled, SettledIn, Uids
    <2>2. ReadOK' /\ WalkOK'
      BY <1>0, Zenon DEF ReadOK, WalkOK, Seen, Settled
    <2>3. CachesOK'
      BY <1>0 DEF CachesOK, Seen, Settled
    <2>4. ResultOK'
      BY <1>0, Zenon DEF ResultOK, FoundWasLiveIfRead, UidOf
    <2> QED
      BY <2>1, <2>2, <2>3, <2>4 DEF Quiet
  <1>3. CASE ReadEntry
    BY <1>1, <1>3, Zenon DEF ReadEntry, Walk, readVars, Quiet
  <1>4. CASE CheckEntry
    <2>1. CASE Race
      BY <1>0, <2>1, RaceKeeps
    <2>2. CASE entries' = entries \cup Cached /\ GotoNext
      <3>1. Cached \in SUBSET created /\ \A x \in Cached : UidOf(x) = uid
        BY DEF Cached, CachesOK
      <3> QED
        BY <1>2, <2>2, <3>1
    <2>3. CASE Walk("load") /\ UNCHANGED <<readVars, uid, field, address, lock, address1, loaded>>
      BY <1>1, <2>3, Zenon DEF Walk, readVars, Quiet
    <2> QED
      BY <1>4, <2>1, <2>2, <2>3 DEF CheckEntry
  <1>5. CASE Load
    BY <1>1, <1>5, Zenon DEF Load, Walk, readVars, Quiet
  <1>6. CASE CheckLoaded
    <2>1. CASE Race
      BY <1>0, <2>1, RaceKeeps
    <2>3. CASE entries' = entries /\ GotoNext
      <3>1. {} \in SUBSET created /\ entries' = entries \cup {}
        BY <2>3
      <3> QED
        BY <1>2, <2>3, <3>1
    <2> DEFINE x == [addr |-> uid.addr, seq |-> uid.seq, sym |-> loaded]
    <2>2. CASE CheckSeqlock(uid) /\ entries' = entries \cup {x} /\ GotoNext
      <3>1. rpc = "loaded" /\ CheckSeqlock(uid) /\ entries' = entries \cup {x} /\ GotoNext
        BY <1>6, <2>2 DEF CheckLoaded
      <3>2. loaded = symfile[uid.addr] /\ uid \in Uids
        BY <1>0, <3>1, Zenon DEF WalkOK, Seen, Settled, SettledIn
      <3>3. SeqOf(seqlock[uid.addr]) = uid.seq /\ Even(seqlock[uid.addr]) /\ uid.addr \in Addr
        BY <1>0, <3>1, <3>2, Zenon DEF CheckSeqlock, SeqOf, Seen, Settled, SettledIn, Uids, RuntimeInv, SeqlocksOK,
                                WorkOK, Leaving
      <3>4. x \in created
        BY <3>2, <3>3, Zenon DEF RuntimeInv, SeqlocksOK
      <3>5. UidOf(x) = uid
        BY <3>2 DEF UidOf, Uid, Uids
      <3>6. {x} \in SUBSET created /\ \A y \in {x} : UidOf(y) = uid
        BY <3>4, <3>5
      <3> HIDE DEF x
      <3> QED
        BY <1>2, <3>1, <3>6, Zenon
    <2> QED
      BY <1>6, <2>1, <2>2, <2>3 DEF CheckLoaded
  <1> QED
    BY <1>3, <1>4, <1>5, <1>6

LEMMA Initially == Init => IInv
  <1> SUFFICES ASSUME Init PROVE IInv
    OBVIOUS
  <1> USE ConstantsAssumption DEF Init
  <1>1. ~Even(1)
    BY DEF Even
  <1>2. RuntimeType /\ WorkOK
    BY DEF RuntimeType, Symfiles, WorkOK
  <1>3. SeqlocksOK /\ Observed
    BY <1>1 DEF SeqlocksOK, Observed, Live
  <1>4. ListOK
    <2>1. [a \in Addr |-> 0] \in [Addr -> Nat] /\ Aged([a \in Addr |-> 0])
      BY DEF Aged
    <2> QED
      BY <2>1 DEF ListOK
  <1>5. ReaderType /\ CachesOK /\ ReadOK /\ WalkOK /\ ResultOK
    BY Zenon DEF ReaderType, CachesOK, ReadOK, WalkOK, ResultOK, FoundWasLiveIfRead
  <1> QED
    BY <1>2, <1>3, <1>4, <1>5 DEF IInv, RuntimeInv, ReaderInv

LEMMA Inductive == IInv /\ [Next]_vars => IInv'
  <1> SUFFICES ASSUME IInv, [Next]_vars PROVE IInv'
    OBVIOUS
  <1>1. CASE Runtime
    BY <1>1, RuntimeKeeps, RuntimeKeepsReader DEF IInv
  <1>2. CASE Reader
    <2>1. CASE \E m \in Methods : ForEachSymfile(m)
      BY <2>1, CallKeeps
    <2>2. CASE ~\E m \in Methods : ForEachSymfile(m)
      <3>1. \/ ReadDescriptor \/ (\E x \in todo : CheckCached(x)) \/ ReadAllEntries \/ ReadFails
            \/ ReadAddress0 \/ ReadSeqlock0 \/ ReadAddress1 \/ ReadSeqlock1 \/ Recheck
            \/ ReadEntry \/ CheckEntry \/ Load \/ CheckLoaded
        BY <1>2, <2>2 DEF Reader
      <3>2. Quiet /\ ReaderInv'
        BY <3>1, EarlyKeeps, NextFieldKeeps, EntryKeeps
      <3> QED
        BY <3>2, QuietKeeps DEF IInv
    <2> QED
      BY <2>1, <2>2
  <1>3. CASE UNCHANGED vars
    <2> USE <1>3 DEF vars, runtimeVars, callVars, readVars, walkVars, ghostVars
    <2>1. RuntimeInv'
      BY QuietKeeps DEF Quiet
    <2>2. UNCHANGED readerVars
      BY DEF readerVars
    <2>3. \A a \in Addr : seqlock[a] <= seqlock'[a]
      <3>1. seqlock \in [Addr -> Nat] /\ seqlock' = seqlock
        BY DEF IInv, RuntimeInv, RuntimeType
      <3> HIDE <1>3
      <3> QED
        BY <3>1
    <2>4. Grows
      BY <2>3, Zenon DEF Grows
    <2> QED
      BY <2>1, <2>2, <2>4, RuntimeKeepsReader DEF IInv
  <1> QED
    BY <1>1, <1>2, <1>3 DEF Next, Rest

\* Whatever the runtime does to its list while ReadNewEntries walks it, every cached symfile is the
\* one that was published under the entry's address and seqlock.
THEOREM CacheAlwaysSound == Spec => []CacheSound
  <1>1. IInv => CacheSound
    BY DEF IInv, ReaderInv, CachesOK, CacheSound
  <1> QED
    BY <1>1, Initially, Inductive, PTL DEF Spec

\* Unless ReadAllEntries gave up, the entry ForEachSymfile returns was live at some instant of the call,
\* from the cache or from the list, also if it was deleted and its address reused meanwhile.
THEOREM FoundAlwaysWasLive == Spec => []FoundWasLiveIfRead
  <1>1. IInv => FoundWasLiveIfRead
    BY DEF IInv, ReaderInv, ResultOK
  <1> QED
    BY <1>1, Initially, Inductive, PTL DEF Spec
=============================================================================
