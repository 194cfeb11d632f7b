----------------------- MODULE ElfInterfaceArmProofs -----------------------
(***************************************************************************)
(* Proofs about the search of ElfInterfaceArm, for every .ARM.exidx table, *)
(* sorted or not, and whatever the unwind instructions say.                *)
(***************************************************************************)
EXTENDS ArmExidx, FiniteSetTheorems, TLAPS

TypeOK ==
    /\ index \in Indexes /\ unreadable \subseteq DOMAIN index
    /\ DOMAIN addrs_ = DOMAIN index
    /\ \A i \in DOMAIN index : addrs_[i] \in {0, index[i]}
    /\ pc \in Nat /\ first \in Nat /\ last \in Nat

InOrder == \A i, j \in DOMAIN index : i < j => index[i] < index[j]

\* The search has excluded what is below first and from last on; the entry before first, which may
\* become the answer, begins before the pc even if the table is not in order.
Searched ==
    /\ first <= last /\ last <= total_entries_
    /\ first > 0 => index[first - 1] < pc
    /\ InOrder => /\ \A i \in DOMAIN index : i < first => index[i] < pc
                  /\ \A i \in DOMAIN index : i >= last => pc < index[i]

\* The entry is the one to use.
Right ==
    /\ entry \in DOMAIN index /\ index[entry] <= pc
    /\ InOrder => \A i \in DOMAIN index : i > entry => pc < index[i]

\* The inductive invariant: the entry stays right while its instructions are executed.
IInv ==
    /\ TypeOK
    /\ at = "search" => Searched
    /\ at \in {"idle", "search"} => entry = None
    /\ at \in {"entry", "decode", "evaluated", "stepped"} => entry # None
    /\ at \in {"idle", "search", "entry", "decode", "evaluated", "stepped", "failed"}
    /\ entry # None => Right
    /\ EntryExact

\* The entries are numbered from 0, and their addresses are numbers.
LEMMA IndexType ==
    ASSUME ExidxAssumption, index \in Indexes
    PROVE  /\ total_entries_ \in Nat /\ DOMAIN index = 0 .. total_entries_ - 1
           /\ \A i \in DOMAIN index : i \in Nat /\ index[i] \in Nat
  <1>1. Cardinality(DOMAIN index) \in Nat
    BY FS_CardinalityType DEF ExidxAssumption
  <1>2. index \in [0 .. Cardinality(DOMAIN index) - 1 -> Nat]
    BY DEF ExidxAssumption
  <1> QED
    BY <1>1, <1>2 DEF total_entries_

\* The middle of a range that is not empty is one of its entries.
LEMMA Middle ==
    ASSUME NEW a \in Nat, NEW b \in Nat, a < b
    PROVE  LET m == (a + b) \div 2 IN m \in Nat /\ a <= m /\ m < b
  OBVIOUS

LEMMA InvInit == ASSUME ExidxAssumption PROVE Init => IInv
  BY IndexType DEF Init, SearchInit, IInv, TypeOK, EntryExact

LEMMA StepExidxInv ==
    ASSUME ExidxAssumption, IInv, NEW p \in Pcs, StepExidx(p)
    PROVE  IInv'
  <1>0. /\ p \in Nat /\ load_bias_ \in Nat /\ total_entries_ \in Nat
        /\ DOMAIN index = 0 .. total_entries_ - 1 /\ entry = None
        /\ UNCHANGED <<index, unreadable, addrs_, entry>>
    BY IndexType DEF ExidxAssumption, IInv, TypeOK, StepExidx
  <1>1. CASE p < load_bias_ \/ total_entries_ = 0
    <2>1. at' = "failed" /\ pc' = p /\ UNCHANGED <<first, last>>
      BY <1>1 DEF StepExidx
    <2>2. EntryExact'
      BY <1>0, <1>1, <2>1 DEF EntryExact
    <2> QED
      BY <1>0, <2>1, <2>2 DEF IInv, TypeOK
  <1>2. CASE ~(p < load_bias_ \/ total_entries_ = 0)
    <2>1. at' = "search" /\ pc' = p - load_bias_ /\ first' = 0 /\ last' = total_entries_
      BY <1>2 DEF StepExidx
    <2>2. pc' \in Nat
      BY <1>0, <1>2, <2>1
    <2>3. Searched'
      BY <1>0, <2>1 DEF Searched, total_entries_
    <2>4. EntryExact'
      BY <1>0, <2>1 DEF EntryExact
    <2> QED
      BY <1>0, <2>1, <2>2, <2>3, <2>4 DEF IInv, TypeOK
  <1> QED
    BY <1>1, <1>2

LEMMA FindEntryInv ==
    ASSUME ExidxAssumption, IInv, FindEntry
    PROVE  IInv'
  <1> DEFINE current == (first + last) \div 2
             addr == IF addrs_[current] = 0 THEN index[current] ELSE addrs_[current]
  <1>0. /\ first \in Nat /\ last \in Nat /\ pc \in Nat /\ first < last /\ Searched /\ entry = None
        /\ total_entries_ \in Nat /\ DOMAIN index = 0 .. total_entries_ - 1
        /\ \A i \in DOMAIN index : index[i] \in Nat
        /\ UNCHANGED <<index, unreadable, pc>> /\ at = "search"
    BY IndexType DEF FindEntry, IInv, TypeOK
  <1>1. current \in DOMAIN index /\ current \in Nat /\ first <= current /\ current < last
    BY <1>0, Middle DEF Searched
  <1>2. addr = index[current]
    BY <1>1 DEF IInv, TypeOK
  <1>3. InOrder' = InOrder /\ total_entries_' = total_entries_
    BY <1>0 DEF InOrder, total_entries_
  <1>4. CASE addrs_[current] = 0 /\ current \in unreadable
    <2>1. at' = "failed" /\ UNCHANGED <<addrs_, first, last, entry>>
      BY <1>4 DEF FindEntry
    <2> QED
      BY <1>0, <1>4, <2>1 DEF IInv, TypeOK, EntryExact
  <1>5. CASE ~(addrs_[current] = 0 /\ current \in unreadable)
    <2>1. addrs_' = [addrs_ EXCEPT ![current] = addr]
      BY <1>5 DEF FindEntry
    <2>2. \/ pc = addr /\ at' = "entry" /\ entry' = current /\ UNCHANGED <<first, last>>
          \/ pc < addr /\ last' = current /\ UNCHANGED <<at, first, entry>>
          \/ pc > addr /\ first' = current + 1 /\ UNCHANGED <<at, last, entry>>
      BY <1>5 DEF FindEntry
    <2> HIDE DEF current, addr
    <2>3. DOMAIN addrs_' = DOMAIN index' /\ \A i \in DOMAIN index' : addrs_'[i] \in {0, index'[i]}
      BY <1>0, <1>1, <1>2, <2>1 DEF IInv, TypeOK
    <2>4. CASE pc = addr /\ at' = "entry" /\ entry' = current /\ UNCHANGED <<first, last>>
      <3>1. Right'
        BY <1>0, <1>1, <1>2, <2>4 DEF Right, InOrder
      <3>2. entry' # None
        BY <1>1, <2>4 DEF None
      <3>3. EntryExact'
        BY <3>1, <3>2, <2>4 DEF EntryExact, Right, InOrder
      <3> QED
        BY <1>0, <2>3, <2>4, <3>1, <3>2, <3>3 DEF IInv, TypeOK
    <2>5. CASE pc < addr /\ last' = current /\ UNCHANGED <<at, first, entry>>
      <3>1. ASSUME InOrder, NEW i \in DOMAIN index, i >= current PROVE pc < index[i]
        <4>1. index[current] <= index[i]
          BY <1>0, <1>1, <3>1 DEF InOrder
        <4> QED
          BY <1>0, <1>1, <1>2, <2>5, <4>1
      <3>2. Searched'
        BY <1>0, <1>1, <1>3, <2>5, <3>1 DEF Searched
      <3> QED
        BY <1>0, <1>1, <2>3, <2>5, <3>2 DEF IInv, TypeOK, EntryExact
    <2>6. CASE pc > addr /\ first' = current + 1 /\ UNCHANGED <<at, last, entry>>
      <3>1. ASSUME InOrder, NEW i \in DOMAIN index, i < current + 1 PROVE index[i] < pc
        <4>1. index[i] <= index[current]
          BY <1>0, <1>1, <3>1 DEF InOrder
        <4> QED
          BY <1>0, <1>1, <1>2, <2>6, <4>1
      <3>2. Searched'
        BY <1>0, <1>1, <1>2, <1>3, <2>6, <3>1 DEF Searched
      <3> QED
        BY <1>0, <1>1, <2>3, <2>6, <3>2 DEF IInv, TypeOK, EntryExact
    <2> QED
      BY <2>2, <2>4, <2>5, <2>6
  <1> QED
    BY <1>4, <1>5

LEMMA EntryBeforeInv ==
    ASSUME ExidxAssumption, IInv, EntryBefore
    PROVE  IInv'
  <1>0. /\ last \in Nat /\ pc \in Nat /\ first = last /\ Searched /\ entry = None
        /\ total_entries_ \in Nat /\ DOMAIN index = 0 .. total_entries_ - 1
        /\ \A i \in DOMAIN index : i \in Nat /\ index[i] \in Nat
        /\ UNCHANGED <<index, unreadable, addrs_, pc, first, last>>
    BY IndexType DEF EntryBefore, IInv, TypeOK, Searched
  <1>1. CASE last # 0
    <2>1. at' = "entry" /\ entry' = last - 1
      BY <1>1 DEF EntryBefore
    <2>2. Right'
      BY <1>0, <1>1, <2>1 DEF Right, Searched, InOrder
    <2>3. entry' # None
      BY <1>0, <1>1, <2>1 DEF None
    <2>4. EntryExact'
      BY <2>1, <2>2, <2>3 DEF EntryExact, Right, InOrder
    <2> QED
      BY <1>0, <2>1, <2>2, <2>3, <2>4 DEF IInv, TypeOK
  <1>2. CASE last = 0
    <2>1. at' = "failed" /\ UNCHANGED entry
      BY <1>2 DEF EntryBefore
    <2>2. EntryExact'
      BY <1>0, <1>2, <2>1 DEF EntryExact, Searched, InOrder
    <2> QED
      BY <1>0, <2>1, <2>2 DEF IInv, TypeOK
  <1> QED
    BY <1>1, <1>2

\* An instruction ends the evaluation or goes on with it.
LEMMA DecodeEnds ==
    ASSUME Decode
    PROVE  at' \in {"decode", "evaluated"} /\ at = "decode"
  BY DEF Decode, Truncated, AddVsp, PopMask, SetVsp, PopR4, Finish, PopR0, AddVspUleb, SkipRegisters,
         Spare, Goes, Ends, Pop

\* What executes the instructions of an entry does not touch the search.
LEMMA EvaluationInv ==
    ASSUME IInv, UNCHANGED <<index, unreadable, addrs_, pc, first, last, entry>>,
           at \in {"entry", "decode", "evaluated"}, at' \in {"decode", "evaluated", "stepped", "failed"}
    PROVE  IInv'
  <1>1. entry' # None /\ Right'
    BY DEF IInv, Right, InOrder
  <1>2. EntryExact'
    BY <1>1 DEF EntryExact, Right
  <1> QED
    BY <1>1, <1>2 DEF IInv, TypeOK

LEMMA InvStep == ASSUME ExidxAssumption PROVE IInv /\ [Next]_vars => IInv'
  <1> SUFFICES ASSUME IInv, [Next]_vars PROVE IInv'
    OBVIOUS
  <1>1. CASE \E p \in Pcs : StepExidx(p)
    BY <1>1, StepExidxInv
  <1>2. CASE FindEntry
    BY <1>2, FindEntryInv
  <1>3. CASE EntryBefore
    BY <1>3, EntryBeforeInv
  <1>4. CASE ExtractEntryData
    BY <1>4, EvaluationInv DEF ExtractEntryData
  <1>5. CASE Decode
    BY <1>5, DecodeEnds, EvaluationInv DEF Decode
  <1>6. CASE Evaluated
    BY <1>6, EvaluationInv DEF Evaluated
  <1>7. CASE Again
    BY <1>7 DEF Again, IInv, TypeOK, EntryExact
  <1>8. CASE UNCHANGED vars
    BY <1>8 DEF vars, searchVars, IInv, TypeOK, Searched, Right, InOrder, total_entries_, EntryExact
  <1> QED
    BY <1>1, <1>2, <1>3, <1>4, <1>5, <1>6, <1>7, <1>8 DEF Next

(* ElfInterfaceArm::FindEntry finds the last entry that begins at or before the pc, and an entry   *)
(* that begins after it never, for every table and whatever earlier searches have cached.          *)
THEOREM EntryAlwaysExact == ASSUME ExidxAssumption PROVE Spec => []EntryExact
  <1>1. IInv => EntryExact
    BY DEF IInv
  <1> QED
    BY <1>1, InvInit, InvStep, PTL DEF Spec
====
