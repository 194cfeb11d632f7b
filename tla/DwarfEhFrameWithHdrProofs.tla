--------------------- MODULE DwarfEhFrameWithHdrProofs ---------------------
(***************************************************************************)
(* Proofs about DwarfEhFrameWithHdr, for every .eh_frame section and every *)
(* table, sorted or not, whichever of its entries can be read and whatever *)
(* FDEs they point to.                                                     *)
(***************************************************************************)
EXTENDS DwarfEhFrameWithHdr, FiniteSetTheorems, TLAPS

TypeOK ==
    /\ table \in Tables /\ unreadable \subseteq DOMAIN table /\ valid \in BOOLEAN
    /\ DOMAIN fde_info_ \subseteq DOMAIN table
    /\ at \in {"idle", "search", "fde", "done"}
    /\ pc \in Nat /\ first \in Nat /\ last \in Nat
    /\ fde \in Fde \cup {NoFde}

Ordered == \A i, j \in DOMAIN table : i < j => table[i].pc <= table[j].pc

\* The search has excluded what is below first and from last on; the entry before first, which may
\* become the answer, begins before the pc even if the table is not in order.
Searched ==
    /\ first <= last /\ last <= fde_count_
    /\ first > 0 => table[first - 1].pc < pc
    /\ Ordered => /\ \A i \in DOMAIN table : i < first => table[i].pc < pc
                  /\ \A i \in DOMAIN table : i >= last => pc < table[i].pc

\* fde is that of an entry at the pc, or of the last entry before it.
Candidate ==
    \E k \in DOMAIN table :
       /\ fde = table[k].fde /\ table[k].pc <= pc
       /\ Ordered => table[k].pc = pc \/ \A i \in DOMAIN table : i > k => pc < table[i].pc

\* The inductive invariant.
IInv ==
    /\ TypeOK
    /\ \A i \in DOMAIN fde_info_ : fde_info_[i] = table[i]
    /\ at = "search" => Searched
    /\ at \in {"idle", "search"} => fde = NoFde
    /\ at = "fde" => Candidate
    /\ FdeExact

\* The entries are numbered from 0, and have a pc and an FDE or none.
LEMMA TableType ==
    ASSUME HdrAssumption, table \in Tables
    PROVE  /\ fde_count_ \in Nat /\ DOMAIN table = 0 .. fde_count_ - 1
           /\ \A i \in DOMAIN table : table[i].pc \in Nat /\ table[i].fde \in Fde \cup {NoFde}
           /\ \A f \in Fde : f.pc_start \in Nat /\ f.pc_end \in Nat /\ f # NoFde
           /\ Fdes \subseteq Fde
           /\ NoFde.pc_start = -1 /\ NoFde.pc_end = -1
  <1>1. Cardinality(DOMAIN table) \in Nat
    BY FS_CardinalityType DEF HdrAssumption
  <1>2. table \in [0 .. Cardinality(DOMAIN table) - 1 -> Entry]
    BY DEF HdrAssumption
  <1>3. NoFde.pc_start = -1 /\ NoFde.pc_end = -1
    BY DEF NoFde
  <1>4. \A f \in Fde : f.pc_start \in Nat /\ f.pc_end \in Nat /\ f # NoFde
    BY <1>3 DEF Fde
  <1>5. \A i \in DOMAIN table : table[i].pc \in Nat /\ table[i].fde \in Fde \cup {NoFde}
    BY <1>2 DEF Entry
  <1> QED
    BY <1>1, <1>2, <1>3, <1>4, <1>5 DEF HdrAssumption, fde_count_

\* What .eh_frame answers is an FDE with the pc in it, and it is NoFde only if there is none.
LEMMA SectionExact ==
    ASSUME HdrAssumption, NEW p \in Nat, NEW f \in InSection(p)
    PROVE  /\ f \in Fde \cup {NoFde}
           /\ f # NoFde => Covers(f, p)
           /\ f = NoFde => \A g \in Fdes : ~Covers(g, p)
  <1>1. \A g \in Fdes : g # NoFde
    BY DEF HdrAssumption, Fde, NoFde
  <1> QED
    BY <1>1 DEF HdrAssumption, InSection

\* The middle of a range that is not empty is one of its entries.
LEMMA Middle ==
    ASSUME NEW a \in Nat, NEW b \in Nat, a < b
    PROVE  LET m == (a + b) \div 2 IN m \in Nat /\ a <= m /\ m < b
  OBVIOUS

\* An entry is read as it is in the table, and cached so.
LEMMA InfoExact ==
    ASSUME HdrAssumption, IInv, NEW i \in DOMAIN table, GetFdeInfoFromIndex(i)
    PROVE  /\ Info(i) = table[i]
           /\ DOMAIN fde_info_' \subseteq DOMAIN table
           /\ \A j \in DOMAIN fde_info_' : fde_info_'[j] = table[j]
           /\ ~HasInfo(i) => unreadable # {}
  <1>1. Info(i) = table[i]
    BY DEF IInv, Info
  <1>2. ~HasInfo(i) => unreadable # {}
    BY DEF HasInfo
  <1>3. DOMAIN fde_info_' = DOMAIN fde_info_ \cup ({i} \ unreadable)
    BY DEF GetFdeInfoFromIndex
  <1>4. \A j \in DOMAIN fde_info_' : fde_info_'[j] = table[j]
    BY <1>1, <1>3 DEF GetFdeInfoFromIndex, IInv
  <1> QED
    BY <1>1, <1>2, <1>3, <1>4 DEF IInv, TypeOK

\* The last check of GetFdeFromPc is right for a candidate of a proper table.
LEMMA CandidateExact ==
    ASSUME HdrAssumption, IInv, Candidate, fde.pc_start # fde.pc_end, pc >= fde.pc_end, TableProper,
           NEW f \in Fdes, Covers(f, pc)
    PROVE  FALSE
  <1> USE DEF Covers
  <1>0. Ordered
    BY DEF TableProper, Ordered
  <1>1. PICK k \in DOMAIN table :
           /\ fde = table[k].fde /\ table[k].pc <= pc
           /\ table[k].pc = pc \/ \A i \in DOMAIN table : i > k => pc < table[i].pc
    BY <1>0 DEF Candidate
  <1>2. PICK i \in DOMAIN table : table[i].fde = f
    BY DEF TableProper
  <1>3. fde \in Fdes /\ table[k].pc = fde.pc_start /\ table[i].pc = f.pc_start
    BY <1>1, <1>2 DEF TableProper
  <1>4. /\ fde.pc_start \in Nat /\ fde.pc_end \in Nat /\ f.pc_start \in Nat /\ f.pc_end \in Nat
        /\ pc \in Nat /\ k \in Int /\ i \in Int
    BY <1>3, TableType DEF IInv, TypeOK
  <1>5. fde.pc_start < fde.pc_end
    BY <1>3, <1>4 DEF TableProper
  <1>6. f # fde
    BY <1>4
  <1>7. f.pc_end <= fde.pc_start \/ fde.pc_end <= f.pc_start
    BY <1>3, <1>4, <1>5, <1>6 DEF TableProper
  <1>8. fde.pc_start < pc
    BY <1>4, <1>5
  <1>9. i < k
    BY <1>1, <1>2, <1>3, <1>4, <1>6, <1>8
  <1>10. f.pc_start <= fde.pc_start
    BY <1>0, <1>3, <1>9 DEF Ordered
  <1> QED
    BY <1>4, <1>5, <1>7, <1>8, <1>10

LEMMA InvInit == ASSUME HdrAssumption PROVE Init => IInv
  BY DEF Init, IInv, TypeOK, FdeExact

LEMMA GetFdeFromPcInv ==
    ASSUME HdrAssumption, IInv, NEW p \in Pcs, GetFdeFromPc(p)
    PROVE  IInv'
  <1> USE DEF GetFdeFromPc, IInv, TypeOK
  <1>0. p \in Nat /\ fde_count_ \in Nat /\ DOMAIN table = 0 .. fde_count_ - 1
    BY TableType DEF HdrAssumption
  <1>1. CASE with_hdr
    <2>1. Searched'
      BY <1>0, <1>1 DEF Searched, fde_count_
    <2> QED
      BY <1>0, <1>1, <2>1 DEF FdeExact
  <1>2. CASE ~with_hdr
    <2>1. fde' \in Fde \cup {NoFde}
      BY <1>0, <1>2, SectionExact
    <2>2. FdeExact'
      BY <1>0, <1>2, SectionExact DEF FdeExact, Covers, TableProper, PcsAgree
    <2> QED
      BY <1>0, <1>2, <2>1, <2>2
  <1> QED
    BY <1>1, <1>2

LEMMA SearchInv ==
    ASSUME HdrAssumption, IInv, Search
    PROVE  IInv'
  <1> DEFINE current == (first + last) \div 2
  <1>0. /\ first \in Nat /\ last \in Nat /\ pc \in Nat /\ first < last /\ Searched /\ fde = NoFde
        /\ fde_count_ \in Nat /\ DOMAIN table = 0 .. fde_count_ - 1
        /\ \A i \in DOMAIN table : table[i].pc \in Nat
    BY TableType DEF Search, IInv, TypeOK
  <1>1. current \in DOMAIN table /\ first <= current /\ current < last
    BY <1>0, Middle DEF Searched
  <1> HIDE DEF current
  <1>2. /\ Info(current) = table[current]
        /\ DOMAIN fde_info_' \subseteq DOMAIN table
        /\ \A j \in DOMAIN fde_info_' : fde_info_'[j] = table[j]
        /\ ~HasInfo(current) => unreadable # {}
    BY <1>1, InfoExact DEF Search, current
  <1>3. UNCHANGED <<table, unreadable, valid, pc>>
    BY DEF Search
  <1>4. CASE ~HasInfo(current)
    <2>1. at' = "done" /\ UNCHANGED <<first, last, fde>> /\ unreadable # {}
      BY <1>2, <1>4 DEF Search, current
    <2> QED
      BY <1>0, <1>2, <1>3, <2>1 DEF IInv, TypeOK, FdeExact
  <1>5. CASE HasInfo(current) /\ pc = Info(current).pc /\ at' = "fde" /\ fde' = Info(current).fde
               /\ UNCHANGED <<first, last>>
    <2>1. Candidate'
      BY <1>0, <1>1, <1>2, <1>3, <1>5 DEF Candidate
    <2>2. fde' \in Fde \cup {NoFde}
      BY <1>1, <1>2, <1>5, TableType DEF IInv, TypeOK
    <2> QED
      BY <1>0, <1>2, <1>3, <1>5, <2>1, <2>2 DEF IInv, TypeOK, FdeExact
  <1>6. CASE HasInfo(current) /\ pc < Info(current).pc /\ last' = current
               /\ UNCHANGED <<at, first, fde>>
    <2>1. Ordered' = Ordered /\ fde_count_' = fde_count_
      BY <1>3 DEF Ordered, fde_count_
    <2>2. ASSUME Ordered, NEW i \in DOMAIN table, i >= current PROVE pc < table[i].pc
      <3>1. table[current].pc <= table[i].pc
        BY <1>0, <1>1, <2>2 DEF Ordered
      <3> QED
        BY <1>0, <1>1, <1>2, <1>6, <3>1
    <2>3. Searched'
      BY <1>0, <1>1, <1>3, <1>6, <2>1, <2>2 DEF Searched
    <2> QED
      BY <1>0, <1>1, <1>2, <1>3, <1>6, <2>3 DEF IInv, TypeOK, FdeExact, Search
  <1>7. CASE HasInfo(current) /\ pc > Info(current).pc /\ first' = current + 1
               /\ UNCHANGED <<at, last, fde>>
    <2>1. Ordered' = Ordered /\ fde_count_' = fde_count_
      BY <1>3 DEF Ordered, fde_count_
    <2>2. ASSUME Ordered, NEW i \in DOMAIN table, i < current + 1 PROVE table[i].pc < pc
      <3>1. table[i].pc <= table[current].pc
        BY <1>0, <1>1, <2>2 DEF Ordered
      <3> QED
        BY <1>0, <1>1, <1>2, <1>7, <3>1
    <2>3. Searched'
      BY <1>0, <1>1, <1>2, <1>3, <1>7, <2>1, <2>2 DEF Searched
    <2> QED
      BY <1>0, <1>1, <1>2, <1>3, <1>7, <2>3 DEF IInv, TypeOK, FdeExact, Search
  <1> QED
    BY <1>4, <1>5, <1>6, <1>7 DEF Search, current

LEMMA TakeLastInv ==
    ASSUME HdrAssumption, IInv, TakeLast
    PROVE  IInv'
  <1>0. /\ first \in Nat /\ last \in Nat /\ pc \in Nat /\ first = last /\ Searched /\ fde = NoFde
        /\ fde_count_ \in Nat /\ DOMAIN table = 0 .. fde_count_ - 1
        /\ \A i \in DOMAIN table : table[i].pc \in Nat
    BY TableType DEF TakeLast, IInv, TypeOK, Searched
  <1>1. UNCHANGED <<table, unreadable, valid, pc, first, last>>
    BY DEF TakeLast
  <1>2. CASE last = 0
    <2>1. at' = "done" /\ UNCHANGED <<fde_info_, fde>>
      BY <1>2 DEF TakeLast
    <2>2. ASSUME TableProper, NEW f \in Fdes PROVE ~Covers(f, pc)
      <3>1. PICK i \in DOMAIN table : table[i].fde = f /\ table[i].pc = f.pc_start
        BY <2>2 DEF TableProper
      <3>2. pc < table[i].pc
        BY <1>0, <1>2, <2>2 DEF Searched, TableProper, Ordered
      <3> QED
        BY <1>0, <2>2, <3>1, <3>2 DEF Covers
    <2>3. TableProper' = TableProper
      BY <1>1 DEF TableProper
    <2> QED
      BY <1>0, <1>1, <2>1, <2>2, <2>3 DEF IInv, TypeOK, FdeExact
  <1>3. CASE last # 0
    <2>1. last - 1 \in DOMAIN table
      BY <1>0, <1>3 DEF Searched
    <2>2. /\ Info(last - 1) = table[last - 1]
          /\ DOMAIN fde_info_' \subseteq DOMAIN table
          /\ \A j \in DOMAIN fde_info_' : fde_info_'[j] = table[j]
          /\ ~HasInfo(last - 1) => unreadable # {}
      BY <1>3, <2>1, InfoExact DEF TakeLast
    <2>3. CASE HasInfo(last - 1)
      <3>1. at' = "fde" /\ fde' = table[last - 1].fde
        BY <1>3, <2>2, <2>3 DEF TakeLast
      <3>2. table[last - 1].pc < pc
        BY <1>0, <1>3 DEF Searched
      <3>3. Ordered => \A i \in DOMAIN table : i > last - 1 => pc < table[i].pc
        BY <1>0 DEF Searched
      <3>4. Ordered' = Ordered
        BY <1>1 DEF Ordered
      <3>5. Candidate'
        BY <1>0, <1>1, <2>1, <2>2, <3>1, <3>2, <3>3, <3>4 DEF Candidate
      <3>6. fde' \in Fde \cup {NoFde}
        BY <2>1, <3>1, TableType DEF IInv, TypeOK
      <3> QED
        BY <1>0, <1>1, <2>2, <3>1, <3>5, <3>6 DEF IInv, TypeOK, FdeExact
    <2>4. CASE ~HasInfo(last - 1)
      BY <1>0, <1>1, <1>3, <2>2, <2>4 DEF TakeLast, IInv, TypeOK, FdeExact
    <2> QED
      BY <2>3, <2>4
  <1> QED
    BY <1>2, <1>3

LEMMA CheckFdeInv ==
    ASSUME HdrAssumption, IInv, CheckFde
    PROVE  IInv'
  <1>0. /\ Candidate /\ pc \in Nat /\ at' = "done" /\ fde \in Fde \cup {NoFde}
        /\ fde.pc_start \in Int /\ fde.pc_end \in Int
        /\ UNCHANGED <<table, unreadable, valid, fde_info_, pc, first, last>>
    BY TableType DEF CheckFde, IInv, TypeOK
  <1>1. TableProper' = TableProper /\ PcsAgree' = PcsAgree
    BY <1>0 DEF TableProper, PcsAgree
  <1>2. CASE fde = NoFde
    <2>1. fde' = NoFde /\ ~TableProper
      <3>1. fde' = NoFde
        BY <1>2 DEF CheckFde
      <3>2. PICK k \in DOMAIN table : fde = table[k].fde
        BY <1>0 DEF Candidate
      <3>3. fde \notin Fdes
        BY <1>2, TableType DEF IInv, TypeOK
      <3> QED
        BY <3>1, <3>2, <3>3 DEF TableProper
    <2> QED
      BY <1>0, <1>1, <2>1 DEF IInv, TypeOK, FdeExact
  <1>3. CASE fde # NoFde /\ fde.pc_start = fde.pc_end
    <2>1. fde' \in InSection(pc)
      BY <1>3 DEF CheckFde
    <2>2. fde' \in Fde \cup {NoFde} /\ FdeExact'
      BY <1>0, <2>1, SectionExact DEF FdeExact, Covers
    <2> QED
      BY <1>0, <2>2 DEF IInv, TypeOK
  <1>4. CASE fde # NoFde /\ fde.pc_start # fde.pc_end /\ pc < fde.pc_end
    <2>1. fde' = fde
      BY <1>4 DEF CheckFde
    <2>2. PcsAgree => fde.pc_start <= pc
      <3>1. PICK k \in DOMAIN table : fde = table[k].fde /\ table[k].pc <= pc
        BY <1>0 DEF Candidate
      <3>2. table[k].pc \in Nat
        BY TableType DEF IInv, TypeOK
      <3> QED
        BY <1>0, <3>1, <3>2 DEF PcsAgree
    <2> QED
      BY <1>0, <1>1, <1>4, <2>1, <2>2 DEF IInv, TypeOK, FdeExact, Covers
  <1>5. CASE fde # NoFde /\ fde.pc_start # fde.pc_end /\ pc >= fde.pc_end
    <2>1. fde' = NoFde
      BY <1>0, <1>5 DEF CheckFde
    <2>2. TableProper => \A f \in Fdes : ~Covers(f, pc)
      BY <1>0, <1>5, CandidateExact
    <2> QED
      BY <1>0, <1>1, <2>1, <2>2 DEF IInv, TypeOK, FdeExact, Covers
  <1> QED
    BY <1>0, <1>2, <1>3, <1>4, <1>5

LEMMA InvStep == ASSUME HdrAssumption PROVE IInv /\ [Next]_vars => IInv'
  <1> SUFFICES ASSUME IInv, [Next]_vars PROVE IInv'
    OBVIOUS
  <1>1. CASE \E p \in Pcs : GetFdeFromPc(p)
    BY <1>1, GetFdeFromPcInv
  <1>2. CASE Search
    BY <1>2, SearchInv
  <1>3. CASE TakeLast
    BY <1>3, TakeLastInv
  <1>4. CASE CheckFde
    BY <1>4, CheckFdeInv
  <1>5. CASE Return
    BY <1>5 DEF Return, IInv, TypeOK, FdeExact
  <1>6. CASE UNCHANGED vars
    BY <1>6 DEF vars, IInv, TypeOK, Searched, Candidate, Ordered, fde_count_, FdeExact, TableProper, PcsAgree,
                 Covers
  <1> QED
    BY <1>1, <1>2, <1>3, <1>4, <1>5, <1>6 DEF Next

(* What DwarfEhFrameWithHdr::GetFdeFromPc returns has the pc in it if no FDE starts after the pc of *)
(* its entry, and ends after the pc in any case; it finds an FDE if there is one and the table is   *)
(* proper.  For every table of any entries, whatever earlier searches have cached.                  *)
THEOREM FdeAlwaysExact == ASSUME HdrAssumption PROVE Spec => []FdeExact
  <1>1. IInv => FdeExact
    BY DEF IInv
  <1> QED
    BY <1>1, InvInit, InvStep, PTL DEF Spec
====
