------------------------ MODULE DwarfEhFrameWithHdr ------------------------
(***************************************************************************)
(* DwarfEhFrameWithHdr (DwarfEhFrameWithHdr.cpp): the FDE of a pc by a     *)
(* binary search of the table in .eh_frame_hdr, and the choice between it  *)
(* and a plain .eh_frame section (ElfInterfaceImpl::InitHeaders).          *)
(*                                                                         *)
(* The entries that were read are cached.  The pc of an entry and the pcs  *)
(* of the FDE it points to are read from two sections, and each converted  *)
(* with the bias of its own.  The FDE may have the length zero; one is     *)
(* then looked up in .eh_frame.  One action is one iteration of the        *)
(* search; the caller holds Elf::lock_.                                    *)
(***************************************************************************)
EXTENDS Integers, FiniteSets

CONSTANTS
    Fdes,      \* .eh_frame: [pc_start, pc_end] of every FDE
    Tables,    \* functions from 0 .. n - 1 to entries [pc, fde]; NoFde is not to be read
    Pcs

Fde == [pc_start : Nat, pc_end : Nat]
NoFde == [pc_start |-> -1, pc_end |-> -1]
Entry == [pc : Nat, fde : Fde \cup {NoFde}]

\* What is assumed of the constants.
HdrAssumption ==
    /\ Fdes \subseteq Fde /\ Pcs \subseteq Nat
    /\ \A t \in Tables : IsFiniteSet(DOMAIN t) /\ t \in [0 .. Cardinality(DOMAIN t) - 1 -> Entry]

VARIABLES
    table,             \* the entries, each with what GetFdeFromOffset reads at its offset
    unreadable,        \* the entries ReadEncodedValue cannot read
    valid,             \* Init can use the table: its version, encoding and count
    fde_info_,         \* index -> entry
    at,                \* where GetFdeFromPc is
    pc, first, last,
    fde                \* the answer, or NoFde

vars == <<table, unreadable, valid, fde_info_, at, pc, first, last, fde>>

fde_count_ == Cardinality(DOMAIN table)

\* with_hdr is DwarfEhFrameWithHdr::Init; without it eh_frame_ is a DwarfEhFrame.
with_hdr == valid /\ fde_count_ # 0

Init ==
    /\ table \in Tables
    /\ unreadable \in SUBSET DOMAIN table
    /\ valid \in BOOLEAN
    /\ fde_info_ = << >>
    /\ at = "idle" /\ pc = 0 /\ first = 0 /\ last = 0 /\ fde = NoFde

Covers(f, p) == f.pc_start <= p /\ p < f.pc_end

\* DwarfSectionImpl::GetFdeFromPc: an FDE with the pc in it, if there is one.
InSection(p) == IF \E f \in Fdes : Covers(f, p) THEN {f \in Fdes : Covers(f, p)} ELSE {NoFde}

GetFdeFromPc(p) ==
    /\ at = "idle"
    /\ pc' = p
    /\ IF with_hdr
       THEN at' = "search" /\ first' = 0 /\ last' = fde_count_ /\ UNCHANGED fde
       ELSE at' = "done" /\ fde' \in InSection(p) /\ UNCHANGED <<first, last>>
    /\ UNCHANGED <<table, unreadable, valid, fde_info_>>

\* GetFdeInfoFromIndex: the entry is cached, or read and cached.
HasInfo(index) == index \in DOMAIN fde_info_ \/ index \notin unreadable
Info(index) == IF index \in DOMAIN fde_info_ THEN fde_info_[index] ELSE table[index]
GetFdeInfoFromIndex(index) ==
    fde_info_' = [i \in DOMAIN fde_info_ \cup ({index} \ unreadable) |->
                     IF i = index THEN Info(index) ELSE fde_info_[i]]

\* Mutant: the range is not halved below.
SearchNoStep ==
    LET current == (first + last) \div 2
    IN
    /\ at = "search" /\ first < last
    /\ GetFdeInfoFromIndex(current)
    /\ IF ~HasInfo(current) THEN at' = "done" /\ UNCHANGED <<first, last, fde>>
       ELSE \/ /\ pc = Info(current).pc
               /\ at' = "fde" /\ fde' = Info(current).fde
               /\ UNCHANGED <<first, last>>
            \/ pc < Info(current).pc /\ last' = current /\ UNCHANGED <<at, first, fde>>
            \/ pc > Info(current).pc /\ first' = current /\ UNCHANGED <<at, last, fde>>
    /\ UNCHANGED <<table, unreadable, valid, pc>>

\* One iteration of GetFdeOffsetFromPc.
Search ==
    LET current == (first + last) \div 2
    IN
    /\ at = "search" /\ first < last
    /\ GetFdeInfoFromIndex(current)
    /\ IF ~HasInfo(current) THEN at' = "done" /\ UNCHANGED <<first, last, fde>>
       ELSE \/ /\ pc = Info(current).pc
               /\ at' = "fde" /\ fde' = Info(current).fde
               /\ UNCHANGED <<first, last>>
            \/ pc < Info(current).pc /\ last' = current /\ UNCHANGED <<at, first, fde>>
            \/ pc > Info(current).pc /\ first' = current + 1 /\ UNCHANGED <<at, last, fde>>
    /\ UNCHANGED <<table, unreadable, valid, pc>>

\* Its end: no entry begins at the pc, the one before it may still cover it.
TakeLast ==
    /\ at = "search" /\ first >= last
    /\ IF last = 0 THEN at' = "done" /\ UNCHANGED <<fde_info_, fde>>
       ELSE /\ GetFdeInfoFromIndex(last - 1)
            /\ IF HasInfo(last - 1) THEN at' = "fde" /\ fde' = Info(last - 1).fde
               ELSE at' = "done" /\ UNCHANGED fde
    /\ UNCHANGED <<table, unreadable, valid, pc, first, last>>

\* Mutant: an FDE of length zero is the answer "none".
CheckFdeEmpty ==
    /\ at = "fde"
    /\ at' = "done"
    /\ fde' = IF pc < fde.pc_end THEN fde ELSE NoFde
    /\ UNCHANGED <<table, unreadable, valid, fde_info_, pc, first, last>>

\* The end of GetFdeFromPc, with GetFdeFromOffset.
CheckFde ==
    /\ at = "fde"
    /\ at' = "done"
    /\ IF fde # NoFde /\ fde.pc_start = fde.pc_end THEN fde' \in InSection(pc)
       ELSE fde' = IF pc < fde.pc_end THEN fde ELSE NoFde
    /\ UNCHANGED <<table, unreadable, valid, fde_info_, pc, first, last>>

Return ==
    /\ at = "done"
    /\ at' = "idle" /\ pc' = 0 /\ first' = 0 /\ last' = 0 /\ fde' = NoFde
    /\ UNCHANGED <<table, unreadable, valid, fde_info_>>

Next ==
    \/ \E p \in Pcs : GetFdeFromPc(p)
    \/ Search \/ TakeLast \/ CheckFde \/ Return

Spec == Init /\ [][Next]_vars

(* Properties.                                                             *)

\* The table has every FDE with its pc and nothing else, in the order of the pcs; FDEs that are not
\* empty do not overlap.
TableProper ==
    /\ \A i \in DOMAIN table : table[i].fde \in Fdes /\ table[i].pc = table[i].fde.pc_start
    /\ \A f \in Fdes : f.pc_start <= f.pc_end /\ \E i \in DOMAIN table : table[i].fde = f
    /\ \A i, j \in DOMAIN table : i < j => table[i].pc <= table[j].pc
    /\ \A f, g \in Fdes : f = g \/ f.pc_end <= g.pc_start \/ g.pc_end <= f.pc_start
                            \/ f.pc_start = f.pc_end \/ g.pc_start = g.pc_end

\* The FDE of an entry does not start after the pc of the entry.
PcsAgree == \A i \in DOMAIN table : table[i].fde.pc_start <= table[i].pc

(* The FDE that is returned does not end before the pc, and has the pc in it if the entries of    *)
(* the table agree with their FDEs, in whatever order they are: "Guaranteed pc >= pc_start"       *)
(* (DwarfEhFrameWithHdr.cpp) rests on that, the code compares the pc with the entry's only.  And  *)
(* a pc that an FDE covers gets one, with the header or without it, at the first and the last     *)
(* entry, whichever entries are cached, and although an FDE of length zero comes between.         *)
FdeExact ==
    at = "done" =>
       /\ fde # NoFde => pc < fde.pc_end /\ (PcsAgree => Covers(fde, pc))
       /\ (fde = NoFde /\ TableProper /\ unreadable = {}) => \A f \in Fdes : ~Covers(f, pc)
====
