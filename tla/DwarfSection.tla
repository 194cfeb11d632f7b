---------------------------- MODULE DwarfSection ----------------------------
(***************************************************************************)
(* A section of unwind information (DwarfSection.cpp): the index from a pc *)
(* to its FDE, and the caches of rows and of CIEs that Step goes through.  *)
(* The lock of the Elf is held around every Step, so the calls follow each *)
(* other.  A step ends with a row; DwarfEval applies it to the registers.  *)
(***************************************************************************)
EXTENDS DwarfCfa, FiniteSets, TLC

CONSTANTS
    Sections,     \* the sections: [cies, fdes, readable]; the fdes in the order of their offsets,
                  \* each with the index of its CIE; GetNextCieOrFde fails for the one after the first
                  \* readable ones
    MaxPc

Pcs == 0 .. MaxPc

VARIABLES
    section,       \* what is in memory
    fde_index_,    \* <<pc_end, fde offset>>, sorted
    cie_loc_regs_, \* the rules of the CIEs that were run
    loc_regs_,     \* rows by pc_end
    last           \* ghost: the last Step

vars == <<section, fde_index_, cie_loc_regs_, loc_regs_, last>>

NoStep == [pc |-> -1, ok |-> FALSE, row |-> [regs |-> NoRules, pc_start |-> 0, pc_end |-> 0]]

Init ==
    /\ section \in Sections
    /\ fde_index_ = <<>>
    /\ cie_loc_regs_ = [c \in {} |-> NoRules]
    /\ loc_regs_ = [e \in {} |-> NoStep.row]
    /\ last = NoStep

fdes == section.fdes

(* The index.                                                              *)

\* std::sort by (pc_end, fde_offset), and by the pair of an index entry.
ByEnd(a, b) == a.pc_end < b.pc_end \/ (a.pc_end = b.pc_end /\ a.offset < b.offset)
ByPair(a, b) == a[1] < b[1] \/ (a[1] = b[1] /\ a[2] < b[2])

Info(offset) ==
    [pc_start |-> fdes[offset].pc_start, pc_end |-> fdes[offset].pc_end, offset |-> offset]

\* Mutant: the first entry in front of a gap is used, not the one that reaches lowest.
FillFirst(sorted) ==
    LET Backwards(acc, i) ==
            LET prev_pc_end == IF i > 1 THEN sorted[i - 1].pc_end ELSE 0
            IN  [added |-> IF prev_pc_end < sorted[i].pc_start
                              /\ acc.filling.pc_start < sorted[i].pc_start
                           THEN acc.added \o <<[acc.filling EXCEPT !.pc_end = sorted[i].pc_start]>>
                           ELSE acc.added,
                 filling |-> acc.filling]
    IN  FoldLeft(Backwards, [added |-> <<>>, filling |-> Last(sorted)],
                 Reverse([i \in DOMAIN sorted |-> i])).added

\* Entries for the gaps that an overlapping FDE reaches into; from the last one backwards.
Fill(sorted) ==
    LET Backwards(acc, i) ==
            LET prev_pc_end == IF i > 1 THEN sorted[i - 1].pc_end ELSE 0
            IN  [added |-> IF prev_pc_end < sorted[i].pc_start
                              /\ acc.filling.pc_start < sorted[i].pc_start
                           THEN acc.added \o <<[acc.filling EXCEPT !.pc_end = sorted[i].pc_start]>>
                           ELSE acc.added,
                 filling |-> IF sorted[i].pc_start < acc.filling.pc_start THEN sorted[i]
                             ELSE acc.filling]
    IN  FoldLeft(Backwards, [added |-> <<>>, filling |-> Last(sorted)],
                 Reverse([i \in DOMAIN sorted |-> i])).added

BuildFdeIndex ==
    LET valid == SelectSeq([o \in 1 .. section.readable |-> Info(o)], LAMBDA f : f.pc_start < f.pc_end)
        sorted == SortSeq(valid, ByEnd)
        all == IF sorted = <<>> THEN <<>> ELSE sorted \o Fill(sorted)
    IN  SortSeq([i \in DOMAIN all |-> <<all[i].pc_end, all[i].offset>>], ByPair)

\* The offset of the FDE, 0 if there is none.
GetFdeFromPc(index, pc) ==
    LET above == {i \in DOMAIN index : pc < index[i][1]}
        first == CHOOSE i \in above : \A j \in above : i <= j
        offset == index[first][2]
    IN  IF above # {} /\ fdes[offset].pc_start <= pc THEN offset ELSE 0

(* Step.                                                                   *)

NoCie == [known |-> FALSE]

KnownCie(regs) == [known |-> TRUE, regs |-> regs]

\* The run for the FDE, and the rules of its CIE, which are run first unless they are cached.  The
\* CIE's run leaves its rules in loc_regs.
GetCfaLocationInfo(pc, fde) ==
    IF fde.cie \in DOMAIN cie_loc_regs_
    THEN [cies |-> cie_loc_regs_,
          run |-> GetLocationInfo(pc, fde, fde.instructions, KnownCie(cie_loc_regs_[fde.cie]), NoRules, <<>>)]
    ELSE LET first == GetLocationInfo(pc, fde, section.cies[fde.cie], NoCie, NoRules, <<>>)
             cie == KnownCie(first.loc.regs)
         IN  IF ~first.ok THEN [cies |-> cie_loc_regs_, run |-> first]
             ELSE [cies |-> (fde.cie :> cie.regs) @@ cie_loc_regs_,
                   run |-> GetLocationInfo(pc, fde, fde.instructions, cie, cie.regs, first.saved)]

\* loc_regs_.upper_bound(pc): the first key above pc, or none.
Above(pc) == {e \in DOMAIN loc_regs_ : e > pc}
UpperBound(pc) == CHOOSE e \in Above(pc) : \A f \in Above(pc) : e <= f

\* Mutant: the start of the row is not looked at.
CachedAnyStart(pc) == Above(pc) # {}

Cached(pc) == Above(pc) # {} /\ pc >= loc_regs_[UpperBound(pc)].pc_start

StepCached(pc) ==
    /\ Cached(pc)
    /\ last' = [pc |-> pc, ok |-> TRUE, row |-> loc_regs_[UpperBound(pc)]]
    /\ UNCHANGED <<section, fde_index_, cie_loc_regs_, loc_regs_>>

\* loc_regs_.emplace: an entry with the same key is left alone, and is the one that is used.
Emplace(loc) ==
    IF loc.pc_end \in DOMAIN loc_regs_ THEN loc_regs_ ELSE (loc.pc_end :> loc) @@ loc_regs_

\* The row is not cached: find the FDE, and run its instructions.
StepUncached(pc) ==
    LET index == IF fde_index_ = <<>> THEN BuildFdeIndex ELSE fde_index_
        offset == GetFdeFromPc(index, pc)
        info == GetCfaLocationInfo(pc, fdes[offset])
        loc == info.run.loc
        cache == Emplace(loc)
    IN
    /\ ~Cached(pc)
    /\ fde_index_' = index
    /\ IF offset = 0
       THEN last' = [NoStep EXCEPT !.pc = pc] /\ UNCHANGED <<cie_loc_regs_, loc_regs_>>
       ELSE /\ cie_loc_regs_' = info.cies
            /\ IF ~info.run.ok
               THEN last' = [NoStep EXCEPT !.pc = pc] /\ UNCHANGED loc_regs_
               ELSE /\ loc_regs_' = cache
                    /\ last' = [pc |-> pc, ok |-> TRUE, row |-> cache[loc.pc_end]]
    /\ UNCHANGED section

Step(pc) == StepCached(pc) \/ StepUncached(pc)

Next == \E pc \in Pcs : Step(pc)

Spec == Init /\ [][Next]_vars

(* The table as the DWARF standard describes it.                           *)

Covers(offset, pc) ==
    offset <= section.readable /\ fdes[offset].pc_start <= pc /\ pc < fdes[offset].pc_end

State0(regs, pc) ==
    [cur_pc |-> pc, loc |-> [regs |-> regs, pc_start |-> pc, pc_end |-> pc], saved |-> <<>>,
     done |-> FALSE, ok |-> TRUE]

\* The states of one run over all instructions.
Whole(instructions, cie, regs, pc) ==
    LET Run(states, i) ==
            LET s == Last(states) IN Append(states, IF s.ok THEN Execute(s, i, cie) ELSE s)
    IN  FoldLeft(Run, <<State0(regs, pc)>>, instructions)

CieRun(offset) == Last(Whole(section.cies[fdes[offset].cie], NoCie, NoRules, fdes[offset].pc_start))

\* All rows of an FDE.
States(offset) ==
    LET regs == CieRun(offset).loc.regs
    IN  Whole(fdes[offset].instructions, KnownCie(regs), regs, fdes[offset].pc_start)

\* The state the run is in when no further instruction is at a location at or before pc.
Reference(offset, pc) ==
    LET states == States(offset)
        reached == {i \in DOMAIN states : \A j \in 1 .. i : states[j].cur_pc <= pc}
        s == states[CHOOSE i \in reached : \A j \in reached : j <= i]
    IN  IF CieRun(offset).ok /\ s.ok THEN [ok |-> TRUE, regs |-> s.loc.regs] ELSE [ok |-> FALSE]

\* Where the rows of an FDE end.
Ends(offset) ==
    LET states == States(offset)
        locations == {states[i].cur_pc : i \in DOMAIN states} \ {fdes[offset].pc_start}
    IN  locations \cup {fdes[offset].pc_end}

\* No two FDEs have rows that end at one pc, so each row has a key of its own in loc_regs_.  FDEs that
\* do not overlap are such.
EndsApart ==
    \A o, p \in 1 .. section.readable : o # p => Ends(o) \cap Ends(p) = {}

\* No program ends with restore_state, which brings back the start of the row that was remembered.
NoLastRestore ==
    \A o \in DOMAIN fdes : LET p == fdes[o].instructions IN p # <<>> => Last(p).op # "restore_state"

(* Properties.                                                             *)

(* GetFdeFromPc finds an FDE that covers the pc whenever there is one ("it inserts additional     *)
(* entries to ensure that one of the overlapping entries is found", DwarfSection.cpp), among      *)
(* those before the first entry that cannot be read.                                              *)
FdeFound ==
    fde_index_ # <<>> =>
       \A pc \in Pcs : LET offset == GetFdeFromPc(fde_index_, pc)
                       IN  IF offset # 0 THEN Covers(offset, pc)
                           ELSE \A o \in DOMAIN fdes : ~Covers(o, pc)

(* The row Step uses covers the pc ("The range of PCs where the locations are valid",             *)
(* DwarfLocation.h), unless rows of two FDEs that overlap end at one pc: rows are cached by their *)
(* end alone, and emplace keeps the first, which may be used for a pc in front of it.             *)
RowCoversPc ==
    last.ok /\ EndsApart => last.row.pc_start <= last.pc /\ last.pc < last.row.pc_end

(* Whatever was looked up before, Step uses for a pc the rules that an FDE with that pc gives it, *)
(* and fails exactly where they cannot be computed: the caches of rows and of CIEs do not show.   *)
(* Left out are rows of two FDEs that end at one pc, which take each other's place in the cache,  *)
(* and a program that ends with restore_state, whose last row claims the pcs of rows before it.   *)
CachesDoNotShow ==
    last.pc # -1 /\ EndsApart /\ NoLastRestore =>
       LET covering == {o \in DOMAIN fdes : Covers(o, last.pc)}
           result == IF last.ok THEN [ok |-> TRUE, regs |-> last.row.regs] ELSE [ok |-> FALSE]
       IN  IF covering = {} THEN ~last.ok
           ELSE \E o \in covering : result = Reference(o, last.pc)
=============================================================================
