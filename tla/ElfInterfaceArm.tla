-------------------------- MODULE ElfInterfaceArm --------------------------
(***************************************************************************)
(* ElfInterfaceArm::StepExidx up to the entry to use: the binary search of *)
(* the .ARM.exidx table (FindEntry), whose addresses are cached as they    *)
(* are read.  What the entry says is done in ArmExidx.  One action is one  *)
(* iteration; the caller holds Elf::lock_.                                 *)
(***************************************************************************)
EXTENDS Integers, FiniteSets

CONSTANTS
    Indexes,      \* exidx tables: functions from 0 .. n - 1 to addresses; one without entries stands also
                  \* for a start_offset_ of 0
    Pcs,          \* pcs to step from
    load_bias_

\* What is assumed of the constants.
ExidxAssumption ==
    /\ Pcs \subseteq Nat /\ load_bias_ \in Nat
    /\ \A t \in Indexes : IsFiniteSet(DOMAIN t) /\ t \in [0 .. Cardinality(DOMAIN t) - 1 -> Nat]

VARIABLES
    index,        \* what GetPrel31Addr reads from the table
    unreadable,   \* the entries it cannot read
    addrs_,       \* 0: not read yet
    at,           \* where StepExidx is
    pc,           \* less load_bias_
    first, last,
    entry         \* the entry that was found

searchVars == <<index, unreadable, addrs_, at, pc, first, last, entry>>

None == -1
total_entries_ == Cardinality(DOMAIN index)

SearchInit ==
    /\ index \in Indexes
    /\ unreadable \in SUBSET DOMAIN index
    /\ addrs_ = [i \in DOMAIN index |-> 0]
    /\ at = "idle" /\ pc = 0 /\ first = 0 /\ last = 0 /\ entry = None

\* StepExidx begins: a pc below the load bias, or a table without entries, is an error.
StepExidx(p) ==
    /\ at = "idle"
    /\ IF p < load_bias_ \/ total_entries_ = 0
       THEN at' = "failed" /\ pc' = p /\ UNCHANGED <<first, last>>
       ELSE at' = "search" /\ pc' = p - load_bias_ /\ first' = 0 /\ last' = total_entries_
    /\ UNCHANGED <<index, unreadable, addrs_, entry>>

\* One iteration of FindEntry.
FindEntry ==
    LET current == (first + last) \div 2
        addr == IF addrs_[current] = 0 THEN index[current] ELSE addrs_[current]
    IN
    /\ at = "search" /\ first < last
    /\ IF addrs_[current] = 0 /\ current \in unreadable
       THEN at' = "failed" /\ UNCHANGED <<addrs_, first, last, entry>>
       ELSE /\ addrs_' = [addrs_ EXCEPT ![current] = addr]
            /\ \/ pc = addr /\ at' = "entry" /\ entry' = current /\ UNCHANGED <<first, last>>
               \/ pc < addr /\ last' = current /\ UNCHANGED <<at, first, entry>>
               \/ pc > addr /\ first' = current + 1 /\ UNCHANGED <<at, last, entry>>
    /\ UNCHANGED <<index, unreadable, pc>>

\* Mutant: the entry after the one before the pc.
EntryBeforeNext ==
    /\ at = "search" /\ first >= last
    /\ IF last < total_entries_ THEN at' = "entry" /\ entry' = last
       ELSE at' = "failed" /\ UNCHANGED entry
    /\ UNCHANGED <<index, unreadable, addrs_, pc, first, last>>

\* The end of FindEntry: no entry begins at the pc, the one before it is meant.
EntryBefore ==
    /\ at = "search" /\ first >= last
    /\ IF last # 0 THEN at' = "entry" /\ entry' = last - 1
       ELSE at' = "failed" /\ UNCHANGED entry
    /\ UNCHANGED <<index, unreadable, addrs_, pc, first, last>>

(* FindEntry's entry is the last one that begins at or before the pc, whichever addresses earlier *)
(* searches have cached; without one the pc is before the table, or an entry could not be read.   *)
EntryExact ==
    LET Sorted == \A i, j \in DOMAIN index : i < j => index[i] < index[j]
    IN
    /\ at = "entry" => /\ entry \in DOMAIN index /\ index[entry] <= pc
                       /\ Sorted => \A i \in DOMAIN index : i > entry => pc < index[i]
    /\ (at = "failed" /\ entry = None /\ Sorted /\ unreadable = {}) =>
          pc < load_bias_ \/ \A i \in DOMAIN index : pc < index[i]
====
