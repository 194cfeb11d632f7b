------------------------ MODULE LocalUpdatableMaps ------------------------
(***************************************************************************)
(* Maps.cpp: the list of maps of the own process, shared by all threads.   *)
(* Find looks an address up under the read lock; a miss takes the write    *)
(* lock and reparses /proc/self/maps, which has moved on meanwhile.        *)
(* Reparse merges the new list into the old one in place, so that maps     *)
(* that are still there keep their MapInfo object.                         *)
(*                                                                         *)
(* Global::FindAndReadVariable iterates over the same list, without the    *)
(* lock and with a raw pointer to a MapInfo.                               *)
(*                                                                         *)
(* Flags and name of a map are one label: "r", or "rw" if it is writable.  *)
(* A MapInfo object is an index into info; 0 is nullptr.                   *)
(***************************************************************************)
EXTENDS Integers, Sequences, SequencesExt, FiniteSets

CONSTANTS
    Threads,
    None,             \* owner of the free write lock
    Kernels,          \* the address spaces: sorted sequences of [start, end, offset, label]
    Addresses,        \* pcs looked up
    MayFail,          \* whether reading the maps file can fail
    Scans,            \* whether a Global searches the maps
    MaxChanges,       \* bound: changes of the address space
    MaxFinds          \* bound: calls of Find per thread

ASSUME MapsAssumption ==
    /\ None \notin Threads
    /\ \A k \in Kernels : \A i, j \in DOMAIN k :
          k[i].start < k[i].end /\ (i < j => k[i].end <= k[j].start)
    /\ MaxChanges \in Nat /\ MaxFinds \in Nat

VARIABLES
    kernel, changes,            \* the address space
    maps_, info,                \* the list, and every MapInfo object ever made
    maps_rwlock_,               \* the thread that holds the write lock
    step, new_map_idx, old_map_idx, search_map_idx, last_map_idx,    \* of Reparse
    parsed,                     \* what Reparse returned
    pc, addr, result, finds,    \* threads: step, argument and result of Find
    scan, it, it_end, map_zero, \* Global::FindAndReadVariable: step, iterators, raw pointer
    snapshot, before,           \* ghosts: the parsed address space, the list before Reparse
    steady,                     \* ghost: the regions in every address space parsed since map_zero was
                                \* set; none if a Reparse was running then
    always                      \* ghost: the address was mapped, and readable in the maps file,
                                \* during the whole call

kernelVars  == <<kernel, changes>>
reparseVars == <<step, new_map_idx, old_map_idx, search_map_idx, last_map_idx, parsed, before>>
threadVars  == <<pc, addr, result, finds>>
scanVars    == <<scan, it, it_end, map_zero, steady>>
vars == <<kernelVars, maps_, info, maps_rwlock_, reparseVars, threadVars, scanVars, snapshot, always>>

\* What Reparse compares of two maps: not the offset.
Region(m)        == [start |-> m.start, end |-> m.end, label |-> m.label]
Regions(k)       == {Region(k[i]) : i \in DOMAIN k}
Within(r, a)     == r.start <= a /\ a < r.end
Mapped(k, a)     == \E i \in DOMAIN k : Within(k[i], a)
NotNull(s)       == SelectSeq(s, LAMBDA o : o # 0)

\* Maps::Parse: the objects of a list of regions, linked to each other, from index n + 1 on.
Parsed(k, n) ==
    [i \in DOMAIN k |-> [start |-> k[i].start, end |-> k[i].end, offset |-> k[i].offset,
                         label |-> k[i].label,
                         prev |-> IF i = 1 THEN 0 ELSE n + i - 1,
                         next |-> IF i = Len(k) THEN 0 ELSE n + i + 1]]
Ids(n, k) == [i \in DOMAIN k |-> n + i]

\* Maps::Find: binary search.
Find(a) ==
    LET Search[b \in (0 .. Len(maps_)) \X (0 .. Len(maps_))] ==
            LET index == (b[1] + b[2]) \div 2
                cur == info[maps_[index + 1]]
            IN  IF b[1] >= b[2] THEN 0
                ELSE IF Within(cur, a) THEN maps_[index + 1]
                ELSE IF a < cur.start THEN Search[<<b[1], index>>]
                ELSE Search[<<index + 1, b[2]>>]
    IN  Search[<<0, Len(maps_)>>]

Init ==
    /\ kernel \in Kernels /\ changes = 0
    /\ info = Parsed(kernel, 0) /\ maps_ = Ids(0, kernel)
    /\ maps_rwlock_ = None
    /\ step = "none" /\ new_map_idx = 0 /\ old_map_idx = 0 /\ search_map_idx = 0
    /\ last_map_idx = 0 /\ parsed = TRUE /\ before = <<>>
    /\ pc = [t \in Threads |-> "idle"] /\ finds = [t \in Threads |-> 0]
    /\ addr \in [Threads -> {CHOOSE a \in Addresses : TRUE}]
    /\ result = [t \in Threads |-> 0]
    /\ scan = IF Scans THEN "begin" ELSE "done"
    /\ it = 0 /\ it_end = 0 /\ map_zero = 0 /\ steady = {}
    /\ snapshot = kernel
    /\ always = [t \in Threads |-> FALSE]

(* The process maps and unmaps memory. *)
ChangeMaps ==
    /\ changes < MaxChanges
    /\ kernel' \in Kernels \ {kernel}
    /\ changes' = changes + 1
    /\ always' = [t \in Threads |-> always[t] /\ Mapped(kernel', addr[t])]
    /\ UNCHANGED <<maps_, info, maps_rwlock_, reparseVars, threadVars, scanVars, snapshot>>

(* LocalUpdatableMaps::Find.                                               *)

CallFind(t) ==
    /\ pc[t] = "idle" /\ finds[t] < MaxFinds
    /\ \E a \in Addresses :
          /\ addr' = [addr EXCEPT ![t] = a]
          /\ always' = [always EXCEPT ![t] = Mapped(kernel, a)]
    /\ result' = [result EXCEPT ![t] = 0]     \* the caller lets go of the last map
    /\ finds' = [finds EXCEPT ![t] = @ + 1]
    /\ pc' = [pc EXCEPT ![t] = "read"]
    /\ UNCHANGED <<kernelVars, maps_, info, maps_rwlock_, reparseVars, scanVars, snapshot>>

FindRead(t) ==
    LET found == Find(addr[t]) IN
    /\ pc[t] = "read" /\ maps_rwlock_ = None
    /\ result' = [result EXCEPT ![t] = found]
    /\ pc' = [pc EXCEPT ![t] = IF found # 0 THEN "idle" ELSE "write"]
    /\ UNCHANGED <<kernelVars, maps_, info, maps_rwlock_, reparseVars, addr, finds, scanVars,
                   snapshot, always>>

FindWrite(t) ==
    /\ pc[t] = "write" /\ maps_rwlock_ = None
    /\ maps_rwlock_' = t
    /\ pc' = [pc EXCEPT ![t] = "reparse"]
    /\ step' = "parse"
    /\ before' = maps_
    /\ UNCHANGED <<kernelVars, maps_, info, new_map_idx, old_map_idx, search_map_idx, last_map_idx,
                   parsed, addr, result, finds, scanVars, snapshot, always>>

\* Mutant: the result of the first search is returned.
FindAgainStale(t) ==
    /\ pc[t] = "reparse" /\ step = "none"
    /\ maps_rwlock_' = None
    /\ pc' = [pc EXCEPT ![t] = "idle"]
    /\ UNCHANGED <<kernelVars, maps_, info, reparseVars, addr, result, finds, scanVars, snapshot,
                   always>>

\* After Reparse, still under the write lock.
FindAgain(t) ==
    /\ pc[t] = "reparse" /\ step = "none"
    /\ result' = [result EXCEPT ![t] = IF parsed THEN Find(addr[t]) ELSE 0]
    /\ maps_rwlock_' = None
    /\ pc' = [pc EXCEPT ![t] = "idle"]
    /\ UNCHANGED <<kernelVars, maps_, info, reparseVars, addr, finds, scanVars, snapshot, always>>

(* LocalUpdatableMaps::Reparse, one step per iteration of the inner loop.  *)

reparseFrame == <<kernelVars, maps_rwlock_, threadVars, scan, it, it_end, map_zero, before, always>>

\* New maps go behind the old ones.
Reparse ==
    /\ step = "parse"
    /\ info' = info \o Parsed(kernel, Len(info))
    /\ maps_' = maps_ \o Ids(Len(info), kernel)
    /\ last_map_idx' = Len(maps_)
    /\ search_map_idx' = 1 /\ old_map_idx' = 1 /\ new_map_idx' = Len(maps_) + 1
    /\ snapshot' = kernel /\ steady' = steady \cap Regions(kernel)
    /\ step' = "merge"
    /\ UNCHANGED <<reparseFrame, parsed>>

\* The file cannot be read, possibly after some lines: the new maps are dropped again.
ReparseFails ==
    /\ MayFail /\ step = "parse"
    /\ parsed' = FALSE /\ step' = "none"
    /\ always' = [always EXCEPT ![maps_rwlock_] = FALSE]
    /\ UNCHANGED <<kernelVars, maps_rwlock_, threadVars, scanVars, before, maps_, info, new_map_idx, old_map_idx, search_map_idx,
                   last_map_idx, snapshot>>

NextNew(search) ==
    /\ search_map_idx' = search
    /\ new_map_idx' = new_map_idx + 1
    /\ old_map_idx' = search
    /\ step' = IF search > last_map_idx THEN "tail" ELSE "merge"

\* Mutant: the neighbours still point to the object that is thrown away.
ReplacedOnly(o, n) ==
    [info EXCEPT ![o].prev = info[n].prev, ![o].next = info[n].next]

\* The link fix-ups when object o takes the place of the new object n.
Replaced(o, n) ==
    LET p == info[n].prev
        q == info[n].next
        Links(i) == [info[i] EXCEPT !.prev = IF i = o THEN p ELSE IF i = q THEN o ELSE @,
                                    !.next = IF i = o THEN q ELSE IF i = p THEN o ELSE @]
    IN  [i \in DOMAIN info |-> Links(i)]

\* Mutant: old maps behind the new one are dropped as well.
MergeNoStop ==
    LET n == maps_[new_map_idx]
        o == maps_[old_map_idx]
    IN
    /\ step = "merge" /\ new_map_idx <= Len(maps_) /\ old_map_idx <= last_map_idx
    /\ \/ /\ Region(info[n]) = Region(info[o])
          /\ info' = Replaced(o, n)
          /\ maps_' = [maps_ EXCEPT ![new_map_idx] = 0]
          /\ NextNew(old_map_idx + 1)
       \/ /\ Region(info[n]) # Region(info[o])
          /\ maps_' = [maps_ EXCEPT ![old_map_idx] = 0]
          /\ search_map_idx' = old_map_idx + 1
          /\ old_map_idx' = old_map_idx + 1
          /\ UNCHANGED <<info, new_map_idx, step>>
    /\ UNCHANGED <<reparseFrame, steady, last_map_idx, parsed, snapshot>>

\* Mutant: of two equal maps the old one is thrown away.
MergeKeepsNew ==
    LET n == maps_[new_map_idx]
        o == maps_[old_map_idx]
    IN
    /\ step = "merge" /\ new_map_idx <= Len(maps_) /\ old_map_idx <= last_map_idx
    /\ \/ /\ Region(info[n]) = Region(info[o]) \/ info[o].start <= info[n].start
          /\ maps_' = [maps_ EXCEPT ![old_map_idx] = 0]
          /\ search_map_idx' = old_map_idx + 1
          /\ old_map_idx' = old_map_idx + 1
          /\ UNCHANGED <<info, new_map_idx, step>>
       \/ /\ Region(info[n]) # Region(info[o]) /\ info[o].start > info[n].start
          /\ NextNew(old_map_idx)
          /\ UNCHANGED <<info, maps_>>
    /\ UNCHANGED <<reparseFrame, steady, last_map_idx, parsed, snapshot>>

\* One comparison of a new map with an old one.
Merge ==
    LET n == maps_[new_map_idx]
        o == maps_[old_map_idx]
    IN
    /\ step = "merge" /\ new_map_idx <= Len(maps_) /\ old_map_idx <= last_map_idx
    /\ \/ /\ Region(info[n]) = Region(info[o])
          /\ info' = Replaced(o, n)
          /\ maps_' = [maps_ EXCEPT ![new_map_idx] = 0]
          /\ NextNew(old_map_idx + 1)
       \/ /\ Region(info[n]) # Region(info[o]) /\ info[o].start > info[n].start
          /\ NextNew(old_map_idx)
          /\ UNCHANGED <<info, maps_>>
       \/ /\ Region(info[n]) # Region(info[o]) /\ info[o].start <= info[n].start
          /\ maps_' = [maps_ EXCEPT ![old_map_idx] = 0]
          /\ search_map_idx' = old_map_idx + 1
          /\ old_map_idx' = old_map_idx + 1
          /\ UNCHANGED <<info, new_map_idx, step>>
    /\ UNCHANGED <<reparseFrame, steady, last_map_idx, parsed, snapshot>>

\* The inner loop has reached the end of the old maps, or the outer one that of the new maps.
MergeEnds ==
    /\ step = "merge" /\ (new_map_idx > Len(maps_) \/ old_map_idx > last_map_idx)
    /\ step' = "tail"
    /\ UNCHANGED <<reparseFrame, steady, maps_, info, new_map_idx, old_map_idx, search_map_idx,
                   last_map_idx, parsed, snapshot>>

\* Drop the remaining old maps.
DropTail ==
    /\ step = "tail"
    /\ maps_' = [i \in DOMAIN maps_ |->
                    IF search_map_idx <= i /\ i <= last_map_idx THEN 0 ELSE maps_[i]]
    /\ step' = "sort"
    /\ UNCHANGED <<reparseFrame, steady, info, new_map_idx, old_map_idx, search_map_idx, last_map_idx,
                   parsed, snapshot>>

\* Sort by start address and resize the null pointers away.
Sort ==
    /\ step = "sort"
    /\ maps_' = SortSeq(NotNull(maps_), LAMBDA x, y : info[x].start < info[y].start)
    /\ parsed' = TRUE /\ step' = "none"
    /\ UNCHANGED <<reparseFrame, steady, info, new_map_idx, old_map_idx, search_map_idx, last_map_idx,
                   snapshot>>

ReparseStep == Reparse \/ ReparseFails \/ Merge \/ MergeEnds \/ DropTail \/ Sort

(* Global::FindAndReadVariable, for maps with one name.                    *)

scanFrame == <<kernelVars, maps_, info, maps_rwlock_, reparseVars, threadVars, snapshot, always>>

ScanBegin ==
    /\ scan = "begin" /\ scan' = "next" /\ it' = 1 /\ it_end' = Len(maps_)
    /\ UNCHANGED <<scanFrame, map_zero, steady>>

\* The element the iterator is at; 0 where a Reparse has left nothing.
Element == IF it <= Len(maps_) THEN maps_[it] ELSE 0

\* One iteration; GetElf of the map map_zero points to is called in the next step.  An element that
\* a Reparse has taken away under the iterator is dereferenced all the same.
ScanNext ==
    /\ scan = "next"
    /\ \/ /\ it > it_end
          /\ scan' = "done" /\ UNCHANGED <<it, map_zero, steady>>
       \/ /\ it <= it_end /\ Element = 0
          /\ scan' = "crashed" /\ UNCHANGED <<it, map_zero, steady>>
       \/ /\ it <= it_end /\ Element # 0 /\ info[Element].label = "rw" /\ map_zero # 0
          /\ scan' = "use" /\ UNCHANGED <<it, map_zero, steady>>
       \/ /\ it <= it_end /\ Element # 0 /\ (info[Element].label = "rw" => map_zero = 0)
          /\ IF info[Element].offset = 0
             THEN map_zero' = Element /\ steady' = IF step = "none" THEN Regions(snapshot) ELSE {}
             ELSE UNCHANGED <<map_zero, steady>>
          /\ it' = it + 1 /\ UNCHANGED scan
    /\ UNCHANGED <<scanFrame, it_end>>

\* The variable is found, or the search goes on.
ScanUse ==
    /\ scan = "use"
    /\ \/ scan' = "done" /\ UNCHANGED it
       \/ scan' = "next" /\ it' = it + 1
    /\ UNCHANGED <<scanFrame, it_end, map_zero, steady>>

Scan == ScanBegin \/ ScanNext \/ ScanUse

\* All calls have been made, or the process is dead.
Done ==
    /\ \/ scan = "crashed"
       \/ scan = "done" /\ \A t \in Threads : pc[t] = "idle" /\ finds[t] = MaxFinds
    /\ UNCHANGED vars

ThreadStep(t) == FindRead(t) \/ FindWrite(t) \/ FindAgain(t)

Process == \/ ChangeMaps \/ ReparseStep \/ Scan
           \/ \E t \in Threads : CallFind(t) \/ ThreadStep(t)

Next == (scan # "crashed" /\ Process) \/ Done

Spec == Init /\ [][Next]_vars

(* Properties.                                                             *)

(* After Reparse the list is the address space it read, region by region and in order: the        *)
(* in-place merge loses no new map, keeps no old one and duplicates none.  The offsets are right  *)
(* too, except those of objects that were in the list before: Reparse does not compare offsets,   *)
(* so a file that is mapped again at the same place from another offset keeps the old one.  And   *)
(* the prev_map and next_map links, which GetPrevRealMap and GetNextRealMap follow, are the order *)
(* of the list, although Reparse builds them from two lists.                                      *)
ReparseExact ==
    step = "none" =>
        /\ DOMAIN maps_ = DOMAIN snapshot
        /\ \A i \in DOMAIN maps_ :
              /\ Region(info[maps_[i]]) = Region(snapshot[i])
              /\ info[maps_[i]].offset = snapshot[i].offset \/ maps_[i] \in Range(before)
        /\ \A i \in DOMAIN maps_ :
              /\ info[maps_[i]].prev = IF i = 1 THEN 0 ELSE maps_[i - 1]
              /\ info[maps_[i]].next = IF i = Len(maps_) THEN 0 ELSE maps_[i + 1]

(* A map that is still there keeps its MapInfo object, and with it its Elf: Reparse replaces only *)
(* what has changed.                                                                              *)
ObjectsKept ==
    step = "none" => \A i \in DOMAIN before :
        Region(info[before[i]]) \in Regions(snapshot) => before[i] \in Range(maps_)

(* Find returns nullptr only if the address was not mapped at some time during the call, or the   *)
(* maps could not be read; otherwise it returns a map with the address in it.                     *)
FindCorrect ==
    \A t \in Threads : (pc[t] = "idle" /\ finds[t] > 0) =>
        IF result[t] = 0 THEN ~always[t] ELSE Within(info[result[t]], addr[t])

(* What keeps a MapInfo alive: the list, and the shared pointers Find has returned. *)
Alive(o) == o \in Range(maps_) \/ \E t \in Threads : result[t] = o

(* At no moment of a merge does Reparse delete the MapInfo of a map that is still there: the raw  *)
(* pointer that the search for a global variable holds without the lock stays valid, if it was    *)
(* taken between two Reparses and its library is not unloaded.                                    *)
RawPointersValid == scan = "use" /\ Region(info[map_zero]) \in steady => Alive(map_zero)
=============================================================================
