------------------------------ MODULE Symbols ------------------------------
(***************************************************************************)
(* Symbols (Symbols.cpp): the name of the function at an address, and the  *)
(* address of a global variable, from one symbol table.                    *)
(*                                                                         *)
(* A search assumes at first that the table is sorted.  Every symbol it    *)
(* reads goes into a cache that later searches start from, so the order of *)
(* the calls decides which symbols a search looks at.  When a search fails *)
(* the functions are sorted once (the remap table) and it is tried again.  *)
(* One action is one iteration of the loop of BinarySearch; the caller     *)
(* holds Elf::lock_.                                                       *)
(***************************************************************************)
EXTENDS Integers, FiniteSets

CONSTANTS
    Symtabs,       \* symbol tables: functions from 0 .. n - 1 to Symbol
    Addrs,         \* the addresses GetName is called with
    Names, NoName, \* names; NoName: ReadString fails
    kMaxSymbols

Symbol == [value : Nat, size : Nat, type : {"func", "object", "undef"}, name : Names \cup {NoName}]

ASSUME SymbolsAssumption ==
    /\ \A t \in Symtabs : /\ IsFiniteSet(DOMAIN t)
                           /\ t \in [0 .. Cardinality(DOMAIN t) - 1 -> Symbol]
    /\ Addrs \subseteq Nat /\ NoName \notin Names /\ kMaxSymbols \in Nat

VARIABLES
    symtab,
    unreadable,        \* the symbols ReadFully cannot read
    symbols_,          \* end address -> [size, index, name]
    mapped, remap_,    \* remap_.has_value(), remap_.value()
    global_variables_, \* name -> value, or Nothing
    pc, addr,          \* the call of GetName
    first, last,       \* the locals of BinarySearch
    info,              \* the key of what BinarySearch returned
    name, func_offset  \* the answer; NoName: the call returned false

cache == <<symbols_, mapped, remap_, global_variables_>>
locals == <<addr, first, last, info>>
vars == <<symtab, unreadable, cache, pc, locals, name, func_offset>>

Nothing == -1
Indices == DOMAIN symtab
count_ == IF Cardinality(Indices) > kMaxSymbols THEN kMaxSymbols ELSE Cardinality(Indices)
End(i) == symtab[i].value + symtab[i].size
Covers(i, a) == symtab[i].value <= a /\ a < End(i)
IsFunc(i) == symtab[i].type = "func"

Init ==
    /\ symtab \in Symtabs
    /\ unreadable \in SUBSET Indices
    /\ symbols_ = << >> /\ mapped = FALSE /\ remap_ = << >> /\ global_variables_ = << >>
    /\ pc = "idle" /\ addr = 0 /\ first = 0 /\ last = 0 /\ info = 0
    /\ name = NoName /\ func_offset = 0

\* symbols_.upper_bound(a), and the entry before it: sets of at most one key.
upper_bound(a) ==
    {e \in DOMAIN symbols_ : e > a /\ \A d \in DOMAIN symbols_ : d > a => e <= d}
prev(a) ==
    {e \in DOMAIN symbols_ : e <= a /\ \A d \in DOMAIN symbols_ : d <= a => d <= e}

count == IF mapped THEN Cardinality(DOMAIN remap_) ELSE count_
symbol_index(current) == IF mapped THEN remap_[current] ELSE current

FirstOf(a) == IF prev(a) = {} THEN 0 ELSE symbols_[CHOOSE e \in prev(a) : TRUE].index + 1
LastOf(a) ==
    IF upper_bound(a) = {} THEN count ELSE symbols_[CHOOSE e \in upper_bound(a) : TRUE].index

\* GetName, up to the loop of BinarySearch: the cache has the symbol, or the gap it must be in.
GetName(a) ==
    /\ pc = "idle"
    /\ addr' = a
    /\ LET hits == {e \in upper_bound(a) : e - symbols_[e].size <= a}
       IN  IF hits # {}
           THEN /\ pc' = "found" /\ info' \in hits
                /\ func_offset' = a - (info' - symbols_[info'].size)
                /\ UNCHANGED <<first, last>>
           ELSE /\ pc' = "search"
                /\ first' = FirstOf(a) /\ last' = LastOf(a)
                /\ UNCHANGED <<info, func_offset>>
    /\ UNCHANGED <<symtab, unreadable, cache, name>>

\* Mutant: an entry for the same end is kept.
CachedOnce(current) ==
    LET i == symbol_index(current)
    IN  [e \in DOMAIN symbols_ \cup {End(i)} |->
            IF e \in DOMAIN symbols_ THEN symbols_[e]
            ELSE [size |-> symtab[i].size, index |-> current, name |-> NoName]]
\* The cache with the symbol at an index of the sorted table in it.
Cached(current) ==
    LET i == symbol_index(current)
    IN  [e \in DOMAIN symbols_ \cup {End(i)} |->
            IF e = End(i) THEN [size |-> symtab[i].size, index |-> current, name |-> NoName]
            ELSE symbols_[e]]

\* One iteration of BinarySearch.
Probe ==
    LET current == first + (last - first) \div 2
        i == symbol_index(current)
    IN
    /\ pc = "search" /\ first < last
    /\ IF i \in unreadable
       THEN pc' = "null" /\ UNCHANGED <<symbols_, first, last, info, func_offset>>
       ELSE /\ symbols_' = Cached(current)
            /\ \/ /\ addr < symtab[i].value
                  /\ last' = current
                  /\ UNCHANGED <<pc, first, info, func_offset>>
               \/ /\ Covers(i, addr)
                  /\ pc' = "found" /\ info' = End(i) /\ func_offset' = addr - symtab[i].value
                  /\ UNCHANGED <<first, last>>
               \/ /\ End(i) <= addr /\ symtab[i].value <= addr
                  /\ first' = current + 1
                  /\ UNCHANGED <<pc, last, info, func_offset>>
    /\ UNCHANGED <<symtab, unreadable, mapped, remap_, global_variables_, addr, name>>

Exhausted ==
    /\ pc = "search" /\ first >= last
    /\ pc' = "null"
    /\ UNCHANGED <<symtab, unreadable, cache, locals, name, func_offset>>

\* The symbols that BuildRemapTable reads: those before the first it cannot.
Read == {i \in 0 .. count_ - 1 : \A j \in 0 .. i : j \notin unreadable}

\* Of functions at one address the first is kept.
Sortable ==
    {i \in Read : /\ IsFunc(i) /\ symtab[i].size # 0
                  /\ \A j \in Read : (j < i /\ IsFunc(j) /\ symtab[j].size # 0) =>
                                        symtab[j].value # symtab[i].value}

IsSorted(r) ==
    \A m, n \in DOMAIN r : m < n => symtab[r[m]].value < symtab[r[n]].value

\* The first search failed: BuildRemapTable, and again from an empty cache.
BuildRemapTable ==
    /\ pc = "null" /\ ~mapped
    /\ mapped' = TRUE
    /\ \E r \in [0 .. Cardinality(Sortable) - 1 -> Sortable] :
          /\ \A i \in Sortable : \E m \in DOMAIN r : r[m] = i
          /\ IsSorted(r)
          /\ remap_' = r
    /\ symbols_' = << >>
    /\ pc' = "search" /\ first' = 0 /\ last' = Cardinality(Sortable)
    /\ UNCHANGED <<symtab, unreadable, global_variables_, addr, info, name, func_offset>>

NotFound ==
    /\ pc = "null" /\ mapped
    /\ pc' = "done" /\ name' = NoName
    /\ UNCHANGED <<symtab, unreadable, cache, locals, func_offset>>

\* The end of GetName: read and cache the name.
ReadName ==
    LET i == symbol_index(symbols_[info].index)
        new == IF symbols_[info].name # NoName THEN symbols_[info].name
               ELSE IF i \in unreadable \/ ~IsFunc(i) THEN NoName
               ELSE symtab[i].name
    IN
    /\ pc = "found"
    /\ pc' = "done"
    /\ name' = new
    /\ symbols_' = [symbols_ EXCEPT ![info].name = new]
    /\ UNCHANGED <<symtab, unreadable, mapped, remap_, global_variables_, locals, func_offset>>

Return ==
    /\ pc = "done"
    /\ pc' = "idle" /\ name' = NoName /\ func_offset' = 0
    /\ addr' = 0 /\ first' = 0 /\ last' = 0 /\ info' = 0
    /\ UNCHANGED <<symtab, unreadable, cache>>

IsGlobal(i, n) == symtab[i].type = "object" /\ symtab[i].name = n

\* GetGlobal: the cached answer, or a scan up to the first symbol that cannot be read.
GetGlobal(n) ==
    LET hits == {i \in Read : IsGlobal(i, n) /\ \A j \in Read : IsGlobal(j, n) => i <= j}
        Remember(v) == [m \in DOMAIN global_variables_ \cup {n} |->
                           IF m = n THEN v ELSE global_variables_[m]]
    IN
    /\ pc = "idle" /\ n \notin DOMAIN global_variables_
    /\ \/ \E i \in hits : global_variables_' = Remember(symtab[i].value)
       \/ hits = {} /\ Cardinality(Read) = count_ /\ global_variables_' = Remember(Nothing)
    /\ UNCHANGED <<symtab, unreadable, symbols_, mapped, remap_, pc, locals, name, func_offset>>

ClearCache ==
    /\ pc = "idle"
    /\ symbols_' = << >> /\ mapped' = FALSE /\ remap_' = << >>
    /\ UNCHANGED <<symtab, unreadable, global_variables_, pc, locals, name, func_offset>>

Next ==
    \/ \E a \in Addrs : GetName(a)
    \/ Probe \/ Exhausted \/ BuildRemapTable \/ NotFound \/ ReadName \/ Return
    \/ \E n \in Names : GetGlobal(n)
    \/ ClearCache

Spec == Init /\ [][Next]_vars

(* Properties.                                                             *)

\* No two symbols overlap, except functions that are the same code.
Tidy ==
    \A i, j \in Indices :
       \/ i = j \/ symtab[i].size = 0 \/ symtab[j].size = 0
       \/ End(i) <= symtab[j].value \/ End(j) <= symtab[i].value
       \/ /\ symtab[i].value = symtab[j].value /\ symtab[i].size = symtab[j].size
          /\ IsFunc(i) /\ IsFunc(j)

(* The name and offset GetName returns are those of a function that the address is in: whatever   *)
(* overlaps, is unsorted or unreadable, and whichever symbols earlier calls left in the cache.    *)
(* And a function with a name is found if none overlaps another and those before it can be read,  *)
(* in any order of the table and whatever was looked up before: what a search leaves in the cache *)
(* never hides a symbol from a later one.                                                         *)
NameExact ==
    pc = "done" =>
       IF name # NoName
       THEN \E i \in Indices : /\ IsFunc(i) /\ Covers(i, addr)
                               /\ symtab[i].name = name /\ func_offset = addr - symtab[i].value
       ELSE Tidy => \A i \in Read : ~(IsFunc(i) /\ Covers(i, addr) /\ symtab[i].name # NoName)
====
