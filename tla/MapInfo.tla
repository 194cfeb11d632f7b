------------------------------ MODULE MapInfo ------------------------------
(***************************************************************************)
(* MapInfo.cpp and the Elf cache of Elf.cpp: the lazily created data of a  *)
(* map (struct ElfFields), shared by the threads that unwind through it.   *)
(*                                                                         *)
(* GetElf creates the Elf object of a map under the map's elf_mutex_, and  *)
(* shares it with the preceding read-only map of the same file under that  *)
(* map's mutex; with caching enabled it also holds the global cache_lock_. *)
(* GetLoadBias(process_memory) and GetBuildID may create file memory, and  *)
(* so write the fields of the map, without any lock.                       *)
(*                                                                         *)
(* A file is the set of ELF images in it.  A Memory object is the file     *)
(* offset its address zero stands for; an Elf object knows the offset of   *)
(* the image it was made from (at) and whether it reads the process (mem). *)
(***************************************************************************)
EXTENDS Integers, Sequences, FiniteSets, FiniteSetsExt

CONSTANTS
    Threads,
    Worlds,          \* the cases considered: set of [maps, files, use]
    NoLock           \* owner of a free mutex

Methods == {"GetElf", "GetLoadBias", "GetLoadBiasPm", "GetBuildID", "GetFunctionName"}

ASSUME MapInfoAssumption ==
    /\ NoLock \notin Threads
    /\ \A w \in Worlds :
          /\ w.use \in [caching : BOOLEAN, ops : SUBSET Methods, callers : Nat, calls : Nat]
          /\ w.maps \in Seq([start : Nat, end : Nat, offset : Nat, name : DOMAIN w.files \cup {""},
                             flags : {"none", "r", "rx", "rw", "device"}])
          /\ \A n \in DOMAIN w.files :
                w.files[n] \in [opens : SUBSET BOOLEAN,   \* what opening and mapping it may yield
                                elfs : SUBSET [at : Nat, size : Nat, good : BOOLEAN, bias : Nat]]

VARIABLES
    maps, files,     \* the address space; never changes
    use,             \* how it is used, never changes: whether the Elf cache is enabled, the methods
                     \* called, and as bounds the number of threads and of calls of each
    fields,          \* ElfFields of every map
    elf_mutex_, cache_lock_,
    cache_,          \* set of [name, start, elf]
    made,            \* Elf objects created so far
    pc, cur,         \* per thread: next step, the map of the call
    buf,             \* per thread: a build id read but not yet stored
    calls,
    got, ids         \* ghost: what GetElf / GetElfObj and GetBuildID returned for each map

threadVars == <<pc, cur, buf, calls>>
vars == <<maps, files, use, fields, elf_mutex_, cache_lock_, cache_, made, threadVars, got, ids>>

CachingEnabled == use.caching
Maps      == DOMAIN maps
NoElf     == [id |-> 0, valid |-> FALSE, at |-> 0, mem |-> FALSE, bias |-> 0]
NoMem     == [at |-> -1, mem |-> FALSE]
Unset     == -2      \* load_bias_ is UINT64_MAX, build_id_ is nullptr
EmptyId   == -1      \* the empty build id
NewFields == [elf |-> NoElf, elf_offset |-> 0, elf_start_offset |-> 0, load_bias |-> Unset,
              build_id |-> Unset, memory_backed |-> FALSE]

IsBlank(m) == maps[m].offset = 0 /\ maps[m].flags = "none" /\ maps[m].name = ""
Elfs(name) == IF name = "" THEN {} ELSE files[name].elfs
ElfsAt(name, off) == {e \in Elfs(name) : e.at = off}
IsValidElf(name, mem) == mem # NoMem /\ ElfsAt(name, mem.at) # {}
ImageOf(name, mem) == CHOOSE e \in ElfsAt(name, mem.at) : TRUE

\* 0 stands for nullptr.
SameName(m, p) == IF maps[p].name = maps[m].name THEN p ELSE 0
GetPrevRealMap(m) ==
    LET before == {p \in 1 .. m - 1 : ~IsBlank(p)}
    IN  IF maps[m].name = "" \/ before = {} THEN 0 ELSE SameName(m, Max(before))

\* The read-only map in front of m that m may share its elf with.
ReadOnlyPrev(m) ==
    LET p == GetPrevRealMap(m)
    IN  IF p # 0 /\ maps[p].flags = "r" /\ maps[p].offset < maps[m].offset THEN p ELSE 0

(* Creating the memory of a map.  The operators return the memory and the  *)
(* fields as written on the way; ok[i] is the outcome of the i-th kind of  *)
(* MemoryFileAtOffset::Init.                                               *)

Inits(m) == [1 .. 6 -> IF maps[m].name = "" THEN {FALSE} ELSE files[maps[m].name].opens]
Made(at, mem, f) == [memory |-> [at |-> at, mem |-> mem], f |-> f]
Failed(f)        == [memory |-> NoMem, f |-> f]

InitFileMemoryFromPreviousReadOnlyMap(m, ok) ==
    LET p == ReadOnlyPrev(m)
        map_size == maps[m].end - maps[p].end
    IN  /\ p # 0
        /\ ok[4]
        /\ \E e \in ElfsAt(maps[m].name, maps[p].offset) : e.size >= map_size
        /\ ok[5]

GetFileMemory(m, f, ok) ==
    LET name == maps[m].name
        offset == maps[m].offset
        map_size == maps[m].end - maps[m].start
        here == ElfsAt(name, offset)
        prev == ReadOnlyPrev(m)
    IN  IF maps[m].flags = "device" \/ ~ok[IF offset = 0 THEN 1 ELSE 2] THEN Failed(f)
        ELSE IF offset = 0 THEN Made(0, FALSE, f)
        ELSE IF here # {}
        THEN IF (\E e \in here : e.size > map_size) /\ ~ok[3] /\ ~ok[6]
             THEN Failed([f EXCEPT !.elf_start_offset = 0])
             ELSE Made(offset, FALSE, [f EXCEPT !.elf_start_offset = offset])
        ELSE IF ok[1] /\ ElfsAt(name, 0) # {}
        THEN Made(0, FALSE, [f EXCEPT !.elf_offset = offset])
        ELSE IF InitFileMemoryFromPreviousReadOnlyMap(m, ok)
        THEN Made(maps[prev].offset, FALSE, [f EXCEPT !.elf_offset = offset - maps[prev].offset,
                                                      !.elf_start_offset = maps[prev].offset])
        ELSE IF ok[6] THEN Made(offset, FALSE, f) ELSE Failed(f)

\* The part of CreateMemory after set_elf_offset(0), with the memory of the process at hand.
FromProcess(m, f) ==
    LET name == maps[m].name
        offset == maps[m].offset
        prev == GetPrevRealMap(m)
        size == maps[m].end - maps[m].start
    IN  IF ElfsAt(name, offset) # {}
        THEN Made(offset, TRUE, [f EXCEPT !.memory_backed = TRUE, !.elf_start_offset = offset])
        ELSE IF offset = 0 \/ prev = 0 \/ (prev # 0 /\ maps[prev].offset >= offset)
        THEN Failed([f EXCEPT !.memory_backed = FALSE])
        ELSE LET g == [f EXCEPT !.memory_backed = TRUE,
                                !.elf_offset = offset - maps[prev].offset,
                                !.elf_start_offset = maps[prev].offset]
             IN  IF maps[prev].end - maps[prev].start = g.elf_offset + size
                 THEN Failed(g)          \* the ranges have the same key
                 ELSE Made(maps[prev].offset, TRUE, g)

CreateMemory(m, f, ok) ==
    LET file == IF maps[m].name = "" THEN Failed(f) ELSE GetFileMemory(m, f, ok)
    IN  IF maps[m].end <= maps[m].start \/ maps[m].flags = "device" THEN Failed(f)
        ELSE IF file.memory # NoMem THEN file ELSE FromProcess(m, file.f)

\* new Elf, Init, and Invalidate unless the architecture is the expected one.
NewElf(m, mem) ==
    IF IsValidElf(maps[m].name, mem) /\ ImageOf(maps[m].name, mem).good
    THEN [id |-> made + 1, valid |-> TRUE, at |-> mem.at, mem |-> mem.mem,
          bias |-> ImageOf(maps[m].name, mem).bias]
    ELSE [NoElf EXCEPT !.id = made + 1]

(* The cache of Elf objects.                                               *)

\* Mutant: looks the file up, but not the image in it.
EntryByName(m, start) == {e \in cache_ : e.name = maps[m].name}

Entry(m, start) == {e \in cache_ : e.name = maps[m].name /\ e.start = start}

\* The start offsets CacheGet tries, in order.
CacheKeys(m) ==
    LET p == IF maps[m].flags = "rx" THEN ReadOnlyPrev(m) ELSE 0
    IN  <<0, maps[m].offset>> \o (IF p = 0 THEN <<>> ELSE <<maps[p].offset>>)

CacheHit(m) ==
    LET keys == CacheKeys(m)
        hits == {i \in DOMAIN keys : Entry(m, keys[i]) # {}}
    IN  IF hits = {} THEN {} ELSE Entry(m, keys[Min(hits)])

CacheGet(m, e) ==
    fields' = [fields EXCEPT ![m].elf = e.elf, ![m].elf_start_offset = e.start,
                             ![m].elf_offset = maps[m].offset - e.start]

\* emplace: an entry that is already there stays.
CacheAdd(m, f) ==
    cache_' = IF CachingEnabled /\ f.elf.valid /\ Entry(m, f.elf_start_offset) = {}
              THEN cache_ \cup {[name |-> maps[m].name, start |-> f.elf_start_offset, elf |-> f.elf]}
              ELSE cache_

(* Steps of a thread.                                                      *)

Init ==
    /\ \E w \in Worlds : maps = w.maps /\ files = w.files /\ use = w.use
    /\ fields = [m \in Maps |-> NewFields]
    /\ elf_mutex_ = [m \in Maps |-> NoLock]
    /\ cache_lock_ = NoLock
    /\ cache_ = {}
    /\ made = 0
    /\ pc = [t \in Threads |-> "idle"]
    /\ cur = [t \in Threads |-> 0]
    /\ buf = [t \in Threads |-> Unset]
    /\ calls = [t \in Threads |-> 0]
    /\ got = {} /\ ids = {}

FirstStep(op) ==
    CASE op = "GetElf"          -> "elf_lock"
      [] op = "GetLoadBias"     -> "bias_load"
      [] op = "GetLoadBiasPm"   -> "biaspm_load"
      [] op = "GetBuildID"      -> "id_load"
      [] op = "GetFunctionName" -> "fn_lock"

MayCall(t) ==
    /\ pc[t] = "idle" /\ calls[t] < use.calls
    /\ calls[t] > 0 \/ Cardinality({u \in Threads : calls[u] > 0}) < use.callers

Call(t) ==
    /\ MayCall(t)
    /\ \E op \in use.ops, m \in Maps : ~IsBlank(m) /\ cur' = [cur EXCEPT ![t] = m]
                                  /\ pc' = [pc EXCEPT ![t] = FirstStep(op)]
    /\ calls' = [calls EXCEPT ![t] = @ + 1]
    /\ UNCHANGED <<maps, files, use, fields, elf_mutex_, cache_lock_, cache_, made, buf, got, ids>>

Goto(t, step) == pc' = [pc EXCEPT ![t] = step] /\ UNCHANGED <<maps, files, use, cur, calls>>
Returns(t)    == Goto(t, "idle")
Lock(t, m)    == elf_mutex_[m] = NoLock /\ elf_mutex_' = [elf_mutex_ EXCEPT ![m] = t]
Unlock(m)     == elf_mutex_' = [elf_mutex_ EXCEPT ![m] = NoLock]

\* GetElf: lock_guard, and the early return when the elf exists.
GetElfLock(t) ==
    LET m == cur[t] IN
    /\ pc[t] = "elf_lock" /\ elf_mutex_[m] = NoLock
    /\ IF fields[m].elf # NoElf
       THEN /\ Returns(t)
            /\ got' = got \cup {<<m, fields[m].elf>>}
            /\ UNCHANGED elf_mutex_
       ELSE /\ Goto(t, "cache_lock")
            /\ Lock(t, m)
            /\ UNCHANGED got
    /\ UNCHANGED <<fields, cache_lock_, cache_, made, buf, ids>>

\* ScopedElfCacheLock, then CacheGet; on a hit both locks are released again.
GetElfCached(t) ==
    LET m == cur[t]
        hit == IF CachingEnabled /\ maps[m].name # "" THEN CacheHit(m) ELSE {}
    IN
    /\ pc[t] = "cache_lock"
    /\ CachingEnabled => cache_lock_ = NoLock
    /\ IF hit # {}
       THEN \E e \in hit :
              /\ CacheGet(m, e)
              /\ got' = got \cup {<<m, e.elf>>}
              /\ Unlock(m)
              /\ Returns(t)
              /\ UNCHANGED cache_lock_
       ELSE /\ cache_lock_' = IF CachingEnabled THEN t ELSE NoLock
            /\ Goto(t, "elf_create0")
            /\ UNCHANGED <<fields, got, elf_mutex_>>
    /\ UNCHANGED <<cache_, made, buf, ids>>

\* CreateMemory begins with set_elf_offset(0), unless the map is empty.
ResetOffset(m) ==
    fields' = [fields EXCEPT ![m].elf_offset = IF maps[m].end <= maps[m].start THEN @ ELSE 0]

GetElfCreate0(t) ==
    /\ pc[t] = "elf_create0"
    /\ ResetOffset(cur[t])
    /\ Goto(t, "elf_create")
    /\ UNCHANGED <<elf_mutex_, cache_lock_, cache_, made, buf, got, ids>>

\* The end of GetElf: CacheAdd, and the locks are released.
Finish(t, m, f) ==
    /\ CacheAdd(m, f)
    /\ got' = got \cup {<<m, f.elf>>}
    /\ cache_lock_' = NoLock
    /\ Unlock(m)
    /\ Returns(t)

\* The rest of CreateMemory, new Elf, Init, Invalidate, and the start offset of an invalid elf.
GetElfCreate(t) ==
    LET m == cur[t] IN
    /\ pc[t] = "elf_create"
    /\ \E ok \in Inits(m) :
         LET c == CreateMemory(m, fields[m], ok)
             e == NewElf(m, c.memory)
             f == [c.f EXCEPT !.elf = e,
                              !.elf_start_offset = IF e.valid THEN @ ELSE maps[m].offset]
         IN  /\ fields' = [fields EXCEPT ![m] = f]
             /\ IF e.valid /\ ReadOnlyPrev(m) # 0
                THEN /\ Goto(t, "prev_lock")
                     /\ UNCHANGED <<elf_mutex_, cache_lock_, cache_, got>>
                ELSE Finish(t, m, f)
    /\ made' = made + 1
    /\ UNCHANGED <<buf, ids>>

\* Mutants: the previous map's elf is overwritten; never used; used without the other fields.
ShareAlways(m, p) ==
    LET f == fields[m]
    IN  [fields EXCEPT ![p] = [@ EXCEPT !.elf = f.elf,
                                        !.memory_backed = f.memory_backed,
                                        !.elf_start_offset = f.elf_start_offset,
                                        !.elf_offset = maps[p].offset - f.elf_start_offset]]

ShareNoDiscard(m, p) ==
    IF fields[p].elf = NoElf THEN ShareAlways(m, p) ELSE fields

ShareNoOffset(m, p) ==
    IF fields[p].elf = NoElf
    THEN [fields EXCEPT ![p] = [@ EXCEPT !.elf = fields[m].elf,
                                         !.memory_backed = fields[m].memory_backed,
                                         !.elf_start_offset = fields[m].elf_start_offset]]
    ELSE fields

\* What the previous read-only map p and m itself become.
Share(m, p) ==
    LET f == fields[m]
        g == fields[p]
    IN  IF g.elf = NoElf
        THEN [fields EXCEPT ![p] = [g EXCEPT !.elf = f.elf,
                                             !.memory_backed = f.memory_backed,
                                             !.elf_start_offset = f.elf_start_offset,
                                             !.elf_offset = maps[p].offset - f.elf_start_offset]]
        ELSE IF g.elf_start_offset = f.elf_start_offset
        THEN [fields EXCEPT ![m].elf = g.elf]
        ELSE fields

\* The previous map's mutex is taken and released inside the step.
GetElfShare(t) ==
    LET m == cur[t]
        p == ReadOnlyPrev(m)
    IN
    /\ pc[t] = "prev_lock" /\ elf_mutex_[p] = NoLock
    /\ fields' = Share(m, p)
    /\ Finish(t, m, fields'[m])
    /\ UNCHANGED <<made, buf, ids>>

\* GetLoadBias: the atomic load.
GetLoadBiasLoad(t) ==
    /\ pc[t] \in {"bias_load", "biaspm_load"}
    /\ IF fields[cur[t]].load_bias # Unset THEN Returns(t)
       ELSE Goto(t, IF pc[t] = "bias_load" THEN "bias_elf" ELSE "biaspm_elf")
    /\ UNCHANGED <<fields, elf_mutex_, cache_lock_, cache_, made, buf, got, ids>>

\* GetElfObj under the mutex; the bias of the elf is stored afterwards.
GetLoadBiasElf(t) ==
    LET m == cur[t] IN
    /\ pc[t] \in {"bias_elf", "biaspm_elf"} /\ elf_mutex_[m] = NoLock
    /\ IF fields[m].elf = NoElf
       THEN /\ IF pc[t] = "bias_elf" THEN Returns(t) ELSE Goto(t, "bias_create0")
            /\ UNCHANGED <<buf, got>>
       ELSE /\ buf' = [buf EXCEPT ![t] = IF fields[m].elf.valid THEN fields[m].elf.bias ELSE 0]
            /\ got' = got \cup {<<m, fields[m].elf>>}
            /\ Goto(t, "bias_store")
    /\ UNCHANGED <<fields, elf_mutex_, cache_lock_, cache_, made, ids>>

\* The load bias when there is no elf yet: CreateMemory without the mutex.
GetLoadBiasCreate0(t) ==
    /\ pc[t] = "bias_create0"
    /\ ResetOffset(cur[t])
    /\ Goto(t, "bias_create")
    /\ UNCHANGED <<elf_mutex_, cache_lock_, cache_, made, buf, got, ids>>

GetLoadBiasCreate(t) ==
    LET m == cur[t] IN
    /\ pc[t] = "bias_create"
    /\ \E ok \in Inits(m) :
         LET c == CreateMemory(m, fields[m], ok)
         IN  /\ fields' = [fields EXCEPT ![m] = c.f]
             /\ buf' = [buf EXCEPT ![t] = IF IsValidElf(maps[m].name, c.memory)
                                          THEN ImageOf(maps[m].name, c.memory).bias ELSE 0]
    /\ Goto(t, "bias_store")
    /\ UNCHANGED <<elf_mutex_, cache_lock_, cache_, made, got, ids>>

GetLoadBiasStore(t) ==
    /\ pc[t] = "bias_store"
    /\ fields' = [fields EXCEPT ![cur[t]].load_bias = buf[t]]
    /\ buf' = [buf EXCEPT ![t] = Unset]
    /\ Returns(t)
    /\ UNCHANGED <<elf_mutex_, cache_lock_, cache_, made, got, ids>>

GetBuildIDLoad(t) ==
    LET m == cur[t] IN
    /\ pc[t] = "id_load"
    /\ IF fields[m].build_id # Unset
       THEN Returns(t) /\ ids' = ids \cup {<<m, fields[m].build_id>>}
       ELSE Goto(t, "id_elf") /\ UNCHANGED ids
    /\ UNCHANGED <<fields, elf_mutex_, cache_lock_, cache_, made, buf, got>>

GetBuildIDElf(t) ==
    LET m == cur[t] IN
    /\ pc[t] = "id_elf" /\ elf_mutex_[m] = NoLock
    /\ IF fields[m].elf = NoElf
       THEN Goto(t, "id_file") /\ UNCHANGED <<buf, got>>
       ELSE /\ buf' = [buf EXCEPT ![t] = IF fields[m].elf.valid THEN fields[m].elf.at ELSE EmptyId]
            /\ got' = got \cup {<<m, fields[m].elf>>}
            /\ Goto(t, "id_set")
    /\ UNCHANGED <<fields, elf_mutex_, cache_lock_, cache_, made, ids>>

\* No elf yet: read the build id from the file, which writes the fields without the mutex.
GetBuildIDFile(t) ==
    LET m == cur[t] IN
    /\ pc[t] = "id_file"
    /\ \E ok \in Inits(m) :
         LET c == GetFileMemory(m, fields[m], ok)
         IN  /\ fields' = [fields EXCEPT ![m] = c.f]
             /\ buf' = [buf EXCEPT ![t] = IF IsValidElf(maps[m].name, c.memory)
                                          THEN c.memory.at ELSE EmptyId]
    /\ Goto(t, "id_set")
    /\ UNCHANGED <<elf_mutex_, cache_lock_, cache_, made, got, ids>>

\* The build id stored by the first thread wins.
SetBuildID(t) ==
    LET m == cur[t]
        id == IF fields[m].build_id = Unset THEN buf[t] ELSE fields[m].build_id
    IN
    /\ pc[t] = "id_set"
    /\ fields' = [fields EXCEPT ![m].build_id = id]
    /\ ids' = ids \cup {<<m, id>>}
    /\ buf' = [buf EXCEPT ![t] = Unset]
    /\ Returns(t)
    /\ UNCHANGED <<elf_mutex_, cache_lock_, cache_, made, got>>

GetFunctionNameLock(t) ==
    LET m == cur[t] IN
    /\ pc[t] = "fn_lock" /\ elf_mutex_[m] = NoLock
    /\ IF fields[m].elf = NoElf THEN Returns(t) ELSE Goto(t, "fn_read")
    /\ UNCHANGED <<fields, elf_mutex_, cache_lock_, cache_, made, buf, got, ids>>

\* elf() is read again after the mutex was released.
GetFunctionNameRead(t) ==
    LET m == cur[t] IN
    /\ pc[t] = "fn_read"
    /\ got' = got \cup {<<m, fields[m].elf>>}
    /\ Returns(t)
    /\ UNCHANGED <<fields, elf_mutex_, cache_lock_, cache_, made, buf, ids>>

Step(t) ==
    \/ GetElfLock(t) \/ GetElfCached(t) \/ GetElfCreate0(t) \/ GetElfCreate(t) \/ GetElfShare(t)
    \/ GetLoadBiasLoad(t) \/ GetLoadBiasElf(t) \/ GetLoadBiasCreate0(t) \/ GetLoadBiasCreate(t)
    \/ GetLoadBiasStore(t)
    \/ GetBuildIDLoad(t) \/ GetBuildIDElf(t) \/ GetBuildIDFile(t) \/ SetBuildID(t)
    \/ GetFunctionNameLock(t) \/ GetFunctionNameRead(t)

\* All threads have made their calls.
Done == (\A t \in Threads : pc[t] = "idle" /\ ~MayCall(t)) /\ UNCHANGED vars

Next == Done \/ \E t \in Threads : Call(t) \/ Step(t)

Spec == Init /\ [][Next]_vars

(* Properties.                                                             *)

(* An Elf pointer handed out by GetElf, or read by any other method, is the elf of the map from   *)
(* then on: although GetElf replaces the elf it has just made by the previous map's, and hands    *)
(* its elf to the previous map, nobody is ever left with a pointer to a discarded object          *)
(* (MapInfo.h, "never changes and is not freed").                                                 *)
ElfNeverChanges ==
    \A g \in got : g[2] # NoElf /\ fields[g[1]].elf = g[2]

\* Every file can always be opened, or never.
Steady == \A n \in DOMAIN files : Cardinality(files[n].opens) = 1

(* All threads get the same build id of a map.                                                    *)
OneBuildID == \A i \in ids : fields[i[1]].build_id = i[2]

(* The fields of a map are right for its valid elf, however it was obtained - made from the file, *)
(* from memory, through the previous map, shared by the next map, or from the cache - and whether *)
(* they were stored under the mutex or not.                                                       *)
(*  - elf_offset_ is the distance from the image the elf was made from to the map, from which     *)
(*    relative pcs are computed.  GetLoadBias(process_memory) is left out: it resets elf_offset_  *)
(*    without the mutex (line 369), after another thread may have published the elf.              *)
(*  - memory_backed_elf_ is "true if the elf file data is coming from memory" (MapInfo.h).  It is *)
(*    not so with the cache, where CacheGet leaves it false, or if a file opens at one time only: *)
(*    taking the previous map's elf leaves it as it was.                                          *)
(*  - The cached bias is the elf's ("guaranteed to return the proper value if GetElf() has been   *)
(*    called", MapInfo.h), also when a thread that found no elf computed it from memory of its    *)
(*    own; and all threads get the same build id of a map ("only one thread should win and save   *)
(*    the data", MapInfo.cpp).                                                                    *)
FieldsMatchElf ==
    /\ \A g \in got : g[2].valid =>
          /\ "GetLoadBiasPm" \notin use.ops => fields[g[1]].elf_offset = maps[g[1]].offset - g[2].at
          /\ ~CachingEnabled /\ Steady => fields[g[1]].memory_backed = g[2].mem
          /\ fields[g[1]].load_bias \in {Unset, g[2].bias}
    /\ OneBuildID

(* A map that is not read-only and the read-only map in front of it end up with one Elf object    *)
(* when they are parts of one image, whichever thread asks for which first (MapInfo.cpp, "make    *)
(* sure the previous map is using the same elf object").  Of two read-only maps in a row the      *)
(* second may be given the elf of the map behind it, and the first make its own.                  *)
ReadOnlyMapSharesElf ==
    \A g, h \in got :
       (/\ maps[g[1]].flags # "r" /\ h[1] = ReadOnlyPrev(g[1])
        /\ g[2].valid /\ h[2].valid /\ g[2].at = h[2].at) => g[2] = h[2]

(* The image a map's elf is made from, when no other map has been looked at before. *)
ImageAlone(m) ==
    LET c == CreateMemory(m, NewFields, [i \in 1 .. 6 |-> TRUE \in files[maps[m].name].opens])
    IN  c.memory.at

(* Which image a map gets does not depend on which maps were asked for before it: neither the     *)
(* cache nor the sharing with the previous map gives a map another library's elf.                 *)
OrderIndependent ==
    Steady => \A g \in got : g[2].valid => g[2].at = ImageAlone(g[1])

(* The owner of the lock thread t is about to take. *)
BlockedBy(t) ==
    CASE pc[t] \in {"elf_lock", "bias_elf", "biaspm_elf", "id_elf", "fn_lock"} -> elf_mutex_[cur[t]]
      [] pc[t] = "cache_lock" /\ CachingEnabled -> cache_lock_
      [] pc[t] = "prev_lock" -> elf_mutex_[ReadOnlyPrev(cur[t])]
      [] OTHER -> NoLock

(* No set of threads waits for locks held within the set ("Locking this should not result in a    *)
(* deadlock as long as the invariant that the code only ever tries to lock the previous real map  *)
(* holds true", MapInfo.cpp).                                                                     *)
NoLockCycle ==
    ~ \E S \in SUBSET Threads : S # {} /\ \A t \in S : BlockedBy(t) \in S
=============================================================================
