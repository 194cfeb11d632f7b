---------------------------- MODULE MemoryCache ----------------------------
(***************************************************************************)
(* The caches of process memory (Memory.cpp, MemoryCache.h).  MemoryCache  *)
(* has one cache and a lock, MemoryThreadCache one cache for each thread.  *)
(* Small reads go through a cache of whole pages; a page that cannot be    *)
(* read in full is not cached, and the read is made directly.  The process *)
(* goes on writing while it is read.                                       *)
(***************************************************************************)
EXTENDS Integers, Sequences, FiniteSets

CONSTANTS
    Threads,
    NumPages, PageSize,     \* kCacheSize
    MaxSmall,      \* 64: larger reads are not cached
    Addrs, Sizes,  \* what is read
    Versions, Unreadable,
    MaxChanges     \* writes of the process

ASSUME CacheAssumption ==
    /\ PageSize \in Nat \ {0} /\ NumPages \in Nat
    /\ MaxSmall \in Nat /\ MaxSmall <= PageSize
    /\ Addrs \subseteq Nat /\ Sizes \subseteq Nat
    /\ Unreadable \notin Versions
    /\ 0 \notin Threads

VARIABLES
    kind,          \* the class; "no key": a MemoryThreadCache whose pthread_key_create failed
    memory,
    cache,         \* per cache, a partial function from pages to versions
    cache_lock_,   \* the thread that holds it, or 0
    pc, req,       \* per thread: where it is, and what it reads
    part,          \* per thread: the bytes of the first page
    changes,
    window, result \* ghosts, see MemorySpec

vars == <<kind, memory, cache, cache_lock_, pc, req, part, changes, window, result>>

Pages == 0 .. NumPages - 1
Kinds == {"MemoryCache", "MemoryThreadCache", "no key"}
Shared == kind = "MemoryCache"
CacheOf(t) == IF Shared THEN 0 ELSE t
Caches == {0} \cup Threads
NoRequest == [addr |-> 0, size |-> 0]
NoPages == [p \in {} |-> 0]

Promise == INSTANCE MemorySpec WITH Readers <- Caches

Init ==
    /\ kind \in Kinds
    /\ Promise!Init
    /\ cache = [c \in Caches |-> NoPages]
    /\ cache_lock_ = 0
    /\ pc = [t \in Threads |-> "idle"]
    /\ req = [t \in Threads |-> NoRequest]
    /\ part = [t \in Threads |-> <<>>]
    /\ changes = 0

\* n bytes from addr on, of a page that is v.
BytesOf(addr, n, v) == [i \in 1 .. n |-> Promise!Byte(addr + i - 1, v)]

Readable(addr) == Promise!PageOf(addr) \in Pages /\ memory[Promise!PageOf(addr)] # Unreadable

\* impl_->Read: the bytes up to the first that cannot be read.
ImplRead(addr, size) ==
    LET n == CHOOSE k \in 0 .. size :
                /\ \A i \in 0 .. k - 1 : Readable(addr + i)
                /\ k < size => ~Readable(addr + k)
    IN  [i \in 1 .. n |-> Promise!Byte(addr + i - 1, memory[Promise!PageOf(addr + i - 1)])]

Goto(t, label) == pc' = [pc EXCEPT ![t] = label]

\* The read of r returns the bytes.
Return(t, r, bytes) ==
    /\ result' = [reader |-> CacheOf(t), addr |-> r.addr, size |-> r.size, bytes |-> bytes]
    /\ Goto(t, "idle")
    /\ req' = [req EXCEPT ![t] = NoRequest]
    /\ part' = [part EXCEPT ![t] = <<>>]
    /\ cache_lock_' = IF cache_lock_ = t THEN 0 ELSE cache_lock_

\* The cache with the page, if it has it or can read it in full.
Has(t, page) == page \in DOMAIN cache[CacheOf(t)]
Obtainable(t, page) == Has(t, page) \/ (page \in Pages /\ memory[page] # Unreadable)
Version(t, page) == IF Has(t, page) THEN cache[CacheOf(t)][page] ELSE memory[page]
WithPage(t, page) ==
    [cache EXCEPT ![CacheOf(t)] =
        [p \in DOMAIN @ \cup {page} |-> IF p = page THEN Version(t, page) ELSE @[p]]]

\* Read: a large one, or one of a MemoryThreadCache without a key, goes straight to the process.
ReadDirect(t, addr, size) ==
    /\ pc[t] = "idle" /\ (size > MaxSmall \/ kind = "no key")
    /\ Return(t, [addr |-> addr, size |-> size], ImplRead(addr, size))
    /\ UNCHANGED <<kind, memory, cache, changes, window>>

\* CachedRead, as far as the lock.
ReadCached(t, addr, size) ==
    /\ pc[t] = "idle" /\ size <= MaxSmall /\ kind # "no key"
    /\ Shared => cache_lock_ = 0
    /\ cache_lock_' = IF Shared THEN t ELSE cache_lock_
    /\ req' = [req EXCEPT ![t] = [addr |-> addr, size |-> size]]
    /\ Goto(t, "first")
    /\ result' = Promise!None
    /\ UNCHANGED <<kind, memory, cache, part, changes, window>>

MaxRead(addr) == (Promise!PageOf(addr) + 1) * PageSize - addr

\* InternalCachedRead, the first page.
FirstPage(t) ==
    LET addr == req[t].addr
        size == req[t].size
        page == Promise!PageOf(addr)
        max_read == MaxRead(addr)
    IN
    /\ pc[t] = "first"
    /\ UNCHANGED <<kind, memory, changes, window>>
    /\ \/ /\ Obtainable(t, page) /\ size <= max_read
          /\ cache' = WithPage(t, page)
          /\ Return(t, req[t], BytesOf(addr, size, Version(t, page)))
       \/ /\ Obtainable(t, page) /\ size > max_read
          /\ cache' = WithPage(t, page)
          /\ part' = [part EXCEPT ![t] = BytesOf(addr, max_read, Version(t, page))]
          /\ Goto(t, "second")
          /\ UNCHANGED <<cache_lock_, req, result>>
       \/ /\ ~Obtainable(t, page)
          /\ Goto(t, "first_direct")
          /\ UNCHANGED <<cache, cache_lock_, req, part, result>>

\* The first page could not be cached: read what there is.
FirstDirect(t) ==
    /\ pc[t] = "first_direct"
    /\ UNCHANGED <<kind, memory, cache, changes, window>>
    /\ Return(t, req[t], ImplRead(req[t].addr, req[t].size))

SecondPageOf(t) == Promise!PageOf(req[t].addr) + 1

\* The second page.
SecondPage(t) ==
    LET page == SecondPageOf(t)
        rest == req[t].size - Len(part[t])
    IN
    /\ pc[t] = "second"
    /\ UNCHANGED <<kind, memory, changes, window>>
    /\ \/ /\ Obtainable(t, page)
          /\ cache' = WithPage(t, page)
          /\ Return(t, req[t], part[t] \o BytesOf(page * PageSize, rest, Version(t, page)))
       \/ /\ ~Obtainable(t, page)
          /\ Goto(t, "second_direct")
          /\ UNCHANGED <<cache, cache_lock_, req, part, result>>

SecondDirect(t) ==
    /\ pc[t] = "second_direct"
    /\ UNCHANGED <<kind, memory, cache, changes, window>>
    /\ Return(t, req[t], part[t] \o ImplRead(SecondPageOf(t) * PageSize, req[t].size - Len(part[t])))

\* Mutant: the pages are kept.
EmptiedNot(c) == cache[c]
\* cache_.clear(), or delete cache.
Emptied(c) == NoPages

Clear(t) ==
    /\ pc[t] = "idle"
    /\ Shared => cache_lock_ = 0
    /\ cache' = [cache EXCEPT ![CacheOf(t)] = Emptied(CacheOf(t))]
    /\ window' = [window EXCEPT ![CacheOf(t)] = [p \in Pages |-> {memory[p]}]]
    /\ UNCHANGED <<kind, memory, cache_lock_, pc, req, part, changes, result>>

\* The process writes to a page, maps or unmaps it.
Change(p, v) ==
    /\ changes < MaxChanges /\ changes' = changes + 1
    /\ memory[p] # v
    /\ memory' = [memory EXCEPT ![p] = v]
    /\ window' = [c \in Caches |-> [window[c] EXCEPT ![p] = @ \cup {v}]]
    /\ UNCHANGED <<kind, cache, cache_lock_, pc, req, part, result>>

Next ==
    \/ \E t \in Threads :
          \/ \E addr \in Addrs, size \in Sizes : ReadDirect(t, addr, size) \/ ReadCached(t, addr, size)
          \/ FirstPage(t) \/ FirstDirect(t) \/ SecondPage(t) \/ SecondDirect(t) \/ Clear(t)
    \/ \E p \in Pages, v \in Versions \cup {Unreadable} : Change(p, v)

Spec == Init /\ [][Next]_vars

(* Properties.                                                             *)

(* Through either cache, at page boundaries and with unreadable pages, a read returns what        *)
(* MemorySpec promises: bytes the process has had since the Clear at the start of the unwind      *)
(* (Unwinder::Unwind), at the addresses asked for, and none missing but at an unreadable page.    *)
KeepsPromise == Promise!Spec
=============================================================================
