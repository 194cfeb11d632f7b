------------------------- MODULE MemoryCacheProofs -------------------------
(***************************************************************************)
(* MemoryCache implements MemorySpec: a proof for any number of threads,   *)
(* pages, addresses and sizes, and any page size.                          *)
(***************************************************************************)
EXTENDS MemoryCache, SequenceTheorems, WellFoundedInduction, TLAPS

PageOf(addr) == Promise!PageOf(addr)
Content == Versions \cup {Unreadable}

TypeOK ==
    /\ kind \in Kinds
    /\ memory \in [Pages -> Content]
    /\ window \in [Caches -> [Pages -> SUBSET Content]]
    /\ DOMAIN cache = Caches
    /\ cache_lock_ \in Caches
    /\ pc \in [Threads -> {"idle", "first", "first_direct", "second", "second_direct"}]
    /\ req \in [Threads -> [addr : Nat, size : Nat]]
    /\ DOMAIN part = Threads

\* A page has been what a reader may still be told.
Current(c, p, v) == p \in Pages /\ v \in window[c][p] \ {Unreadable}

\* The window has the page as it is now, and what is cached of it.
WindowOK(c) ==
    /\ \A p \in Pages : memory[p] \in window[c][p]
    /\ \A p \in DOMAIN cache[c] : Current(c, p, cache[c][p])

\* A thread in a cached read keeps others from clearing the cache, and has the bytes of the first page.
ReadOK(t) == pc[t] # "idle" =>
    /\ Shared => cache_lock_ = t
    /\ req[t].size <= MaxSmall
    /\ pc[t] \in {"second", "second_direct"} =>
          /\ req[t].size > MaxRead(req[t].addr)
          /\ \E v : /\ Current(CacheOf(t), PageOf(req[t].addr), v)
                    /\ part[t] = BytesOf(req[t].addr, MaxRead(req[t].addr), v)

\* The inductive invariant.
IInv ==
    /\ TypeOK
    /\ \A c \in Caches : WindowOK(c)
    /\ \A t \in Threads : ReadOK(t)

LEMMA Least == ASSUME NEW S \in SUBSET Nat, S # {} PROVE \E k \in S : \A j \in S : k <= j
  <1>1. PICK x \in S : \A y \in S : ~(<<y, x>> \in OpToRel(<, Nat))
    BY NatLessThanWellFounded, WFMin, Zenon
  <1>2. \A y \in S : ~(y < x)
    BY <1>1, Zenon DEF OpToRel
  <1> QED
    BY <1>2

\* Pages.

LEMMA PageBounds ==
    ASSUME NEW a \in Nat
    PROVE  PageOf(a) \in Nat /\ PageOf(a) * PageSize <= a /\ a < PageOf(a) * PageSize + PageSize
  BY CacheAssumption DEF PageOf, Promise!PageOf

LEMMA PageUnique ==
    ASSUME NEW a \in Nat, NEW p \in Nat, p * PageSize <= a, a < p * PageSize + PageSize
    PROVE  PageOf(a) = p
  <1> DEFINE q == PageOf(a)
  <1>1. q \in Nat /\ q * PageSize <= a /\ a < q * PageSize + PageSize /\ PageSize \in Nat
    BY PageBounds, CacheAssumption
  <1> HIDE DEF q
  <1>2. CASE q < p
    <2>1. q + 1 <= p
      BY <1>1, <1>2
    <2>2. (q + 1) * PageSize <= p * PageSize
      BY <1>1, <2>1
    <2> QED
      BY <1>1, <2>2
  <1>3. CASE p < q
    <2>1. p + 1 <= q
      BY <1>1, <1>3
    <2>2. (p + 1) * PageSize <= q * PageSize
      BY <1>1, <2>1
    <2> QED
      BY <1>1, <2>2
  <1>4. q = p
    BY <1>1, <1>2, <1>3
  <1> QED
    BY <1>4 DEF q

\* What is left of a page, and the page after it.
LEMMA MaxReadOK ==
    ASSUME NEW addr \in Nat
    PROVE  /\ MaxRead(addr) \in Nat /\ MaxRead(addr) > 0
           /\ addr + MaxRead(addr) = (PageOf(addr) + 1) * PageSize
           /\ \A k \in Nat : k < MaxRead(addr) => PageOf(addr + k) = PageOf(addr)
  <1> DEFINE p == PageOf(addr)
  <1>1. p \in Nat /\ p * PageSize \in Nat /\ p * PageSize <= addr /\ addr < p * PageSize + PageSize /\ PageSize \in Nat
    BY PageBounds, CacheAssumption
  <1>2. MaxRead(addr) = (p + 1) * PageSize - addr
    BY DEF MaxRead, PageOf
  <1> HIDE DEF p
  <1>3. (p + 1) * PageSize = p * PageSize + PageSize
    BY <1>1
  <1>4. MaxRead(addr) \in Nat /\ MaxRead(addr) > 0 /\ addr + MaxRead(addr) = (p + 1) * PageSize
    BY <1>1, <1>2, <1>3
  <1>5. ASSUME NEW k \in Nat, k < MaxRead(addr) PROVE PageOf(addr + k) = p
    <2>1. addr + k \in Nat /\ p * PageSize <= addr + k /\ addr + k < p * PageSize + PageSize
      BY <1>1, <1>2, <1>3, <1>5
    <2> QED
      BY <1>1, <2>1, PageUnique
  <1> QED
    BY <1>4, <1>5 DEF p

\* The second page of a small read, to its end.
LEMMA SecondPages ==
    ASSUME NEW addr \in Nat, NEW k \in Nat, k < PageSize
    PROVE  PageOf((PageOf(addr) + 1) * PageSize + k) = PageOf(addr) + 1
  <1>1. PageOf(addr) + 1 \in Nat /\ PageSize \in Nat /\ (PageOf(addr) + 1) * PageSize \in Nat
    BY PageBounds, CacheAssumption
  <1>2. (PageOf(addr) + 1) * PageSize + k \in Nat
    BY <1>1
  <1> QED
    BY <1>1, <1>2, PageUnique

\* What a read returns.

\* Bytes that are all of one version for each page are legal.
LEMMA LegalIf ==
    ASSUME NEW c \in Caches, NEW addr \in Nat, NEW size \in Nat, NEW bytes,
           Len(bytes) \in 0 .. size,
           NEW v,
           \A i \in 1 .. Len(bytes) :
              /\ bytes[i] = <<addr + i - 1, v[PageOf(addr + i - 1)]>>
              /\ Current(c, PageOf(addr + i - 1), v[PageOf(addr + i - 1)]),
           Len(bytes) < size =>
              LET next == PageOf(addr + Len(bytes))
              IN  next \notin Pages \/ Unreadable \in window[c][next]
    PROVE  Promise!Legal([reader |-> c, addr |-> addr, size |-> size, bytes |-> bytes])
  <1>1. Promise!Pages = Pages /\ \A a : Promise!PageOf(a) = PageOf(a)
    BY DEF Promise!Pages, Pages, PageOf
  <1>2. ASSUME NEW i \in 1 .. Len(bytes)
        PROVE  LET a == addr + i - 1
               IN  /\ PageOf(a) \in Pages
                   /\ \E w \in window[c][PageOf(a)] \ {Unreadable} : bytes[i] = Promise!Byte(a, w)
    BY DEF Promise!Byte, Current
  <1>3. ASSUME NEW i \in 1 .. Len(bytes) PROVE bytes[i][2] = v[PageOf(addr + i - 1)]
    <2>1. bytes[i] = <<addr + i - 1, v[PageOf(addr + i - 1)]>>
      OBVIOUS
    <2> QED
      BY <2>1
  <1>4. ASSUME NEW i \in 1 .. Len(bytes), NEW j \in 1 .. Len(bytes),
               PageOf(addr + i - 1) = PageOf(addr + j - 1)
        PROVE  bytes[i][2] = bytes[j][2]
    <2>1. bytes[i][2] = v[PageOf(addr + i - 1)] /\ bytes[j][2] = v[PageOf(addr + j - 1)]
      BY <1>3
    <2> QED
      BY <2>1, <1>4
  <1> DEFINE r == [reader |-> c, addr |-> addr, size |-> size, bytes |-> bytes]
  <1>5. r.reader = c /\ r.addr = addr /\ r.size = size /\ r.bytes = bytes
    OBVIOUS
  <1> HIDE DEF r
  <1>6. Promise!Legal(r)
    BY <1>1, <1>2, <1>4, <1>5, SMTT(30) DEF Promise!Legal
  <1> QED
    BY <1>6 DEF r

\* ImplRead reads up to the first byte that cannot be read.
LEMMA ImplReadOK ==
    ASSUME NEW addr \in Nat, NEW size \in Nat
    PROVE  LET bytes == ImplRead(addr, size)
           IN  /\ Len(bytes) \in 0 .. size
               /\ bytes = [i \in 1 .. Len(bytes) |-> bytes[i]]
               /\ \A i \in 1 .. Len(bytes) :
                     /\ bytes[i] = <<addr + i - 1, memory[PageOf(addr + i - 1)]>>
                     /\ PageOf(addr + i - 1) \in Pages /\ memory[PageOf(addr + i - 1)] # Unreadable
               /\ Len(bytes) < size => LET next == PageOf(addr + Len(bytes))
                                       IN  next \notin Pages \/ memory[next] = Unreadable
  <1> DEFINE P(k) == /\ \A i \in 0 .. k - 1 : Readable(addr + i)
                     /\ k < size => ~Readable(addr + k)
             S == {k \in 0 .. size : k < size => ~Readable(addr + k)}
             n == CHOOSE k \in 0 .. size : P(k)
             bytes == [i \in 1 .. n |-> <<addr + i - 1, memory[PageOf(addr + i - 1)]>>]
  <1>1. S \in SUBSET Nat /\ size \in S
    OBVIOUS
  <1>2. PICK k \in S : \A j \in S : k <= j
    BY <1>1, Least, Zenon
  <1>3. k \in 0 .. size /\ P(k)
    <2>1. ASSUME NEW i \in 0 .. k - 1 PROVE Readable(addr + i)
      BY <1>2
    <2> QED
      BY <1>2, <2>1
  <1>4. n \in 0 .. size /\ P(n)
    <2> HIDE DEF P
    <2> QED
      BY <1>3
  <1>5. ImplRead(addr, size) = bytes
    BY DEF ImplRead, Promise!Byte, PageOf
  <1> HIDE DEF n
  <1>6. Len(bytes) = n /\ bytes = [i \in 1 .. n |-> bytes[i]]
    BY <1>4
  <1>7. ASSUME NEW i \in 1 .. n
        PROVE  PageOf(addr + i - 1) \in Pages /\ memory[PageOf(addr + i - 1)] # Unreadable
    <2>1. i - 1 \in 0 .. n - 1 /\ addr + (i - 1) = addr + i - 1
      BY <1>4
    <2>2. Readable(addr + (i - 1))
      BY <1>4, <2>1
    <2> QED
      BY <2>1, <2>2 DEF Readable, PageOf
  <1>8. n < size => PageOf(addr + n) \notin Pages \/ memory[PageOf(addr + n)] = Unreadable
    BY <1>4 DEF Readable, PageOf
  <1> HIDE DEF P
  <1> QED
    BY <1>4, <1>5, <1>6, <1>7, <1>8

\* Steps that several actions share.

LEMMA CacheType == \A t \in Threads : CacheOf(t) \in Caches
  BY DEF CacheOf, Caches

LEMMA ReturnOK ==
    ASSUME TypeOK, \A u \in Threads : ReadOK(u), UNCHANGED <<kind, window>>,
           NEW t \in Threads, NEW r, NEW bytes, Return(t, r, bytes)
    PROVE  /\ pc' \in [Threads -> {"idle", "first", "first_direct", "second", "second_direct"}]
           /\ req' \in [Threads -> [addr : Nat, size : Nat]]
           /\ DOMAIN part' = Threads /\ cache_lock_' \in Caches
           /\ \A u \in Threads : ReadOK(u)'
  <1>1. /\ pc' = [pc EXCEPT ![t] = "idle"] /\ req' = [req EXCEPT ![t] = NoRequest]
        /\ part' = [part EXCEPT ![t] = <<>>]
        /\ cache_lock_' = IF cache_lock_ = t THEN 0 ELSE cache_lock_
    BY DEF Return, Goto
  <1>2. NoRequest \in [addr : Nat, size : Nat]
    BY DEF NoRequest
  <1>3. /\ pc' \in [Threads -> {"idle", "first", "first_direct", "second", "second_direct"}]
        /\ req' \in [Threads -> [addr : Nat, size : Nat]]
        /\ DOMAIN part' = Threads /\ cache_lock_' \in Caches
    BY <1>1, <1>2 DEF TypeOK, Caches
  <1>4. ASSUME NEW u \in Threads PROVE ReadOK(u)'
    <2>1. CASE u = t
      BY <1>1, <2>1 DEF ReadOK, TypeOK
    <2>2. CASE u # t
      <3>1. pc'[u] = pc[u] /\ req'[u] = req[u] /\ part'[u] = part[u] /\ ReadOK(u)
        BY <1>1, <2>2 DEF TypeOK
      <3>2. cache_lock_ = u => cache_lock_' = u
        BY <1>1, <2>2
      <3> QED
        BY <3>1, <3>2 DEF ReadOK, Shared, CacheOf, Current
    <2> QED
      BY <2>1, <2>2
  <1> QED
    BY <1>3, <1>4

LEMMA WithPageOK ==
    ASSUME TypeOK, \A c \in Caches : WindowOK(c), UNCHANGED <<kind, memory, window>>,
           NEW t \in Threads, NEW page, Obtainable(t, page), cache' = WithPage(t, page)
    PROVE  /\ Current(CacheOf(t), page, Version(t, page))
           /\ DOMAIN cache' = Caches
           /\ \A c \in Caches : WindowOK(c)'
  <1>1. CacheOf(t) \in Caches
    BY CacheType
  <1>2. Current(CacheOf(t), page, Version(t, page))
    <2>1. CASE Has(t, page)
      BY <1>1, <2>1 DEF Has, Version, WindowOK
    <2>2. CASE ~Has(t, page)
      BY <1>1, <2>2 DEF Obtainable, Version, WindowOK, Current
    <2> QED
      BY <2>1, <2>2
  <1>3. /\ DOMAIN cache' = Caches
        /\ \A c \in Caches \ {CacheOf(t)} : cache'[c] = cache[c]
        /\ cache'[CacheOf(t)] = [p \in DOMAIN cache[CacheOf(t)] \cup {page} |->
                                   IF p = page THEN Version(t, page) ELSE cache[CacheOf(t)][p]]
    BY <1>1 DEF WithPage, TypeOK
  <1>4. ASSUME NEW c \in Caches PROVE WindowOK(c)'
    <2>1. \A p \in DOMAIN cache'[c] : Current(c, p, cache'[c][p])
      <3>1. CASE c = CacheOf(t)
        BY <1>1, <1>2, <1>3, <3>1 DEF WindowOK
      <3>2. CASE c # CacheOf(t)
        BY <1>3, <3>2 DEF WindowOK
      <3> QED
        BY <3>1, <3>2
    <2> QED
      BY <2>1 DEF WindowOK, Current
  <1> QED
    BY <1>2, <1>3, <1>4

LEMMA SameWindow ==
    ASSUME \A c \in Caches : WindowOK(c), UNCHANGED <<memory, window, cache>>
    PROVE  \A c \in Caches : WindowOK(c)'
  BY DEF WindowOK, Current

\* What the process gives is legal.
LEMMA ImplReadLegal ==
    ASSUME TypeOK, NEW c \in Caches, WindowOK(c), NEW addr \in Nat, NEW size \in Nat
    PROVE  Promise!Legal([reader |-> c, addr |-> addr, size |-> size, bytes |-> ImplRead(addr, size)])
  <1> DEFINE bytes == ImplRead(addr, size)
  <1>1. /\ Len(bytes) \in 0 .. size
        /\ \A i \in 1 .. Len(bytes) :
              /\ bytes[i] = <<addr + i - 1, memory[PageOf(addr + i - 1)]>>
              /\ PageOf(addr + i - 1) \in Pages /\ memory[PageOf(addr + i - 1)] # Unreadable
        /\ Len(bytes) < size => PageOf(addr + Len(bytes)) \notin Pages \/ memory[PageOf(addr + Len(bytes))] = Unreadable
    BY ImplReadOK, SMTT(30)
  <1> HIDE DEF bytes
  <1>2. \A i \in 1 .. Len(bytes) :
           /\ bytes[i] = <<addr + i - 1, memory[PageOf(addr + i - 1)]>>
           /\ Current(c, PageOf(addr + i - 1), memory[PageOf(addr + i - 1)])
    BY <1>1 DEF WindowOK, Current
  <1>3. Len(bytes) < size => LET next == PageOf(addr + Len(bytes))
                             IN  next \notin Pages \/ Unreadable \in window[c][next]
    BY <1>1 DEF WindowOK
  <1>4. Promise!Legal([reader |-> c, addr |-> addr, size |-> size, bytes |-> bytes])
    BY <1>1, <1>2, <1>3, LegalIf, Zenon
  <1> QED
    BY <1>4 DEF bytes

Abstract == [Promise!Next]_(Promise!vars)

LEMMA LegalIsRead ==
    ASSUME Promise!Legal(result'), UNCHANGED <<memory, window>>
    PROVE  Abstract
  BY DEF Abstract, Promise!Next, Promise!Read

\* Between reads there is no result.
LEMMA NoneLegal == Promise!Legal(Promise!None)
  <1> DEFINE r == Promise!None
  <1>1. 0 \in Caches
    BY DEF Caches
  <1>2. r.reader \in Caches /\ r.addr = 0 /\ r.size = 0 /\ r.bytes = <<>>
    BY <1>1 DEF Promise!None
  <1>3. Len(r.bytes) = 0 /\ 1 .. 0 = {}
    BY <1>2
  <1> HIDE DEF r
  <1>4. Promise!Legal(r)
    BY <1>2, <1>3 DEF Promise!Legal
  <1> QED
    BY <1>4 DEF r

LEMMA ReadDirectStep ==
    ASSUME IInv, NEW t \in Threads, NEW addr \in Addrs, NEW size \in Sizes, ReadDirect(t, addr, size)
    PROVE  IInv' /\ Abstract
  <1> DEFINE r == [addr |-> addr, size |-> size]
  <1>1. /\ Return(t, r, ImplRead(addr, size)) /\ UNCHANGED <<kind, memory, cache, changes, window>>
        /\ addr \in Nat /\ size \in Nat /\ r.addr = addr /\ r.size = size
    BY CacheAssumption, Zenon DEF ReadDirect
  <1>2. result' = [reader |-> CacheOf(t), addr |-> addr, size |-> size, bytes |-> ImplRead(addr, size)]
    BY <1>1 DEF Return
  <1>3. Abstract
    BY <1>1, <1>2, CacheType, ImplReadLegal, LegalIsRead DEF IInv
  <1> HIDE DEF r
  <1>4. IInv'
    <2>1. TypeOK /\ \A u \in Threads : ReadOK(u)
      BY DEF IInv
    <2>2. TypeOK' /\ \A u \in Threads : ReadOK(u)'
      BY <1>1, <2>1, ReturnOK DEF TypeOK
    <2> QED
      BY <1>1, <2>2, SameWindow DEF IInv
  <1> QED
    BY <1>3, <1>4

LEMMA ReadCachedStep ==
    ASSUME IInv, NEW t \in Threads, NEW addr \in Addrs, NEW size \in Sizes, ReadCached(t, addr, size)
    PROVE  IInv' /\ Abstract
  <1> DEFINE r == [addr |-> addr, size |-> size]
  <1>1. /\ pc[t] = "idle" /\ size <= MaxSmall /\ (Shared => cache_lock_ = 0)
        /\ cache_lock_' = (IF Shared THEN t ELSE cache_lock_)
        /\ req' = [req EXCEPT ![t] = r] /\ pc' = [pc EXCEPT ![t] = "first"]
        /\ result' = Promise!None /\ UNCHANGED <<kind, memory, cache, part, changes, window>>
        /\ r \in [addr : Nat, size : Nat] /\ r.size = size
    BY CacheAssumption, Zenon DEF ReadCached, Goto
  <1> HIDE DEF r
  <1>2. TypeOK'
    BY <1>1 DEF IInv, TypeOK, Caches
  <1>3. ASSUME NEW u \in Threads PROVE ReadOK(u)'
    <2>1. CASE u = t
      BY <1>1, <2>1 DEF ReadOK, Shared, IInv, TypeOK
    <2>2. CASE u # t
      <3>1. pc'[u] = pc[u] /\ req'[u] = req[u] /\ ReadOK(u)
        BY <1>1, <2>2 DEF IInv, TypeOK
      <3>2. pc[u] # "idle" => ~Shared
        BY <1>1, <3>1, CacheAssumption DEF ReadOK
      <3> QED
        BY <1>1, <3>1, <3>2 DEF ReadOK, Shared, CacheOf, Current
    <2> QED
      BY <2>1, <2>2
  <1>4. IInv'
    BY <1>1, <1>2, <1>3, SameWindow, SMTT(30) DEF IInv
  <1>5. Promise!Legal(Promise!None)
    BY NoneLegal
  <1> QED
    BY <1>1, <1>4, <1>5, LegalIsRead

\* Bytes of one page.
LEMMA BytesOfOK ==
    ASSUME NEW addr \in Nat, NEW n \in Nat, NEW v
    PROVE  LET bytes == BytesOf(addr, n, v)
           IN  /\ Len(bytes) = n /\ bytes = [i \in 1 .. n |-> bytes[i]]
               /\ \A i \in 1 .. n : bytes[i] = <<addr + i - 1, v>>
  BY DEF BytesOf, Promise!Byte

\* Where a thread goes to changes nothing else of a read.
LEMMA GotoOK ==
    ASSUME IInv, NEW t \in Threads, NEW label \in {"first_direct", "second_direct"},
           pc[t] # "idle", label = "second_direct" => pc[t] = "second",
           Goto(t, label), UNCHANGED <<kind, memory, cache, cache_lock_, req, part, changes, window, result>>
    PROVE  IInv' /\ Abstract
  <1>1. TypeOK'
    BY DEF Goto, IInv, TypeOK
  <1>2. ASSUME NEW u \in Threads PROVE ReadOK(u)'
    <2>1. ReadOK(u) /\ pc'[u] = IF u = t THEN label ELSE pc[u]
      BY DEF Goto, IInv, TypeOK
    <2> QED
      BY <2>1 DEF ReadOK, Shared, CacheOf, Current
  <1>3. Abstract
    BY DEF Abstract, Promise!vars
  <1> QED
    BY <1>1, <1>2, <1>3, SameWindow DEF IInv

LEMMA FirstPageStep ==
    ASSUME IInv, NEW t \in Threads, FirstPage(t)
    PROVE  IInv' /\ Abstract
  <1> DEFINE addr == req[t].addr
             size == req[t].size
             page == PageOf(addr)
             v == Version(t, page)
             bytes == BytesOf(addr, size, v)
  <1>0. /\ pc[t] = "first" /\ UNCHANGED <<kind, memory, changes, window>>
        /\ addr \in Nat /\ size \in Nat /\ TypeOK /\ CacheOf(t) \in Caches
        /\ \A c \in Caches : WindowOK(c)
        /\ \A u \in Threads : ReadOK(u)
    BY CacheType DEF FirstPage, IInv, TypeOK
  <1>1. CASE Obtainable(t, page) /\ size <= MaxRead(addr)
    <2>1. cache' = WithPage(t, page) /\ Return(t, req[t], bytes)
      BY <1>0, <1>1, MaxReadOK DEF FirstPage, PageOf
    <2>2. Current(CacheOf(t), page, v) /\ DOMAIN cache' = Caches /\ \A c \in Caches : WindowOK(c)'
      BY <1>0, <1>1, <2>1, WithPageOK
    <2>3. IInv'
      <3>1. TypeOK' /\ \A u \in Threads : ReadOK(u)'
        BY <1>0, <2>1, <2>2, ReturnOK DEF TypeOK
      <3> QED
        BY <2>2, <3>1, SMTT(30) DEF IInv
    <2>4. result' = [reader |-> CacheOf(t), addr |-> addr, size |-> size, bytes |-> bytes]
      BY <2>1 DEF Return
    <2>5. Len(bytes) = size /\ \A i \in 1 .. size : bytes[i] = <<addr + i - 1, v>>
      BY <1>0, BytesOfOK
    <2> DEFINE w == [p \in Pages |-> v]
    <2>6. ASSUME NEW i \in 1 .. size PROVE PageOf(addr + i - 1) = page
      <3>1. i - 1 \in Nat /\ i - 1 < MaxRead(addr) /\ addr + (i - 1) = addr + i - 1
        BY <1>0, <1>1, MaxReadOK, SMTT(30)
      <3> QED
        BY <1>0, <3>1, MaxReadOK
    <2>7. \A i \in 1 .. size : /\ bytes[i] = <<addr + i - 1, w[PageOf(addr + i - 1)]>>
                              /\ Current(CacheOf(t), PageOf(addr + i - 1), w[PageOf(addr + i - 1)])
      BY <2>2, <2>5, <2>6 DEF Current
    <2> HIDE DEF w, bytes, addr, size
    <2>8. Len(bytes) \in 0 .. size /\ ~(Len(bytes) < size) /\ 1 .. size = 1 .. Len(bytes)
      BY <1>0, <2>5
    <2>9. Promise!Legal([reader |-> CacheOf(t), addr |-> addr, size |-> size, bytes |-> bytes])
      BY <1>0, <2>7, <2>8, LegalIf, Zenon
    <2> QED
      BY <1>0, <2>3, <2>4, <2>9, LegalIsRead, SMTT(30)
  <1>2. CASE Obtainable(t, page) /\ size > MaxRead(addr)
    <2>1. /\ cache' = WithPage(t, page)
          /\ part' = [part EXCEPT ![t] = BytesOf(addr, MaxRead(addr), v)]
          /\ pc' = [pc EXCEPT ![t] = "second"]
          /\ UNCHANGED <<cache_lock_, req, result>>
      BY <1>0, <1>2, MaxReadOK DEF FirstPage, PageOf, Goto
    <2>2. Current(CacheOf(t), page, v) /\ DOMAIN cache' = Caches /\ \A c \in Caches : WindowOK(c)'
      BY <1>0, <1>2, <2>1, WithPageOK, SMTT(30)
    <2>3. TypeOK'
      BY <1>0, <2>1, <2>2, SMTT(30) DEF TypeOK
    <2>4. ReadOK(t)'
      <3>1. /\ pc'[t] = "second" /\ part'[t] = BytesOf(addr, MaxRead(addr), v)
            /\ (Shared => cache_lock_ = t) /\ size <= MaxSmall
        BY <1>0, <2>1 DEF TypeOK, ReadOK
      <3>2. PICK x : x = v
        OBVIOUS
      <3>3. CacheOf(t)' = CacheOf(t) /\ Current(CacheOf(t), page, x)'
        BY <1>0, <2>1, <2>2, <3>2 DEF Current, CacheOf, Shared
      <3>4. part'[t] = BytesOf(addr, MaxRead(addr), x)
        BY <3>1, <3>2, SMTT(30)
      <3> QED
        BY <1>0, <1>2, <2>1, <3>1, <3>3, <3>4 DEF ReadOK, Shared
    <2>5. ASSUME NEW u \in Threads \ {t} PROVE ReadOK(u)'
      <3>1. pc'[u] = pc[u] /\ part'[u] = part[u] /\ ReadOK(u)
        BY <1>0, <2>1, SMTT(30) DEF TypeOK
      <3> QED
        BY <1>0, <2>1, <3>1 DEF ReadOK, Shared, CacheOf, Current
    <2>6. Abstract
      BY <1>0, <2>1 DEF Abstract, Promise!vars
    <2> QED
      BY <2>2, <2>3, <2>4, <2>5, <2>6 DEF IInv
  <1>3. CASE ~Obtainable(t, page)
    <2>1. Goto(t, "first_direct") /\ UNCHANGED <<cache, cache_lock_, req, part, result>>
      BY <1>3 DEF FirstPage, PageOf
    <2> QED
      BY <1>0, <2>1, GotoOK
  <1>4. MaxRead(addr) \in Nat
    BY <1>0, MaxReadOK
  <1> QED
    BY <1>0, <1>1, <1>2, <1>3, <1>4

LEMMA FirstDirectStep ==
    ASSUME IInv, NEW t \in Threads, FirstDirect(t)
    PROVE  IInv' /\ Abstract
  <1> DEFINE addr == req[t].addr
             size == req[t].size
  <1>1. /\ Return(t, req[t], ImplRead(addr, size)) /\ UNCHANGED <<kind, memory, cache, changes, window>>
        /\ addr \in Nat /\ size \in Nat /\ TypeOK /\ \A u \in Threads : ReadOK(u)
    BY DEF FirstDirect, IInv, TypeOK
  <1>2. result' = [reader |-> CacheOf(t), addr |-> addr, size |-> size, bytes |-> ImplRead(addr, size)]
    BY <1>1 DEF Return
  <1>3. Abstract
    BY <1>1, <1>2, CacheType, ImplReadLegal, LegalIsRead, SMTT(30) DEF IInv
  <1>4. TypeOK' /\ \A u \in Threads : ReadOK(u)'
    BY <1>1, ReturnOK DEF TypeOK
  <1> QED
    BY <1>1, <1>3, <1>4, SameWindow DEF IInv

\* The bytes of two pages, one after the other.
LEMMA Joined ==
    ASSUME NEW m \in Nat, NEW n \in Nat, NEW s, NEW t, s = [i \in 1 .. m |-> s[i]], t = [i \in 1 .. n |-> t[i]]
    PROVE  /\ Len(s \o t) = m + n
           /\ \A i \in 1 .. m : (s \o t)[i] = s[i]
           /\ \A i \in m + 1 .. m + n : (s \o t)[i] = t[i - m]
  <1> DEFINE S == {s[i] : i \in 1 .. m} \cup {t[i] : i \in 1 .. n}
  <1>1. s \in Seq(S) /\ Len(s) = m
    OBVIOUS
  <1>2. t \in Seq(S) /\ Len(t) = n
    OBVIOUS
  <1> HIDE DEF S
  <1> QED
    BY <1>1, <1>2, ConcatProperties

\* A read that has its first page, and more of the second.
LEMMA TwoPages ==
    ASSUME IInv, NEW t \in Threads, pc[t] \in {"second", "second_direct"},
           NEW n \in Nat, n <= req[t].size - Len(part[t]),
           NEW more, more = [i \in 1 .. n |-> more[i]],
           NEW v,
           \A i \in 1 .. n : more[i] = <<SecondPageOf(t) * PageSize + i - 1, v>>,
           n > 0 => Current(CacheOf(t), SecondPageOf(t), v),
           n < req[t].size - Len(part[t]) =>
              LET next == PageOf(SecondPageOf(t) * PageSize + n)
              IN  next \notin Pages \/ Unreadable \in window[CacheOf(t)][next]
    PROVE  Promise!Legal([reader |-> CacheOf(t), addr |-> req[t].addr, size |-> req[t].size, bytes |-> part[t] \o more])
  <1> DEFINE addr == req[t].addr
             size == req[t].size
             page == PageOf(addr)
             m == MaxRead(addr)
             bytes == part[t] \o more
  <1>1. /\ addr \in Nat /\ size \in Nat /\ m \in Nat /\ m > 0 /\ size > m /\ size <= PageSize /\ PageSize \in Nat
        /\ page \in Nat /\ CacheOf(t) \in Caches
        /\ SecondPageOf(t) = page + 1 /\ (page + 1) * PageSize = addr + m
    BY MaxReadOK, PageBounds, CacheType, CacheAssumption, SMTT(30) DEF IInv, TypeOK, ReadOK, SecondPageOf, PageOf
  <1>2. PICK v1 : Current(CacheOf(t), page, v1) /\ part[t] = BytesOf(addr, m, v1)
    BY DEF IInv, ReadOK
  <1> DEFINE b == SecondPageOf(t) * PageSize
  <1>a. b = addr + m
    BY <1>1
  <1> HIDE DEF m, size, page, addr, b
  <1>3. /\ Len(part[t]) = m /\ part[t] = [i \in 1 .. m |-> part[t][i]]
        /\ \A i \in 1 .. m : part[t][i] = <<addr + i - 1, v1>>
    <2> DEFINE first == BytesOf(addr, m, v1)
    <2>1. /\ Len(first) = m /\ first = [i \in 1 .. m |-> first[i]]
          /\ \A i \in 1 .. m : first[i] = <<addr + i - 1, v1>>
      BY <1>1 DEF BytesOf, Promise!Byte
    <2> HIDE DEF first
    <2>2. part[t] = first
      BY <1>2 DEF first
    <2> QED
      BY <2>1, <2>2, Zenon
  <1>4. /\ Len(bytes) = m + n
        /\ \A i \in 1 .. m : bytes[i] = part[t][i]
        /\ \A i \in m + 1 .. m + n : bytes[i] = more[i - m]
    BY <1>1, <1>3, Joined
  <1> HIDE DEF bytes
  <1>5. Len(bytes) \in 0 .. size /\ m + n <= size /\ m + n \in Nat
    <2>1. n <= size - m
      BY <1>3 DEF size
    <2> QED
      BY <1>1, <1>4, <2>1
  <1> DEFINE w == [p \in Pages |-> IF p = page THEN v1 ELSE v]
  <1>6. ASSUME NEW i \in 1 .. m
        PROVE  /\ bytes[i] = <<addr + i - 1, w[PageOf(addr + i - 1)]>>
               /\ Current(CacheOf(t), PageOf(addr + i - 1), w[PageOf(addr + i - 1)])
    <2>1. i - 1 \in Nat /\ i - 1 < m /\ addr + (i - 1) = addr + i - 1
      BY <1>1, SMTT(30)
    <2>2. PageOf(addr + i - 1) = page
      BY <1>1, <2>1, MaxReadOK DEF m, page, addr
    <2>3. w[page] = v1
      BY <1>2 DEF Current
    <2> HIDE DEF w
    <2> QED
      BY <1>2, <1>3, <1>4, <2>2, <2>3
  <1>7. ASSUME NEW i \in m + 1 .. m + n
        PROVE  /\ bytes[i] = <<addr + i - 1, w[PageOf(addr + i - 1)]>>
               /\ Current(CacheOf(t), PageOf(addr + i - 1), w[PageOf(addr + i - 1)])
    <2>1. i - m \in 1 .. n /\ i - m - 1 \in Nat /\ i - m - 1 < PageSize /\ n > 0
      <3>1. i \in Nat /\ m + 1 <= i /\ i <= m + n
        BY <1>1
      <3>2. m \in Nat /\ m > 0 /\ m + n <= PageSize /\ PageSize \in Nat
        BY <1>1, <1>5
      <3> QED
        BY <3>1, <3>2
    <2>2. bytes[i] = <<b + (i - m) - 1, v>>
      BY <1>4, <2>1, Zenon DEF b
    <2>3. b + (i - m) - 1 = addr + i - 1 /\ b + (i - m - 1) = addr + i - 1
      BY <1>1, <1>a
    <2>4. PageOf(addr + i - 1) = page + 1
      <3>1. PageOf((PageOf(addr) + 1) * PageSize + (i - m - 1)) = PageOf(addr) + 1
        BY <1>1, <2>1, SecondPages
      <3>2. b = (PageOf(addr) + 1) * PageSize
        BY <1>1 DEF b, page
      <3> QED
        BY <2>3, <3>1, <3>2 DEF page
    <2>5. Current(CacheOf(t), page + 1, v) /\ page + 1 # page
      BY <1>1, <2>1, SMTT(30)
    <2>6. w[page + 1] = v
      BY <2>5 DEF Current
    <2> HIDE DEF w
    <2> QED
      BY <2>2, <2>3, <2>4, <2>5, <2>6
  <1>8. ASSUME NEW i \in 1 .. Len(bytes)
        PROVE  /\ bytes[i] = <<addr + i - 1, w[PageOf(addr + i - 1)]>>
               /\ Current(CacheOf(t), PageOf(addr + i - 1), w[PageOf(addr + i - 1)])
    <2>1. i \in 1 .. m \/ i \in m + 1 .. m + n
      BY <1>1, <1>4
    <2> QED
      BY <2>1, <1>6, <1>7, Zenon
  <1>9. Len(bytes) < size =>
           LET next == PageOf(addr + Len(bytes))
           IN  next \notin Pages \/ Unreadable \in window[CacheOf(t)][next]
    <2> SUFFICES ASSUME Len(bytes) < size
                 PROVE  LET next == PageOf(addr + Len(bytes))
                        IN  next \notin Pages \/ Unreadable \in window[CacheOf(t)][next]
      OBVIOUS
    <2>1. n < size - Len(part[t]) /\ addr + Len(bytes) = b + n
      BY <1>1, <1>a, <1>3, <1>4, SMTT(30)
    <2> QED
      BY <2>1 DEF size, b
  <1> HIDE DEF w
  <1>10. Promise!Legal([reader |-> CacheOf(t), addr |-> addr, size |-> size, bytes |-> bytes])
    BY <1>1, <1>5, <1>8, <1>9, LegalIf, Zenon
  <1> QED
    BY <1>10 DEF bytes, size, addr

LEMMA RestOK ==
    ASSUME IInv, NEW t \in Threads, pc[t] \in {"second", "second_direct"}
    PROVE  /\ req[t].size - Len(part[t]) \in Nat /\ req[t].size - Len(part[t]) <= PageSize
           /\ PageSize \in Nat /\ SecondPageOf(t) * PageSize \in Nat
           /\ \A k \in Nat : k < PageSize => PageOf(SecondPageOf(t) * PageSize + k) = SecondPageOf(t)
  <1> DEFINE addr == req[t].addr
             size == req[t].size
             m == MaxRead(addr)
  <1>1. /\ addr \in Nat /\ size \in Nat /\ m \in Nat /\ size > m /\ size <= PageSize /\ PageSize \in Nat
        /\ SecondPageOf(t) = PageOf(addr) + 1 /\ (PageOf(addr) + 1) * PageSize = addr + m
    BY MaxReadOK, CacheAssumption DEF IInv, TypeOK, ReadOK, SecondPageOf, PageOf
  <1>2. PICK v : part[t] = BytesOf(addr, m, v)
    BY DEF IInv, ReadOK
  <1> HIDE DEF addr, size, m
  <1>3. Len(part[t]) = m
    BY <1>1, <1>2 DEF BytesOf
  <1>4. size - m \in Nat /\ size - m <= PageSize /\ addr + m \in Nat
    BY <1>1
  <1>5. \A k \in Nat : k < PageSize => PageOf(SecondPageOf(t) * PageSize + k) = SecondPageOf(t)
    BY <1>1, SecondPages
  <1> QED
    BY <1>1, <1>3, <1>4, <1>5 DEF size

LEMMA SecondPageStep ==
    ASSUME IInv, NEW t \in Threads, SecondPage(t)
    PROVE  IInv' /\ Abstract
  <1> DEFINE page == SecondPageOf(t)
             rest == req[t].size - Len(part[t])
             v == Version(t, page)
             more == BytesOf(page * PageSize, rest, v)
  <1>0. /\ pc[t] = "second" /\ UNCHANGED <<kind, memory, changes, window>> /\ TypeOK
        /\ \A c \in Caches : WindowOK(c)
        /\ \A u \in Threads : ReadOK(u)
    BY DEF SecondPage, IInv
  <1>1. CASE Obtainable(t, page)
    <2>1. cache' = WithPage(t, page) /\ Return(t, req[t], part[t] \o more)
      BY <1>1, SMTT(30) DEF SecondPage
    <2>2. Current(CacheOf(t), page, v) /\ DOMAIN cache' = Caches /\ \A c \in Caches : WindowOK(c)'
      BY <1>0, <1>1, <2>1, WithPageOK
    <2>3. IInv'
      <3>1. TypeOK' /\ \A u \in Threads : ReadOK(u)'
        BY <1>0, <2>1, <2>2, ReturnOK, SMTT(30) DEF TypeOK
      <3> QED
        BY <2>2, <3>1, SMTT(30) DEF IInv
    <2>4. result' = [reader |-> CacheOf(t), addr |-> req[t].addr, size |-> req[t].size, bytes |-> part[t] \o more]
      BY <2>1, SMTT(30) DEF Return
    <2>5. rest \in Nat /\ page * PageSize \in Nat
      BY <1>0, RestOK
    <2>6. /\ more = [i \in 1 .. rest |-> more[i]]
          /\ \A i \in 1 .. rest : more[i] = <<page * PageSize + i - 1, v>>
      BY <2>5 DEF BytesOf, Promise!Byte
    <2> HIDE DEF more, v, rest
    <2>7. rest <= rest /\ ~(rest < rest)
      BY <2>5
    <2>8. Promise!Legal(result')
      <3>1. rest = req[t].size - Len(part[t])
        BY DEF rest
      <3> QED
        BY <1>0, <2>2, <2>4, <2>5, <2>6, <2>7, <3>1, TwoPages, Zenon
    <2> QED
      BY <1>0, <2>3, <2>8, LegalIsRead
  <1>2. CASE ~Obtainable(t, page)
    <2>1. Goto(t, "second_direct") /\ UNCHANGED <<cache, cache_lock_, req, part, result>>
      BY <1>2 DEF SecondPage
    <2> QED
      BY <1>0, <2>1, GotoOK
  <1> QED
    BY <1>1, <1>2

LEMMA SecondDirectStep ==
    ASSUME IInv, NEW t \in Threads, SecondDirect(t)
    PROVE  IInv' /\ Abstract
  <1> DEFINE page == SecondPageOf(t)
             rest == req[t].size - Len(part[t])
             more == ImplRead(page * PageSize, rest)
             n == Len(more)
             v == memory[page]
  <1>1. /\ pc[t] = "second_direct" /\ Return(t, req[t], part[t] \o more)
        /\ UNCHANGED <<kind, memory, cache, changes, window>> /\ TypeOK /\ \A u \in Threads : ReadOK(u)
    BY DEF SecondDirect, IInv
  <1>2. IInv'
    <2>1. TypeOK' /\ \A u \in Threads : ReadOK(u)'
      BY <1>1, ReturnOK, SMTT(30) DEF TypeOK
    <2> QED
      BY <1>1, <2>1, SameWindow, SMTT(30) DEF IInv
  <1>3. result' = [reader |-> CacheOf(t), addr |-> req[t].addr, size |-> req[t].size, bytes |-> part[t] \o more]
    BY <1>1 DEF Return
  <1>4. /\ rest \in Nat /\ rest <= PageSize /\ PageSize \in Nat /\ page * PageSize \in Nat
        /\ \A k \in Nat : k < PageSize => PageOf(page * PageSize + k) = page
    BY <1>1, RestOK
  <1>5. /\ n \in 0 .. rest /\ more = [i \in 1 .. n |-> more[i]]
        /\ \A i \in 1 .. n :
              /\ more[i] = <<page * PageSize + i - 1, memory[PageOf(page * PageSize + i - 1)]>>
              /\ PageOf(page * PageSize + i - 1) \in Pages /\ memory[PageOf(page * PageSize + i - 1)] # Unreadable
        /\ n < rest => PageOf(page * PageSize + n) \notin Pages \/ memory[PageOf(page * PageSize + n)] = Unreadable
    BY <1>4, ImplReadOK, Zenon
  <1> DEFINE b == page * PageSize
  <1> HIDE DEF more, n, rest, page, b
  <1>7. ASSUME NEW i \in 1 .. n
        PROVE  more[i] = <<b + i - 1, v>> /\ page \in Pages /\ v # Unreadable
    <2>1. i - 1 \in Nat /\ i - 1 < PageSize /\ b + (i - 1) = b + i - 1
      BY <1>4, <1>5 DEF b
    <2>2. PageOf(b + i - 1) = page
      BY <1>4, <2>1 DEF b
    <2> QED
      BY <1>5, <2>2 DEF b
  <1>8. \A p \in Pages : memory[p] \in window[CacheOf(t)][p]
    BY CacheType DEF IInv, WindowOK
  <1>9. n > 0 => Current(CacheOf(t), page, v)
    <2> SUFFICES ASSUME n > 0 PROVE Current(CacheOf(t), page, v)
      OBVIOUS
    <2>1. 1 \in 1 .. n
      BY <1>4, <1>5
    <2> QED
      BY <1>7, <1>8, <2>1 DEF Current
  <1>10. n < rest => LET next == PageOf(b + n)
                     IN  next \notin Pages \/ Unreadable \in window[CacheOf(t)][next]
    BY <1>5, <1>8 DEF b
  <1>11. n \in Nat /\ n <= rest
    BY <1>4, <1>5, SMTT(30)
  <1> HIDE DEF v
  <1>a. \A i \in 1 .. n : more[i] = <<SecondPageOf(t) * PageSize + i - 1, v>>
    BY <1>7, Zenon DEF b, page
  <1>b. n > 0 => Current(CacheOf(t), SecondPageOf(t), v)
    BY <1>9, Zenon DEF page
  <1>c. n < req[t].size - Len(part[t]) =>
           LET next == PageOf(SecondPageOf(t) * PageSize + n)
           IN  next \notin Pages \/ Unreadable \in window[CacheOf(t)][next]
    BY <1>10, Zenon DEF b, page, rest
  <1>d. n \in Nat /\ n <= req[t].size - Len(part[t])
    BY <1>11, Zenon DEF rest
  <1>12. Promise!Legal(result')
    BY <1>1, <1>3, <1>5, <1>a, <1>b, <1>c, <1>d, TwoPages, Zenon
  <1> QED
    BY <1>1, <1>2, <1>12, LegalIsRead

\* Nobody is in a read of the cache that is cleared.
LEMMA ClearStep ==
    ASSUME IInv, NEW t \in Threads, Clear(t)
    PROVE  IInv' /\ Abstract
  <1> DEFINE c == CacheOf(t)
  <1>1. /\ pc[t] = "idle" /\ (Shared => cache_lock_ = 0) /\ c \in Caches /\ TypeOK
        /\ cache' = [cache EXCEPT ![c] = NoPages]
        /\ window' = [window EXCEPT ![c] = [p \in Pages |-> {memory[p]}]]
        /\ UNCHANGED <<kind, memory, cache_lock_, pc, req, part, changes, result>>
    BY CacheType DEF Clear, Emptied, IInv
  <1>2. TypeOK'
    <2>1. [p \in Pages |-> {memory[p]}] \in [Pages -> SUBSET Content]
      BY <1>1 DEF TypeOK
    <2>2. window' \in [Caches -> [Pages -> SUBSET Content]] /\ DOMAIN cache' = Caches
      BY <1>1, <2>1 DEF TypeOK
    <2> QED
      BY <1>1, <2>2 DEF TypeOK
  <1>3. ASSUME NEW d \in Caches PROVE WindowOK(d)'
    <2>1. CASE d = c
      <3>1. cache'[d] = NoPages /\ window'[d] = [p \in Pages |-> {memory[p]}]
        BY <1>1, <2>1 DEF TypeOK
      <3> QED
        BY <1>1, <3>1 DEF WindowOK, NoPages
    <2>2. CASE d # c
      <3>1. cache'[d] = cache[d] /\ window'[d] = window[d] /\ WindowOK(d)
        BY <1>1, <2>2, SMTT(30) DEF TypeOK, IInv
      <3> QED
        BY <1>1, <3>1 DEF WindowOK, Current
    <2> QED
      BY <2>1, <2>2
  <1>4. ASSUME NEW u \in Threads PROVE ReadOK(u)'
    <2>1. ReadOK(u)
      BY SMTT(30) DEF IInv
    <2>2. pc[u] # "idle" => CacheOf(u) # c
      BY <1>1, <2>1, CacheAssumption, Zenon DEF ReadOK, CacheOf
    <2>3. pc[u] # "idle" => window'[CacheOf(u)] = window[CacheOf(u)]
      BY <1>1, <2>2, CacheType DEF TypeOK
    <2> QED
      BY <1>1, <2>1, <2>3 DEF ReadOK, Shared, CacheOf, Current
  <1>5. Abstract
    BY <1>1, Zenon DEF Abstract, Promise!Next, Promise!Clear, Promise!Pages, Pages
  <1> QED
    BY <1>2, <1>3, <1>4, <1>5 DEF IInv

LEMMA ChangeStep ==
    ASSUME IInv, NEW p \in Pages, NEW v \in Content, Change(p, v)
    PROVE  IInv' /\ Abstract
  <1>1. /\ memory' = [memory EXCEPT ![p] = v]
        /\ window' = [c \in Caches |-> [window[c] EXCEPT ![p] = @ \cup {v}]]
        /\ UNCHANGED <<kind, cache, cache_lock_, pc, req, part, result>> /\ TypeOK
    BY DEF Change, IInv
  <1>2. TypeOK'
    <2>1. ASSUME NEW c \in Caches PROVE [window[c] EXCEPT ![p] = @ \cup {v}] \in [Pages -> SUBSET Content]
      BY <1>1 DEF TypeOK
    <2>2. window' \in [Caches -> [Pages -> SUBSET Content]] /\ memory' \in [Pages -> Content]
      BY <1>1, <2>1 DEF TypeOK
    <2> QED
      BY <1>1, <2>2 DEF TypeOK
  <1>3. \A c \in Caches : \A q \in Pages :
           window[c][q] \subseteq window'[c][q] /\ (memory'[q] = memory[q] \/ memory'[q] \in window'[c][q])
    BY <1>1 DEF TypeOK
  <1>4. ASSUME NEW c \in Caches PROVE WindowOK(c)'
    <2>1. WindowOK(c)
      BY DEF IInv
    <2> QED
      BY <1>1, <1>3, <2>1, Zenon DEF WindowOK, Current
  <1>5. ASSUME NEW u \in Threads PROVE ReadOK(u)'
    <2>1. ReadOK(u) /\ CacheOf(u) \in Caches
      BY CacheType, SMTT(30) DEF IInv
    <2> QED
      BY <1>1, <1>3, <2>1 DEF ReadOK, Shared, CacheOf, Current
  <1>6. Abstract
    BY <1>1, Zenon DEF Abstract, Promise!Next, Promise!Change, Promise!Pages, Pages, Content
  <1> QED
    BY <1>2, <1>4, <1>5, <1>6 DEF IInv

LEMMA InvInit == Init => IInv
  <1> SUFFICES ASSUME Init PROVE IInv
    OBVIOUS
  <1>1. /\ memory \in [Pages -> Content]
        /\ window = [c \in Caches |-> [p \in Pages |-> {memory[p]}]]
    BY DEF Init, Promise!Init, Promise!Pages, Pages, Content
  <1>2. NoRequest \in [addr : Nat, size : Nat]
    BY DEF NoRequest
  <1>3. TypeOK
    BY <1>1, <1>2 DEF Init, TypeOK, Caches
  <1>4. \A c \in Caches : WindowOK(c)
    BY <1>1 DEF Init, WindowOK, NoPages
  <1>5. \A t \in Threads : ReadOK(t)
    BY DEF Init, ReadOK
  <1> QED
    BY <1>3, <1>4, <1>5 DEF IInv

LEMMA StutterStep == ASSUME IInv, UNCHANGED vars PROVE IInv' /\ Abstract
  <1>1. TypeOK' /\ (\A c \in Caches : WindowOK(c)') /\ (\A t \in Threads : ReadOK(t)')
    BY DEF vars, IInv, TypeOK, WindowOK, ReadOK, Shared, CacheOf, Current
  <1>2. Abstract
    BY DEF vars, Abstract, Promise!vars
  <1> QED
    BY <1>1, <1>2 DEF IInv

(* Both caches of Memory.cpp implement MemorySpec, for any number of threads and pages, any page  *)
(* size that is no smaller than the largest cached read, and any writes of the process: what a    *)
(* read returns was in the process since the last Clear, and nothing readable is missing.         *)
THEOREM CacheImplementsSpec == Spec => KeepsPromise
  <1>1. Init => IInv
    BY InvInit
  <1>2. Init => Promise!Init
    BY DEF Init
  <1>3. IInv /\ [Next]_vars => IInv' /\ Abstract
    <2> SUFFICES ASSUME IInv, [Next]_vars PROVE IInv' /\ Abstract
      OBVIOUS
    <2>1. ASSUME NEW t \in Threads, NEW addr \in Addrs, NEW size \in Sizes,
                 ReadDirect(t, addr, size) \/ ReadCached(t, addr, size)
          PROVE  IInv' /\ Abstract
      BY <2>1, ReadDirectStep, ReadCachedStep
    <2>2. ASSUME NEW t \in Threads, FirstPage(t) \/ FirstDirect(t) \/ SecondPage(t) \/ SecondDirect(t) \/ Clear(t)
          PROVE  IInv' /\ Abstract
      BY <2>2, FirstPageStep, FirstDirectStep, SecondPageStep, SecondDirectStep, ClearStep
    <2>3. ASSUME NEW p \in Pages, NEW v \in Versions \cup {Unreadable}, Change(p, v)
          PROVE  IInv' /\ Abstract
      BY <2>3, ChangeStep DEF Content
    <2> QED
      BY <2>1, <2>2, <2>3, StutterStep DEF Next
  <1>4. Abstract => [Promise!Next]_(Promise!vars)
    BY DEF Abstract
  <1> QED
    BY <1>1, <1>2, <1>3, <1>4, PTL DEF Spec, KeepsPromise, Promise!Spec
====
