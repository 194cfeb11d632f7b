--------------------------- MODULE DexFileProofs ---------------------------
(***************************************************************************)
(* Proofs about DexFile, for any number of threads, maps and loads.        *)
(***************************************************************************)
EXTENDS DexFile, SequenceTheorems, TLAPS

Api == [key : Keys, content : Contents, shared : BOOLEAN]

TypeOK ==
    /\ disk \in [Keys -> Contents] /\ copy \in [Keys -> Contents]
    /\ apis \in Seq(Api)
    /\ g_mapped_dex_files \in [Keys -> 0 .. Len(apis)]
    /\ pc \in [Threads -> {"idle", "disk", "load", "copy"}]
    /\ DOMAIN map = Threads /\ DOMAIN files = Threads
    /\ \A t \in Threads : pc[t] # "idle" => map[t] \in Maps

\* A DexFile has one of the apis, and keeps methods of that.
FileOK(f) == f # NoFile =>
    /\ f = [base |-> f.base, size |-> f.size, api |-> f.api, symbols |-> f.symbols]
    /\ f.base \in Nat /\ f.api \in 1 .. Len(apis)
    /\ f.symbols \subseteq apis[f.api].content

\* A shared api that is in use is the one in the cache; this is what the weak_ptr is for.
Listed(f) == f # NoFile /\ apis[f.api].shared => g_mapped_dex_files[apis[f.api].key] = f.api

\* A thread that loads a file holds the lock, and nobody has the file.
Loading(t) == pc[t] = "load" =>
    /\ g_lock = t
    /\ \A u \in Threads : files[u] # NoFile => files[u].api # g_mapped_dex_files[map[t].key]

\* The inductive invariant.
IInv ==
    /\ TypeOK
    /\ \A t \in Threads : FileOK(files[t]) /\ Listed(files[t]) /\ Loading(t)
    /\ DexFilesExact

LEMMA NoFileApi == NoFile.api = 0
  BY DEF NoFile

LEMMA ApiType ==
    ASSUME IInv, NEW u \in Threads, files[u] # NoFile
    PROVE  files[u].api \in 1 .. Len(apis) /\ files[u].api # 0 /\ Len(apis) \in Nat
  <1>1. files[u].api \in 1 .. Len(apis) /\ Len(apis) \in Nat
    BY DEF IInv, FileOK, TypeOK
  <1> QED
    BY <1>1

LEMMA InvInit == ASSUME DexAssumption PROVE Init => IInv
  <1> SUFFICES ASSUME Init PROVE IInv
    OBVIOUS
  <1>1. TypeOK
    BY DEF Init, TypeOK
  <1>2. \A t \in Threads : FileOK(files[t]) /\ Listed(files[t]) /\ Loading(t)
    BY DEF Init, FileOK, Listed, Loading
  <1>3. DexFilesExact
    BY NoFileApi DEF Init, DexFilesExact
  <1> QED
    BY <1>1, <1>2, <1>3 DEF IInv

LEMMA CreateInv ==
    ASSUME DexAssumption, IInv, NEW t \in Threads, NEW m \in Maps, Create(t, m)
    PROVE  IInv'
  <1> USE DEF Create, Goto
  <1>1. TypeOK'
    BY DEF IInv, TypeOK
  <1>2. \A u \in Threads : FileOK(files[u])' /\ Listed(files[u])'
    BY DEF IInv, FileOK, Listed
  <1>3. ASSUME NEW u \in Threads PROVE Loading(u)'
    <2>1. pc'[u] = "load" => u # t /\ pc[u] = "load" /\ map'[u] = map[u]
      BY DEF IInv, TypeOK
    <2> QED
      BY <2>1 DEF IInv, Loading
  <1>4. DexFilesExact'
    BY DEF IInv, DexFilesExact
  <1> QED
    BY <1>1, <1>2, <1>3, <1>4 DEF IInv

LEMMA CreateRefusedInv ==
    ASSUME IInv, NEW t \in Threads, NEW m \in Maps, CreateRefused(t, m)
    PROVE  IInv'
  BY DEF CreateRefused, IInv, TypeOK, FileOK, Listed, Loading, DexFilesExact

\* What Made does, for the thread and for the others.
LEMMA MadeEffect ==
    ASSUME DexAssumption, TypeOK, NEW t \in Threads, NEW api \in Nat \ {0}, map[t] \in Maps, Made(t, api)
    PROVE  /\ DOMAIN files' = Threads /\ DOMAIN map' = Threads
           /\ pc' = [pc EXCEPT ![t] = "idle"]
           /\ g_lock' = IF g_lock = t THEN 0 ELSE g_lock
           /\ files'[t] = [base |-> files'[t].base, size |-> files'[t].size, api |-> api, symbols |-> {}]
           /\ files'[t].api = api /\ files'[t].symbols = {} /\ files'[t].base \in Nat /\ files'[t] # NoFile
           /\ \A u \in Threads \ {t} : files'[u] = files[u] /\ map'[u] = map[u]
  <1> DEFINE f == [base |-> map[t].base, size |-> map[t].size, api |-> api, symbols |-> {}]
  <1>1. /\ files' = [files EXCEPT ![t] = f] /\ map' = [map EXCEPT ![t] = NoMap]
        /\ pc' = [pc EXCEPT ![t] = "idle"] /\ g_lock' = IF g_lock = t THEN 0 ELSE g_lock
    BY DEF Made, Return, Goto
  <1>2. f.api = api /\ f.symbols = {} /\ f.base \in Nat
    BY DEF DexAssumption
  <1>3. f # NoFile
    BY <1>2, NoFileApi
  <1>4. files'[t] = f
    BY <1>1 DEF TypeOK
  <1> QED
    BY <1>1, <1>2, <1>3, <1>4 DEF TypeOK

\* Nobody else loads while a thread has the lock, or while it is free.
LEMMA OneLoads ==
    ASSUME DexAssumption, IInv, NEW u \in Threads, pc[u] = "load"
    PROVE  g_lock = u /\ g_lock # 0
  BY DEF DexAssumption, IInv, Loading

LEMMA KeyType == \A m \in Maps : m.key \in Keys
  BY DEF Keys

LEMMA LookUpInv ==
    ASSUME DexAssumption, IInv, NEW t \in Threads, LookUp(t)
    PROVE  IInv'
  <1> DEFINE api == g_mapped_dex_files[map[t].key]
  <1>0. /\ TypeOK /\ pc[t] = "disk" /\ g_lock = 0 /\ map[t] \in Maps /\ map[t].key \in Keys
        /\ api \in 0 .. Len(apis) /\ Len(apis) \in Nat
        /\ answer' = NoAnswer /\ UNCHANGED <<disk, copy, apis, g_mapped_dex_files>>
    BY KeyType DEF LookUp, IInv, TypeOK
  <1>1. \A u \in Threads : pc[u] # "load"
    BY <1>0, OneLoads
  <1> HIDE DEF api
  <1>2. CASE api # 0 /\ InUse(api)
    <2>1. Made(t, api) /\ api \in Nat \ {0}
      BY <1>0, <1>2 DEF LookUp, api
    <2>2. /\ DOMAIN files' = Threads /\ DOMAIN map' = Threads /\ pc' = [pc EXCEPT ![t] = "idle"]
          /\ files'[t] = [base |-> files'[t].base, size |-> files'[t].size, api |-> api, symbols |-> {}]
          /\ files'[t].api = api /\ files'[t].symbols = {} /\ files'[t].base \in Nat
          /\ \A u \in Threads \ {t} : files'[u] = files[u] /\ map'[u] = map[u]
      BY <1>0, <2>1, MadeEffect
    <2>3. TypeOK'
      BY <1>0, <2>2 DEF TypeOK
    <2>4. PICK v \in Threads : files[v].api = api
      BY <1>2 DEF InUse
    <2>5. apis[api].shared => g_mapped_dex_files[apis[api].key] = api
      BY <1>2, <2>4, NoFileApi DEF IInv, Listed
    <2>6. \A u \in Threads : FileOK(files[u])' /\ Listed(files[u])'
      <3>1. FileOK(files[t])' /\ Listed(files[t])'
        BY <1>0, <1>2, <2>2, <2>5 DEF FileOK, Listed
      <3>2. ASSUME NEW u \in Threads \ {t} PROVE FileOK(files[u])' /\ Listed(files[u])'
        <4>1. files'[u] = files[u] /\ FileOK(files[u]) /\ Listed(files[u])
          BY <2>2 DEF IInv
        <4> QED
          BY <1>0, <4>1 DEF FileOK, Listed
      <3> QED
        BY <3>1, <3>2
    <2>7. \A u \in Threads : Loading(u)'
      BY <1>0, <1>1, <2>2 DEF Loading, TypeOK
    <2>8. DexFilesExact'
      BY <1>0, <2>6, NoFileApi DEF DexFilesExact, Listed
    <2> QED
      BY <2>3, <2>6, <2>7, <2>8 DEF IInv
  <1>3. CASE ~(api # 0 /\ InUse(api))
    <2>1. g_lock' = t /\ pc' = [pc EXCEPT ![t] = "load"] /\ UNCHANGED <<files, map>>
      BY <1>3 DEF LookUp, Goto, api
    <2>2. TypeOK'
      BY <1>0, <2>1 DEF TypeOK
    <2>3. \A u \in Threads : FileOK(files[u])' /\ Listed(files[u])'
      BY <1>0, <2>1 DEF FileOK, Listed, IInv
    <2>4. \A u \in Threads : files[u] # NoFile => files[u].api # api
      <3>1. \A u \in Threads : files[u] # NoFile => files[u].api # 0
        BY ApiType
      <3> QED
        BY <1>3, <3>1 DEF InUse
    <2>5. \A u \in Threads : Loading(u)'
      BY <1>0, <1>1, <2>1, <2>4 DEF Loading, TypeOK, api
    <2>6. DexFilesExact'
      BY <1>0, <2>3, <2>1 DEF DexFilesExact, IInv
    <2> QED
      BY <2>2, <2>3, <2>5, <2>6 DEF IInv
  <1> QED
    BY <1>2, <1>3

\* An api is made and listed, or is a copy that is not: the files that threads have keep theirs.
LEMMA AppendKeeps ==
    ASSUME TypeOK, NEW a \in Api, apis' = Append(apis, a)
    PROVE  /\ apis' \in Seq(Api) /\ Len(apis) \in Nat /\ Len(apis') = Len(apis) + 1
           /\ apis'[Len(apis) + 1] = a
           /\ \A i \in 1 .. Len(apis) : apis'[i] = apis[i]
  BY DEF TypeOK

LEMMA LoadInv ==
    ASSUME DexAssumption, IInv, NEW t \in Threads, Load(t)
    PROVE  IInv'
  <1> DEFINE key == map[t].key
             api == Len(apis) + 1
  <1>0. /\ TypeOK /\ pc[t] = "load" /\ g_lock = t /\ map[t] \in Maps /\ key \in Keys
        /\ Len(apis) \in Nat /\ disk[key] \in Contents
        /\ answer' = NoAnswer /\ UNCHANGED <<disk, copy>>
        /\ \A u \in Threads : files[u] # NoFile => files[u].api # g_mapped_dex_files[key]
    BY KeyType DEF Load, IInv, TypeOK, Loading
  <1>1. \A u \in Threads \ {t} : pc[u] # "load"
    BY <1>0, OneLoads
  <1>2. CASE disk[key] # {}
    <2> DEFINE a == [key |-> key, content |-> disk[key], shared |-> TRUE]
    <2>1. /\ apis' = Append(apis, a)
          /\ g_mapped_dex_files' = [g_mapped_dex_files EXCEPT ![key] = api]
          /\ Made(t, api)
      BY <1>2 DEF Load
    <2>2. a \in Api /\ a.key = key
      BY <1>0 DEF Api
    <2> HIDE DEF a, key
    <2>3. /\ apis' \in Seq(Api) /\ Len(apis') = Len(apis) + 1 /\ apis'[api] = a
          /\ \A i \in 1 .. Len(apis) : apis'[i] = apis[i]
      BY <1>0, <2>1, <2>2, AppendKeeps
    <2>4. /\ DOMAIN files' = Threads /\ DOMAIN map' = Threads /\ pc' = [pc EXCEPT ![t] = "idle"]
          /\ files'[t] = [base |-> files'[t].base, size |-> files'[t].size, api |-> api, symbols |-> {}]
          /\ files'[t].api = api /\ files'[t].symbols = {} /\ files'[t].base \in Nat
          /\ \A u \in Threads \ {t} : files'[u] = files[u] /\ map'[u] = map[u]
      BY <1>0, <2>1, MadeEffect
    <2>5. TypeOK'
      BY <1>0, <2>1, <2>3, <2>4 DEF TypeOK
    <2>6. \A u \in Threads : FileOK(files[u])' /\ Listed(files[u])'
      <3>1. FileOK(files[t])'
        BY <1>0, <2>3, <2>4 DEF FileOK
      <3>2. Listed(files[t])'
        BY <1>0, <2>1, <2>2, <2>3, <2>4 DEF Listed, TypeOK
      <3>3. ASSUME NEW u \in Threads \ {t}, files[u] # NoFile
            PROVE  FileOK(files[u])' /\ Listed(files[u])'
        <4>1. files'[u] = files[u] /\ FileOK(files[u]) /\ Listed(files[u])
          BY <2>4 DEF IInv
        <4>2. files[u].api \in 1 .. Len(apis) /\ apis'[files[u].api] = apis[files[u].api]
          BY <2>3, <3>3, ApiType
        <4>3. FileOK(files[u])'
          BY <1>0, <2>3, <3>3, <4>1, <4>2 DEF FileOK
        <4>4. apis[files[u].api].shared =>
                 /\ apis[files[u].api].key # key
                 /\ g_mapped_dex_files[apis[files[u].api].key] = files[u].api
          BY <1>0, <3>3, <4>1 DEF Listed
        <4>5. apis[files[u].api].key \in Keys
          <5>1. apis[files[u].api] \in Api
            BY <1>0, <4>2, ElementOfSeq DEF TypeOK
          <5> QED
            BY <5>1 DEF Api
        <4>6. Listed(files[u])'
          BY <1>0, <2>1, <4>1, <4>2, <4>4, <4>5 DEF Listed, TypeOK
        <4> QED
          BY <4>3, <4>6
      <3>4. ASSUME NEW u \in Threads \ {t}, files[u] = NoFile
            PROVE  FileOK(files[u])' /\ Listed(files[u])'
        BY <2>4, <3>4 DEF FileOK, Listed, NoFile
      <3> QED
        BY <3>1, <3>2, <3>3, <3>4
    <2>7. \A u \in Threads : Loading(u)'
      BY <1>0, <1>1, <2>4 DEF Loading, TypeOK
    <2>8. DexFilesExact'
      BY <1>0, <2>6, NoFileApi DEF DexFilesExact, Listed
    <2> QED
      BY <2>5, <2>6, <2>7, <2>8 DEF IInv
  <1>3. CASE disk[key] = {}
    <2>1. /\ g_lock' = 0 /\ pc' = [pc EXCEPT ![t] = "copy"]
          /\ UNCHANGED <<apis, g_mapped_dex_files, files, map>>
      BY <1>3 DEF Load, Goto
    <2>2. TypeOK'
      BY <1>0, <2>1 DEF TypeOK
    <2>3. \A u \in Threads : FileOK(files[u])' /\ Listed(files[u])'
      BY <1>0, <2>1 DEF FileOK, Listed, IInv
    <2>4. \A u \in Threads : Loading(u)'
      BY <1>0, <1>1, <2>1 DEF Loading, TypeOK
    <2>5. DexFilesExact'
      BY <1>0, <2>1 DEF DexFilesExact, IInv
    <2> QED
      BY <2>2, <2>3, <2>4, <2>5 DEF IInv
  <1> QED
    BY <1>2, <1>3

LEMMA CopyInv ==
    ASSUME DexAssumption, IInv, NEW t \in Threads, Copy(t)
    PROVE  IInv'
  <1> DEFINE key == map[t].key
             api == Len(apis) + 1
  <1>0. /\ TypeOK /\ pc[t] = "copy" /\ map[t] \in Maps /\ key \in Keys
        /\ Len(apis) \in Nat /\ copy[key] \in Contents
        /\ answer' = NoAnswer /\ UNCHANGED <<disk, copy, g_mapped_dex_files>>
    BY KeyType DEF Copy, IInv, TypeOK
  <1>1. \A u \in Threads : pc[u] = "load" =>
           u # t /\ g_lock = u /\ map[u].key \in Keys /\ g_mapped_dex_files[map[u].key] \in 0 .. Len(apis)
    BY <1>0, OneLoads, KeyType DEF TypeOK
  <1>2. CASE copy[key] # {}
    <2> DEFINE a == [key |-> key, content |-> copy[key], shared |-> FALSE]
    <2>1. apis' = Append(apis, a) /\ Made(t, api)
      BY <1>2 DEF Copy
    <2>2. a \in Api /\ ~a.shared
      BY <1>0 DEF Api
    <2> HIDE DEF a, key
    <2>3. /\ apis' \in Seq(Api) /\ Len(apis') = Len(apis) + 1 /\ apis'[api] = a
          /\ \A i \in 1 .. Len(apis) : apis'[i] = apis[i]
      BY <1>0, <2>1, <2>2, AppendKeeps
    <2>4. /\ DOMAIN files' = Threads /\ DOMAIN map' = Threads /\ pc' = [pc EXCEPT ![t] = "idle"]
          /\ g_lock' = IF g_lock = t THEN 0 ELSE g_lock
          /\ files'[t] = [base |-> files'[t].base, size |-> files'[t].size, api |-> api, symbols |-> {}]
          /\ files'[t].api = api /\ files'[t].symbols = {} /\ files'[t].base \in Nat
          /\ \A u \in Threads \ {t} : files'[u] = files[u] /\ map'[u] = map[u]
      BY <1>0, <2>1, MadeEffect
    <2>5. TypeOK'
      BY <1>0, <2>1, <2>3, <2>4 DEF TypeOK
    <2>6. \A u \in Threads : FileOK(files[u])' /\ Listed(files[u])'
      <3>1. FileOK(files[t])' /\ Listed(files[t])'
        BY <1>0, <2>2, <2>3, <2>4 DEF FileOK, Listed
      <3>2. ASSUME NEW u \in Threads \ {t}, files[u] # NoFile
            PROVE  FileOK(files[u])' /\ Listed(files[u])'
        <4>1. files'[u] = files[u] /\ FileOK(files[u]) /\ Listed(files[u])
          BY <2>4 DEF IInv
        <4>2. files[u].api \in 1 .. Len(apis) /\ apis'[files[u].api] = apis[files[u].api]
          BY <2>3, <3>2, ApiType
        <4> QED
          BY <1>0, <2>3, <3>2, <4>1, <4>2 DEF FileOK, Listed
      <3>3. ASSUME NEW u \in Threads \ {t}, files[u] = NoFile
            PROVE  FileOK(files[u])' /\ Listed(files[u])'
        BY <2>4, <3>3 DEF FileOK, Listed, NoFile
      <3> QED
        BY <3>1, <3>2, <3>3
    <2>7. ASSUME NEW u \in Threads PROVE Loading(u)'
      <3>1. SUFFICES ASSUME pc'[u] = "load" PROVE Loading(u)'
        BY DEF Loading
      <3>2. /\ u # t /\ pc[u] = "load" /\ g_lock' = u /\ map'[u] = map[u]
            /\ g_mapped_dex_files[map[u].key] \in 0 .. Len(apis)
        BY <1>0, <1>1, <2>4, <3>1 DEF TypeOK
      <3>3. \A v \in Threads : files'[v] # NoFile => files'[v].api # g_mapped_dex_files[map[u].key]
        BY <1>0, <2>4, <3>2 DEF IInv, Loading
      <3> QED
        BY <1>0, <3>2, <3>3 DEF Loading, NoFile
    <2>8. DexFilesExact'
      BY <1>0, <2>6, NoFileApi DEF DexFilesExact, Listed
    <2> QED
      BY <2>5, <2>6, <2>7, <2>8 DEF IInv
  <1>3. CASE copy[key] = {}
    <2>1. /\ files' = [files EXCEPT ![t] = NoFile] /\ map' = [map EXCEPT ![t] = NoMap]
          /\ pc' = [pc EXCEPT ![t] = "idle"] /\ g_lock' = (IF g_lock = t THEN 0 ELSE g_lock)
          /\ UNCHANGED apis
      BY <1>3 DEF Copy, Return, Goto
    <2>2. TypeOK'
      BY <1>0, <2>1 DEF TypeOK
    <2>3. \A u \in Threads : FileOK(files[u])' /\ Listed(files[u])'
      BY <1>0, <2>1 DEF FileOK, Listed, IInv, TypeOK, NoFile
    <2>4. ASSUME NEW u \in Threads PROVE Loading(u)'
      <3>1. pc'[u] = "load" => u # t /\ pc[u] = "load" /\ g_lock' = u /\ map'[u] = map[u]
        BY <1>0, <1>1, <2>1 DEF TypeOK
      <3> QED
        BY <1>0, <2>1, <3>1 DEF IInv, Loading, TypeOK, NoFile
    <2>5. DexFilesExact'
      BY <1>0, <2>3, NoFileApi DEF DexFilesExact, Listed
    <2> QED
      BY <2>2, <2>3, <2>4, <2>5 DEF IInv
  <1> QED
    BY <1>2, <1>3

\* The class that is looked through has the method with code at x, if there is one.
LEMMA FoundByClass ==
    ASSUME DexAssumption, NEW content \in Contents, NEW x \in Int
    PROVE  FindMethodAtOffset(content, x) = MethodsAt(content, x)
  <1> USE DEF End
  <1>1. \A m \in content : m.class \in Nat /\ m.offset \in Nat /\ m.size \in Nat \ {0}
    BY DEF DexAssumption
  <1>2. ASSUME NEW m \in content, m.offset <= x, x < End(m), NEW n \in content, x < End(n), m # n
        PROVE  End(m) < End(n)
    <2>1. m.offset + m.size <= n.offset \/ n.offset + n.size <= m.offset
      BY <1>2 DEF DexAssumption
    <2> QED
      BY <1>1, <1>2, <2>1
  <1>3. ASSUME NEW m \in content, m.offset <= x, x < End(m)
        PROVE  m.class \in GetClassDefIndex(content, x)
    BY <1>1, <1>2, <1>3 DEF GetClassDefIndex
  <1> QED
    BY <1>3 DEF FindMethodAtOffset, MethodsAt

LEMMA GetFunctionNameInv ==
    ASSUME DexAssumption, IInv, NEW t \in Threads, NEW dex_pc \in Pcs, GetFunctionName(t, dex_pc)
    PROVE  IInv'
  <1> DEFINE f == files[t]
             x == dex_pc - f.base
             cached == CachedMethod(f.symbols, x)
             methods == MethodsAt(apis[f.api].content, x)
             found == IF cached # {} THEN cached ELSE methods
  <1>0. /\ TypeOK /\ f # NoFile /\ FileOK(f) /\ x \in Int
        /\ UNCHANGED <<disk, copy, apis, g_mapped_dex_files, g_lock, pc, map>>
    BY DEF GetFunctionName, IInv, FileOK, DexAssumption
  <1>1. /\ files' = [files EXCEPT ![t].symbols = @ \cup found]
        /\ answer' = [api |-> f.api, offset |-> x, method |-> IF found = {} THEN NoMethod ELSE CHOOSE m \in found : TRUE]
    <2>1. apis[f.api].content \in Contents
      <3>1. f.api \in 1 .. Len(apis) /\ apis \in Seq(Api)
        BY <1>0 DEF TypeOK, FileOK
      <3>2. apis[f.api] \in Api
        BY <3>1
      <3> QED
        BY <3>2 DEF Api
    <2>2. FindMethodAtOffset(apis[f.api].content, x) = methods
      BY <1>0, <2>1, FoundByClass
    <2> QED
      BY <2>2 DEF GetFunctionName
  \* What is cached was found, and is found again.
  <1>2. cached \subseteq methods
    BY <1>0 DEF CachedMethod, MethodsAt, FileOK
  <1>3. found \subseteq methods /\ (methods # {} => found # {})
    BY <1>2
  <1>4. methods \subseteq apis[f.api].content
    BY DEF MethodsAt
  <1> HIDE DEF x, cached, methods, found
  <1>5. /\ DOMAIN files' = Threads
        /\ \A u \in Threads \ {t} : files'[u] = files[u]
        /\ files'[t] = [base |-> f.base, size |-> f.size, api |-> f.api, symbols |-> f.symbols \cup found]
    BY <1>0, <1>1 DEF TypeOK, FileOK
  <1>6. TypeOK'
    BY <1>0, <1>5 DEF TypeOK
  <1>7. \A u \in Threads : files'[u].api = files[u].api /\ (files'[u] = NoFile <=> files[u] = NoFile)
    <2>1. f.api # 0
      BY <1>0, ApiType
    <2> QED
      BY <1>0, <1>5, <2>1, NoFileApi
  <1>8. ASSUME NEW u \in Threads PROVE FileOK(files[u])' /\ Listed(files[u])' /\ Loading(u)'
    <2>1. FileOK(files[u]) /\ Listed(files[u]) /\ Loading(u)
      BY DEF IInv
    <2>2. FileOK(files[u])'
      <3>1. CASE u = t
        BY <1>0, <1>3, <1>4, <1>5, <3>1 DEF FileOK
      <3>2. CASE u # t
        BY <1>0, <1>5, <2>1, <3>2 DEF FileOK
      <3> QED
        BY <3>1, <3>2
    <2>3. Listed(files[u])'
      BY <1>0, <1>7, <2>1 DEF Listed, NoFile
    <2>4. Loading(u)'
      BY <1>0, <1>7, <2>1 DEF Loading, NoFile
    <2> QED
      BY <2>2, <2>3, <2>4
  <1>9. DexFilesExact'
    <2>1. (LET ms == MethodsAt(apis[answer.api].content, answer.offset)
           IN  IF ms = {} THEN answer.method = NoMethod ELSE answer.method \in ms)'
      <3>1. /\ answer'.api = f.api /\ answer'.offset = x
            /\ answer'.method = IF found = {} THEN NoMethod ELSE CHOOSE m \in found : TRUE
        BY <1>1
      <3>2. IF methods = {} THEN answer'.method = NoMethod ELSE answer'.method \in methods
        BY <1>3, <3>1
      <3> QED
        BY <1>0, <3>1, <3>2 DEF methods, MethodsAt
    <2> QED
      BY <2>1, <1>8, NoFileApi DEF DexFilesExact, Listed
  <1> QED
    BY <1>6, <1>8, <1>9 DEF IInv

LEMMA DropInv ==
    ASSUME DexAssumption, IInv, NEW t \in Threads, Drop(t)
    PROVE  IInv'
  <1> USE DEF Drop
  <1>1. TypeOK'
    BY DEF IInv, TypeOK
  <1>2. \A u \in Threads : files'[u] # NoFile => files'[u] = files[u] /\ files[u] # NoFile
    BY DEF IInv, TypeOK
  <1>3. ASSUME NEW u \in Threads PROVE FileOK(files[u])' /\ Listed(files[u])' /\ Loading(u)'
    <2>1. FileOK(files[u]) /\ Listed(files[u]) /\ Loading(u)
      BY DEF IInv
    <2>2. FileOK(files[u])' /\ Listed(files[u])'
      BY <1>2, <2>1 DEF FileOK, Listed, NoFile
    <2>3. Loading(u)'
      BY <1>2, <2>1 DEF Loading, NoFile
    <2> QED
      BY <2>2, <2>3
  <1>4. DexFilesExact'
    BY <1>3, NoFileApi DEF DexFilesExact, Listed
  <1> QED
    BY <1>1, <1>3, <1>4 DEF IInv

LEMMA ReplaceInv ==
    ASSUME IInv, NEW k \in Keys, NEW c \in Contents, Replace(k, c)
    PROVE  IInv'
  <1>1. TypeOK'
    BY DEF Replace, IInv, TypeOK
  <1>2. (\A u \in Threads : FileOK(files[u]) /\ Listed(files[u]) /\ Loading(u))' /\ DexFilesExact'
    BY DEF Replace, IInv, FileOK, Listed, Loading, DexFilesExact
  <1> QED
    BY <1>1, <1>2 DEF IInv

LEMMA StutterInv == ASSUME IInv, UNCHANGED vars PROVE IInv'
  BY DEF vars, IInv, TypeOK, FileOK, Listed, Loading, DexFilesExact

(* GetFunctionName answers from the file that was opened, and threads that have a file from disk  *)
(* share one copy of it, for any number of threads that open, look up and drop dex files while    *)
(* the files are replaced.                                                                        *)
THEOREM DexFilesAlwaysExact == ASSUME DexAssumption PROVE Spec => []DexFilesExact
  <1>1. Init => IInv
    BY InvInit
  <1>2. IInv /\ [Next]_vars => IInv'
    <2> SUFFICES ASSUME IInv, [Next]_vars PROVE IInv'
      OBVIOUS
    <2>1. ASSUME NEW t \in Threads, NEW m \in Maps, Create(t, m) \/ CreateRefused(t, m) PROVE IInv'
      BY <2>1, CreateInv, CreateRefusedInv
    <2>2. ASSUME NEW t \in Threads, LookUp(t) \/ Load(t) \/ Copy(t) \/ Drop(t) PROVE IInv'
      BY <2>2, LookUpInv, LoadInv, CopyInv, DropInv
    <2>3. ASSUME NEW t \in Threads, NEW dex_pc \in Pcs, GetFunctionName(t, dex_pc) PROVE IInv'
      BY <2>3, GetFunctionNameInv
    <2>4. ASSUME NEW k \in Keys, NEW c \in Contents, Replace(k, c) PROVE IInv'
      BY <2>4, ReplaceInv
    <2> QED
      BY <2>1, <2>2, <2>3, <2>4, StutterInv DEF Next
  <1>3. IInv => DexFilesExact
    BY DEF IInv
  <1> QED
    BY <1>1, <1>2, <1>3, PTL DEF Spec
====
