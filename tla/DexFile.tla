------------------------------ MODULE DexFile ------------------------------
(***************************************************************************)
(* DexFile.cpp: dex files of several processes, by several threads.  A     *)
(* file on disk is loaded once for all of them, for as long as one of them *)
(* is in use, and each keeps the methods it has looked up, by their end.   *)
(***************************************************************************)
EXTENDS Integers, Sequences

CONSTANTS
    Threads,
    Maps,          \* [key, base, size, backed, refused]: what a process has mapped.  key is the path, offset
                   \*   and size; backed if CreateFromDisk gets as far as the lock; refused if Create does
                   \*   not try it: "(deleted)", empty, or no libdexfile
    Contents,      \* what a file holds: the methods [class, offset, size] that have code in its data section,
                   \*   or {} if it is no dex file
    Pcs,           \* the dex_pc looked up
    MaxLoads       \* bound on the files that are loaded or copied

VARIABLES
    disk, copy,    \* from keys to contents: the file, and what the process has in memory
    apis,          \* the DexFileApi objects that were made: a sequence of [key, content, shared]
    g_mapped_dex_files,    \* from keys to an api; expired if no DexFile has it
    g_lock,
    files,         \* per thread: the DexFile it has, [base, size, api, symbols], or NoFile
    pc, map,       \* per thread: where it is, and the map it opens
    answer         \* ghost: what the last step, a GetFunctionName, returned: [api, offset, method], or NoAnswer

vars == <<disk, copy, apis, g_mapped_dex_files, g_lock, files, pc, map, answer>>

Keys == {m.key : m \in Maps}
NoFile == [base |-> 0, size |-> 0, api |-> 0, symbols |-> {}]
NoMap == [key |-> 0]
NoMethod == [class |-> 0, offset |-> 0, size |-> 0]
NoAnswer == [api |-> 0, offset |-> 0, method |-> NoMethod]

\* Threads are not 0, which is a free lock; addresses are numbers; the methods of a file are not empty
\* and do not overlap.
DexAssumption ==
    /\ 0 \notin Threads /\ Pcs \subseteq Nat /\ \A m \in Maps : m.base \in Nat
    /\ \A c \in Contents : \A m \in c : m.class \in Nat /\ m.offset \in Nat /\ m.size \in Nat \ {0}
    /\ \A c \in Contents : \A m, n \in c : m = n \/ m.offset + m.size <= n.offset \/ n.offset + n.size <= m.offset

Init ==
    /\ disk \in [Keys -> Contents] /\ copy \in [Keys -> Contents]
    /\ apis = <<>> /\ g_mapped_dex_files = [k \in Keys |-> 0] /\ g_lock = 0
    /\ files = [t \in Threads |-> NoFile] /\ pc = [t \in Threads |-> "idle"]
    /\ map = [t \in Threads |-> NoMap]
    /\ answer = NoAnswer

Goto(t, label) == pc' = [pc EXCEPT ![t] = label]
InUse(api) == \E t \in Threads : files[t].api = api

\* Create returns, and t holds g_lock no more.
Return(t, f) ==
    /\ files' = [files EXCEPT ![t] = f]
    /\ g_lock' = IF g_lock = t THEN 0 ELSE g_lock
    /\ map' = [map EXCEPT ![t] = NoMap]
    /\ Goto(t, "idle")
Made(t, api) == Return(t, [base |-> map[t].base, size |-> map[t].size, api |-> api, symbols |-> {}])

\* DexFile::Create, to the lock of CreateFromDisk.
Create(t, m) ==
    /\ pc[t] = "idle" /\ files[t] = NoFile /\ ~m.refused
    /\ map' = [map EXCEPT ![t] = m]
    /\ Goto(t, IF m.backed THEN "disk" ELSE "copy")
    /\ answer' = NoAnswer
    /\ UNCHANGED <<disk, copy, apis, g_mapped_dex_files, g_lock, files>>

CreateRefused(t, m) ==
    /\ pc[t] = "idle" /\ files[t] = NoFile /\ m.refused
    /\ answer' = NoAnswer
    /\ UNCHANGED <<disk, copy, apis, g_mapped_dex_files, g_lock, files, pc, map>>

\* CreateFromDisk: the lock, and the fast path if the api is not expired.
LookUp(t) ==
    LET api == g_mapped_dex_files[map[t].key]
    IN
    /\ pc[t] = "disk" /\ g_lock = 0
    /\ IF api # 0 /\ InUse(api) THEN Made(t, api)
       ELSE g_lock' = t /\ Goto(t, "load") /\ UNCHANGED <<files, map>>
    /\ answer' = NoAnswer
    /\ UNCHANGED <<disk, copy, apis, g_mapped_dex_files>>

\* The file is loaded, or is no dex file.
Load(t) ==
    LET key == map[t].key
    IN
    /\ pc[t] = "load" /\ Len(apis) < MaxLoads
    /\ IF disk[key] # {}
       THEN /\ apis' = Append(apis, [key |-> key, content |-> disk[key], shared |-> TRUE])
            /\ g_mapped_dex_files' = [g_mapped_dex_files EXCEPT ![key] = Len(apis) + 1]
            /\ Made(t, Len(apis) + 1)
       ELSE g_lock' = 0 /\ Goto(t, "copy") /\ UNCHANGED <<apis, g_mapped_dex_files, files, map>>
    /\ answer' = NoAnswer
    /\ UNCHANGED <<disk, copy>>

\* The fallback: a copy of the memory of the process.
Copy(t) ==
    LET key == map[t].key
    IN
    /\ pc[t] = "copy" /\ Len(apis) < MaxLoads
    /\ IF copy[key] # {}
       THEN /\ apis' = Append(apis, [key |-> key, content |-> copy[key], shared |-> FALSE])
            /\ Made(t, Len(apis) + 1)
       ELSE Return(t, NoFile) /\ UNCHANGED apis
    /\ answer' = NoAnswer
    /\ UNCHANGED <<disk, copy, g_mapped_dex_files>>

End(method) == method.offset + method.size

\* ADexFile::GetClassDefIndex: the class of the method that ends first after x.  The class cache holds
\* no two neighbours of one class, only the last of them, which has the same class.
GetClassDefIndex(content, x) ==
    LET after == {m \in content : x < End(m)}
    IN  {m.class : m \in {n \in after :
            \A o \in after : End(n) < End(o) \/ (End(n) = End(o) /\ n.class <= o.class)}}

\* ADexFile::FindMethod: only that class is looked through.
FindMethodAtOffset(content, x) ==
    {m \in content : m.class \in GetClassDefIndex(content, x) /\ m.offset <= x /\ x < End(m)}

\* The cached method that ends first after x, if it begins before x.
\* Mutant: its beginning is not looked at.
CachedMethodAnyStart(symbols, x) ==
    LET after == {m \in symbols : End(m) > x}
    IN  {m \in after : \A n \in after : End(m) <= End(n)}
CachedMethod(symbols, x) ==
    LET after == {m \in symbols : End(m) > x}
    IN  {m \in after : (\A n \in after : End(m) <= End(n)) /\ m.offset <= x}

IsValidPc(f, dex_pc) == f.base <= dex_pc /\ dex_pc - f.base < f.size

\* GetFunctionName, under DexFileApi::lock_; DexFiles asks the file that has the dex_pc.
GetFunctionName(t, dex_pc) ==
    LET f == files[t]
        x == dex_pc - f.base
        cached == CachedMethod(f.symbols, x)
        found == IF cached # {} THEN cached ELSE FindMethodAtOffset(apis[f.api].content, x)
    IN
    /\ pc[t] = "idle" /\ f # NoFile /\ IsValidPc(f, dex_pc)
    /\ files' = [files EXCEPT ![t].symbols = @ \cup found]
    /\ answer' = [api |-> f.api, offset |-> x, method |-> IF found = {} THEN NoMethod ELSE CHOOSE m \in found : TRUE]
    /\ UNCHANGED <<disk, copy, apis, g_mapped_dex_files, g_lock, pc, map>>

\* The last shared_ptr of a DexFile goes away, and with it its use of the api.
Drop(t) ==
    /\ pc[t] = "idle" /\ files[t] # NoFile
    /\ files' = [files EXCEPT ![t] = NoFile]
    /\ answer' = NoAnswer
    /\ UNCHANGED <<disk, copy, apis, g_mapped_dex_files, g_lock, pc, map>>

\* An app is updated: its file is replaced.
Replace(k, c) ==
    /\ c # disk[k]
    /\ disk' = [disk EXCEPT ![k] = c]
    /\ answer' = NoAnswer
    /\ UNCHANGED <<copy, apis, g_mapped_dex_files, g_lock, files, pc, map>>

Next ==
    \/ \E t \in Threads :
          \/ \E m \in Maps : Create(t, m) \/ CreateRefused(t, m)
          \/ LookUp(t) \/ Load(t) \/ Copy(t) \/ Drop(t)
          \/ \E dex_pc \in Pcs : GetFunctionName(t, dex_pc)
    \/ \E k \in Keys, c \in Contents : Replace(k, c)

Spec == Init /\ [][Next]_vars

(* Properties.                                                             *)

\* The methods with code at x.
MethodsAt(content, x) == {m \in content : m.offset <= x /\ x < End(m)}

(* GetFunctionName answers from the dex file that was opened, whatever was looked up before, and  *)
(* whatever has become of the file; and however threads open and drop it, two that have a file    *)
(* from disk have the same copy of it ("we maintain cache to avoid loading the same file          *)
(* (sub-range) many times", DexFile.h).                                                           *)
DexFilesExact ==
    /\ answer # NoAnswer =>
          LET methods == MethodsAt(apis[answer.api].content, answer.offset)
          IN  IF methods = {} THEN answer.method = NoMethod ELSE answer.method \in methods
    /\ \A t, u \in Threads :
          LET a == files[t].api
              b == files[u].api
          IN  a # 0 /\ b # 0 /\ apis[a].shared /\ apis[b].shared /\ apis[a].key = apis[b].key => a = b
=============================================================================
