---------------------------- MODULE MemoryRemote ----------------------------
(***************************************************************************)
(* MemoryRemote::Read (Memory.cpp) by several threads: ProcessVmRead in    *)
(* batches of pages, PtraceRead word by word, and the choice of the one to *)
(* use from then on, which the first read that succeeds makes without a    *)
(* lock.  A byte is its address.                                           *)
(***************************************************************************)
EXTENDS Integers, Sequences, FiniteSetsExt

CONSTANTS
    Threads,
    Requests,      \* what is read: [addr, size]
    Kernels,       \* the pages each function can read: [vm, ptrace]
    PageSize,      \* getpagesize()
    WordSize,      \* sizeof(long)
    kMaxIovecs,
    Top            \* UINTPTR_MAX, and UINT64_MAX

RemoteAssumption ==
    /\ WordSize \in Nat \ {0} /\ PageSize \in Nat \ {0} /\ PageSize % WordSize = 0
    /\ kMaxIovecs \in Nat \ {0} /\ (Top + 1) % PageSize = 0
    /\ \A r \in Requests : r.addr \in 0 .. Top /\ r.size \in Nat

VARIABLES
    kernel,
    read_redirect_func_,   \* "none", "vm" or "ptrace"
    pc, req, read_func,    \* per thread
    cur, len, dst,         \* per thread: where it is in the target, what is left, and what it has
    answer                 \* ghost: per thread, what its last Read returned, and by which function

vars == <<kernel, read_redirect_func_, pc, req, read_func, cur, len, dst, answer>>

NoAnswer == [func |-> "none", bytes |-> <<>>]

Init ==
    /\ kernel \in Kernels
    /\ read_redirect_func_ = "none"
    /\ pc = [t \in Threads |-> "idle"]
    /\ req = [t \in Threads |-> [addr |-> 0, size |-> 0]]
    /\ read_func = [t \in Threads |-> "none"]
    /\ cur = [t \in Threads |-> 0] /\ len = [t \in Threads |-> 0] /\ dst = [t \in Threads |-> <<>>]
    /\ answer = [t \in Threads |-> NoAnswer]

Goto(t, label) == pc' = [pc EXCEPT ![t] = label]
Bytes(from, n) == [i \in 1 .. n |-> from + i - 1]
PageOf(addr) == addr \div PageSize

\* The start of one of the two functions.
Enter(t, func, r) ==
    /\ Goto(t, func)
    /\ cur' = [cur EXCEPT ![t] = r.addr]
    /\ len' = [len EXCEPT ![t] = r.size]
    /\ dst' = [dst EXCEPT ![t] = <<>>]

\* Read loads read_redirect_func_.
Read(t, r) ==
    /\ pc[t] = "idle"
    /\ req' = [req EXCEPT ![t] = r]
    /\ read_func' = [read_func EXCEPT ![t] = read_redirect_func_]
    /\ answer' = [answer EXCEPT ![t] = NoAnswer]
    /\ Enter(t, IF read_redirect_func_ = "ptrace" THEN "ptrace" ELSE "vm", r)
    /\ UNCHANGED <<kernel, read_redirect_func_>>

Answer(t, func, bytes) ==
    /\ answer' = [answer EXCEPT ![t] = [func |-> func, bytes |-> bytes]]
    /\ Goto(t, "idle")
    /\ req' = req

\* The function returns: the result of Read, or of the first or second try.
Returns(t, func, bytes) ==
    \/ /\ read_func[t] # "none" \/ (func = "ptrace" /\ bytes = <<>>)
       /\ Answer(t, func, bytes)
       /\ UNCHANGED <<cur, len, dst>>
    \/ /\ read_func[t] = "none" /\ bytes # <<>>
       /\ Goto(t, "store_" \o func)
       /\ dst' = [dst EXCEPT ![t] = bytes]
       /\ UNCHANGED <<req, cur, len, answer>>
    \/ /\ read_func[t] = "none" /\ bytes = <<>> /\ func = "vm"
       /\ Enter(t, "ptrace", req[t])
       /\ UNCHANGED <<req, answer>>

\* The store to read_redirect_func_, and the return from Read.
Store(t, func) ==
    /\ pc[t] = "store_" \o func
    /\ read_redirect_func_' = func
    /\ Answer(t, func, dst[t])
    /\ UNCHANGED <<kernel, read_func, cur, len, dst>>

\* The iovecs of a batch: one for each page from a on, at most kMaxIovecs.
Boundary(a, k) == (PageOf(a) + k) * PageSize
BatchEnd(a, n) == Min({a + n, Boundary(a, kMaxIovecs)})

\* process_vm_readv: the iovecs up to the first that cannot be read.
VmReadable(a, end) ==
    LET stops == {x \in a .. end - 1 : PageOf(x) \notin kernel.vm}
    IN  IF stops = {} THEN end - a ELSE Min(stops) - a

\* ProcessVmRead: one batch.
ProcessVmRead(t) ==
    LET a == cur[t]
        end == BatchEnd(a, len[t])
        rc == VmReadable(a, end)
        read == dst[t] \o Bytes(a, rc)
    IN
    /\ pc[t] = "vm"
    /\ UNCHANGED <<kernel, read_redirect_func_, read_func>>
    /\ \/ len[t] = 0 /\ Returns(t, "vm", dst[t])
       \/ /\ len[t] > 0
          /\ a >= Top \/ end > Top \/ rc = 0   \* an overflow, or -1
          /\ Returns(t, "vm", dst[t])
       \/ /\ len[t] > 0 /\ ~(a >= Top \/ end > Top \/ rc = 0)
          /\ cur' = [cur EXCEPT ![t] = end]
          /\ len' = [len EXCEPT ![t] = @ - (end - a)]
          /\ dst' = [dst EXCEPT ![t] = read]
          /\ UNCHANGED <<pc, req, answer>>

\* Mutant: the bytes before addr in its word are not skipped.
FirstOfAligned(a) == (a \div WordSize) * WordSize
\* The first byte that is taken of the word with a.
FirstOf(a) == a

\* PtraceRead: one word, the first and the last of which may be used in part.
PtraceRead(t) ==
    LET a == cur[t]
        n == Min({WordSize - (a % WordSize), len[t]})
    IN
    /\ pc[t] = "ptrace"
    /\ UNCHANGED <<kernel, read_redirect_func_, read_func>>
    /\ \/ /\ len[t] = 0 \/ req[t].addr + req[t].size > Top \/ PageOf(a) \notin kernel.ptrace
          /\ Returns(t, "ptrace", dst[t])
       \/ /\ len[t] > 0 /\ req[t].addr + req[t].size <= Top /\ PageOf(a) \in kernel.ptrace
          /\ cur' = [cur EXCEPT ![t] = a + n]
          /\ len' = [len EXCEPT ![t] = @ - n]
          /\ dst' = [dst EXCEPT ![t] = @ \o Bytes(FirstOf(a), n)]
          /\ UNCHANGED <<pc, req, answer>>

Next == \E t \in Threads :
    \/ \E r \in Requests : Read(t, r)
    \/ ProcessVmRead(t) \/ PtraceRead(t)
    \/ \E func \in {"vm", "ptrace"} : Store(t, func)

Spec == Init /\ [][Next]_vars

(* Properties.                                                             *)

\* "This assumes that if process_vm_read works once, it will continue to work" (Memory.cpp).
AllOrNothing == kernel.vm \in {{}, kernel.ptrace}

\* A hole in a batch that is not the last: the next batch is stored where the hole began.
HoleBeforeLastBatch(r) ==
    \E x \in r.addr .. r.addr + r.size - 1 :
       /\ PageOf(x) \notin kernel.vm
       /\ PageOf(x) < PageOf(r.addr) + ((PageOf(r.addr + r.size - 1) - PageOf(r.addr)) \div kMaxIovecs) * kMaxIovecs

(* A read of another process returns the target's bytes from addr on, up to the first that cannot *)
(* be read, at any alignment and however many pages it spans; if process_vm_readv works for all   *)
(* the memory or for none, that is so of both functions, whichever threads make the first reads   *)
(* (MemoryRemote::Read, ProcessVmRead, PtraceRead).  Left out are reads that end past the last    *)
(* address, and reads of more than kMaxIovecs pages with a hole before the last batch.            *)
RemoteExact == \A t \in Threads :
    LET r == req[t]
        bytes == answer[t].bytes
        func == answer[t].func
        next == PageOf(r.addr + Len(bytes))
    IN  func # "none" /\ r.addr + r.size <= Top /\ ~(func = "vm" /\ HoleBeforeLastBatch(r)) =>
           /\ bytes = Bytes(r.addr, Len(bytes))
           /\ Len(bytes) <= r.size
           /\ Len(bytes) < r.size =>
                 /\ next \notin kernel[func]
                 /\ AllOrNothing => next \notin kernel.vm \cup kernel.ptrace
=============================================================================
