------------------------------ MODULE MCMemory ------------------------------
(***************************************************************************)
(* The kinds of Memory for TLC: a behaviour is of the caches, of           *)
(* compressed data, of a remote process, or of memory made of parts.       *)
(***************************************************************************)
EXTENDS MemoryCache

CONSTANTS Files, MaxAddr, MaxSize,
          Requests, Kernels, RemotePage, WordSize, kMaxIovecs, Top,
          RangesTop, Targets, Ranges, Saved, MaxMembers, Strings, BufferSize

VARIABLES
    class,
    file, bad, blocks_, block_size_log2_, used_, size_, state, got,
    kernel, read_redirect_func_, rPc, rReq, read_func, cur, len, dst, rAnswer,
    shape, target, maps_, memories_, inserted, sPc, call, offset, sAnswer

X == INSTANCE MemoryXz
R == INSTANCE MemoryRemote WITH PageSize <- RemotePage, pc <- rPc, req <- rReq, answer <- rAnswer
P == INSTANCE MemoryRanges WITH Top <- RangesTop, pc <- sPc, answer <- sAnswer

ASSUME X!XzAssumption /\ R!RemoteAssumption /\ P!RangesAssumption

cVars == <<kind, memory, cache, cache_lock_, pc, req, part, changes, window, result>>
xVars == <<file, bad, blocks_, block_size_log2_, used_, size_, state, got>>
rVars == <<kernel, read_redirect_func_, rPc, rReq, read_func, cur, len, dst, rAnswer>>
pVars == <<shape, target, maps_, memories_, inserted, sPc, call, offset, sAnswer>>

\* A part that is not looked at stays as it is made.
CacheIdle == Init /\ kind = "MemoryCache" /\ memory = [p \in Pages |-> Unreadable]
XzIdle ==
    /\ file = <<>> /\ bad = {} /\ blocks_ = <<>> /\ block_size_log2_ = 31 /\ used_ = 0 /\ size_ = 0
    /\ state = "new" /\ got = X!NoRead
RemoteIdle ==
    /\ kernel = [vm |-> {}, ptrace |-> {}] /\ read_redirect_func_ = "none"
    /\ rPc = <<>> /\ rReq = <<>> /\ read_func = <<>> /\ cur = <<>> /\ len = <<>> /\ dst = <<>>
    /\ rAnswer = [t \in Threads |-> R!NoAnswer]
PartsIdle ==
    /\ shape = "ranges" /\ target = [unreadable |-> {}, nuls |-> {}] /\ maps_ = <<>> /\ memories_ = <<>>
    /\ inserted = {} /\ sPc = "idle" /\ call = [addr |-> 0, max_read |-> 0] /\ offset = 0
    /\ sAnswer = P!NoString

MemoryInit ==
    \/ class = "cache"  /\ Init      /\ XzIdle /\ RemoteIdle /\ PartsIdle
    \/ class = "xz"     /\ CacheIdle /\ X!Init /\ RemoteIdle /\ PartsIdle
    \/ class = "remote" /\ CacheIdle /\ XzIdle /\ R!Init     /\ PartsIdle
    \/ class = "parts"  /\ CacheIdle /\ XzIdle /\ RemoteIdle /\ P!Init

MemoryNext ==
    \/ class = "cache"  /\ Next   /\ UNCHANGED <<class, xVars, rVars, pVars>>
    \/ class = "xz"     /\ X!Next /\ UNCHANGED <<class, cVars, rVars, pVars>>
    \/ class = "remote" /\ R!Next /\ UNCHANGED <<class, cVars, xVars, pVars>>
    \/ class = "parts"  /\ P!Next /\ UNCHANGED <<class, cVars, xVars, rVars>>

MemorySpecs == MemoryInit /\ [][MemoryNext]_<<class, cVars, xVars, rVars, pVars>>

ReadExact == X!ReadExact
RemoteExact == R!RemoteExact
PartsExact == P!PartsExact
StringExact == P!StringExact

\* Up to three blocks of up to four bytes, so of sizes that are a power of two or are not.
SmallFiles == UNION {[1 .. n -> 1 .. 4] : n \in 0 .. 3}

\* Kernels that read the same with both functions, with one of them, or more with one; holes.
PageSets == {{}, {0, 1, 3}, 0 .. 3}
MixedKernels == [vm : PageSets, ptrace : PageSets]
SmallRequests == [addr : {0, 3, 6}, size : {0, 3, 10}]

\* Processes with a hole; ranges that touch, overlap, are empty or end past the last address.
SmallTargets == [unreadable : {{3}}, nuls : {{}, {2, 6}, {5}}]
SmallRanges == [begin : {0, 5}, length : {0, 2, 3, 5}, offset : {0, 2, 3, 6}]
SavedFiles == [size : {2, 7}, at : {1, 3}, start : {0, 4}, length : {1, 4, RangesTop}, header : BOOLEAN]
SmallStrings == [addr : {0, 3}, max_read : {3, 5}]
=============================================================================
