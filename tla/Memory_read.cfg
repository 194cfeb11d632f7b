\* Two threads and each kind of cache; files of up to three blocks; a process of four pages and
\* batches of two; up to two ranges, saved files or parts.
CONSTANTS
    Threads = {1, 2}
    NumPages = 2
    PageSize = 2
    MaxSmall = 2
    Addrs = {0, 1, 3}
    Sizes = {2, 3}
    Versions = {1, 2}
    Unreadable = 0
    MaxChanges = 1
    Files <- SmallFiles
    MaxAddr = 8
    MaxSize = 5
    Requests <- SmallRequests
    Kernels <- MixedKernels
    RemotePage = 4
    WordSize = 2
    kMaxIovecs = 2
    Top = 15
    RangesTop = 7
    Targets <- SmallTargets
    Ranges <- SmallRanges
    Saved <- SavedFiles
    MaxMembers = 2
    Strings <- SmallStrings
    BufferSize = 2
SPECIFICATION MemorySpecs
INVARIANTS ReadExact RemoteExact PartsExact StringExact
PROPERTIES KeepsPromise
