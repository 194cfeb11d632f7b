# A TLA+ verification of libunwindstack

libunwindstack turns the registers of a thread into the list of its stack frames, for a thread of
its own process (stopped by a signal) or of another one (through ptrace). This directory holds TLA+
models of the parts of `src/libunwindstack` where order, concurrency, caching or boundaries decide
whether the answer is right, TLC configurations for small instances, and TLAPS proofs for instances
of any size.

`PROJECT.json` is the index: components, runs, one mutation of the code per checked property, the
source lines of every definition, hazards, findings and theorems.

## The system

| part | state | operations | what makes it hard |
|---|---|---|---|
| AndroidUnwinder, UnwinderFromPid | a flag for "initialised", the parts it set up | Initialize, Unwind | several threads start the first unwind at once; initialisation may fail |
| ThreadEntry, ThreadUnwinder | the map of entries and its mutex, a count, mutex and wait value per entry, the signal's disposition | UnwindWithSignal, SendSignalToThread, SignalHandler, Get, Remove, Wait, Wake | two threads and a signal handler hand control to each other; each wait may time out and the signal arrive later |
| Unwinder | registers, frames, flags of the loop | Unwind | many exits; guesses that are taken back |
| Regs | registers | StepIfSignalHandler, CreateFromUcontext, GetPcAdjustment | seven architectures, each with its own layout of a signal frame |
| Maps | the list of maps and its lock | Find, Parse, Reparse | the address space changes; the list is merged in place while others use it |
| MapInfo and the Elf cache | Elf, offsets, load bias, build id of each map | GetElf, GetLoadBias, GetBuildID, CreateMemory, CacheGet, CacheAdd | lazily created, shared between maps, up to three locks, some writes under none |
| ElfInterface, Symbols | headers; symbol caches | ReadAllHeaders, GetLoadBias, ReadBuildID; GetName, GetGlobal | the same headers are read by two readers; searches through a partly filled cache |
| DWARF sections, DwarfOp | FDE index, CIE and row caches, a stack | Step, GetFdeFromPc, GetCfaLocationInfo, Eval | an answer may come from a cache filled for another pc; arithmetic of a fixed width |
| DwarfEhFrameWithHdr, ElfInterfaceArm, ArmExidx | cached table entries, registers | GetFdeFromPc, FindEntry, StepExidx | binary search over entries that may be unreadable; every unwind instruction |
| GlobalDebug (JIT and DEX) | cached entries, the runtime's list | ForEachSymfile, ReadAllEntries, ReadNewEntries | a lock-free reader of a list that is modified under it |
| DexFile | files in use, methods looked up | Create, GetFunctionName | one process-wide cache that forgets a file with its last user |
| Memory | page caches, the chosen read function, ranges | Read, ReadString, Clear | page boundaries, unreadable pages, a process that goes on writing |
| MemoryXz | blocks, lazily decompressed | Init, Read | block sizes, corrupt blocks |

They interact as follows. `AndroidUnwinder` initialises maps, memory, JIT and DEX readers and, for
a thread of its own process, uses `ThreadUnwinder` to stop it. `Unwinder` finds the map of the pc
in `Maps`, its `Elf` through `MapInfo` (or a JIT one through `GlobalDebug`), and steps: out of a
signal handler with `Regs`, or through the Elf's DWARF or ARM sections, which read the process
through a `Memory`. `Symbols` and `DexFile` name the frames.

## Modules

Variables and actions keep the names of the fields and functions they model. A definition whose
comment starts with "Mutant" is an altered copy of the definition after it. No specification uses
it; it is there to show that a property fails when the code is changed that way.

* `ThreadEntry` has the objects and methods of `ThreadEntry.cpp`, `ThreadUnwinder` the programs that
  call them. A thread has a program counter of its own and one for the signal handler that may
  interrupt it. Mutexes are owners; signals are queued; an action is the code between two points
  where another thread can interfere.
* `AndroidUnwinder` has the threads that share one unwinder, the call_once that initialises it, and
  the steps of the initialisation, any of which may fail. What the unwind then does is the subject
  of the other modules.
* `GlobalDebug` takes one action per read of the other process. The runtime (ART) is external: its
  steps are those the reader's comments rely on.
* `MapInfo` has the fields of every map and the lock of each; the address spaces (`Worlds`) are in
  `MCMapInfo`. A file is the set of images in it; an Elf is its image, validity and load bias.
* `LocalUpdatableMaps` has one action per iteration of the merge loop of `Reparse`, and the
  unlocked search of `Global::FindAndReadVariable`. The maps file is read in one step. A search
  that meets an element the merge has already taken away uses a null pointer; the process then ends.
* `Unwinder` has one action per iteration of the loop. What the unwind information says is
  unknown, so a step may lead anywhere.
* `Regs` has the structures of `Ucontext*.h` as sequences of arrays, and for each architecture the
  addresses at which `StepIfSignalHandler` looks. The frame the kernel pushes is external.
* `DwarfCfa` is the interpreter of call frame instructions as functions, `DwarfSection` the caches
  around it; they are compared with an interpretation without caches. `DwarfEval` is `Eval` and the
  stack machine of `DwarfOp`, on words of eight bits; `EvalRows` has the rows and expressions.
* `Symbols`, `DwarfEhFrameWithHdr` and `ElfInterfaceArm` each search a table through a cache, one
  action per entry read, and are compared with a scan of the table. `ArmExidx` interprets ARM unwind
  instructions; `ArmWorlds` makes them from prologues, which they have to undo.
* `ElfInterface` reads program headers, section headers and notes; `DexFile` has the process-wide
  cache of dex files, and how libdexfile finds a method by way of a table of classes.
* `MemorySpec` says what a cached memory promises; `MemoryCache` (both caches) implements it, with
  the set of cached pages as the detail it hides. `MemoryRemote` has the ways to read another
  process, `MemoryRanges` the memories made of other memories and `ReadString`, `MemoryXz` the
  compressed files.
* `MC...` modules hold the constants for TLC. `MCMemory` and `MCElf` put several components side by
  side: a behaviour is one of one component, chosen in the initial state.
* `...Proofs` modules hold the theorems about the module of that name.

## Runs

| run | shows |
|---|---|
| thread_safety | no entry is used after it is deleted, the map is exact, exchanges with one target do not overlap, no late signal is fatal |
| thread_paused | the target is stopped, at the stop whose registers are used, if only the first wait can time out |
| thread_live | every call and every handler returns |
| jit | cached entries are genuine; a function that is present throughout a lookup is found; what is found was live |
| mapinfo | an Elf once returned is never replaced, the fields of a map fit its Elf, maps of an image share it, the order of calls does not show, no deadlock |
| maps | Reparse yields the new address space and keeps the objects of unchanged maps, at every moment of the merge; Find is right; pointers of the unlocked reader stay valid |
| unwinder | the pcs of all frames but the innermost are adjusted; a frame that was guessed stays only if it was stepped from; earlier frames and errors are kept; termination |
| dwarf | a covered pc has an FDE, a row covers its pc, the caches do not show, and applying a row gives the registers its rules describe |
| memory | each kind of cache implements MemorySpec; every other memory returns the bytes that are there, up to the first that is not; strings are complete |
| elf | names, FDEs and exidx entries are those a scan of the table finds; ARM instructions undo the prologue; both readers of the headers agree; dex methods are exact; the caller is found from a signal frame or a call; nobody unwinds before initialisation; every lookup ends |

Two runs end in a counterexample against a sentence of the code's own comments, quoted in
`findings`:

| run | counterexample |
|---|---|
| thread_selflock | the handler waits for a mutex held by the thread it interrupted |
| mapinfo_deadlock | with caching, the cache lock and a map's mutex are taken in both orders |

### Known exceptions

Some properties hold only under a condition, which is part of their statement or of the inputs of
the run. Without it the model has a counterexample, or the code has a case the model leaves out:

| property | what the condition leaves out |
|---|---|
| PausedDuringUnwind | the handler's own ten seconds end before the unwind does, and the target runs |
| UnwindsPrepared | after a failed initialisation only the thread that ran it is told why; UnwinderFromPid unwinds without maps after a failed Parse |
| FindComplete | attempts during which some symfile did not load, be it another function's: the number of entries that are read decides whether to go on, and entries that do not load do not count |
| FoundWasLiveIfRead | ForEachSymfile goes on after ReadAllEntries has given up, and returns a deleted entry |
| FieldsMatchElf | GetLoadBias(process_memory) resets the offset of a published Elf without the mutex; an Elf that reads memory and comes from the cache is not marked so; files that open at one time and not at another |
| OrderIndependent | files that open at one time and not at another; a read-only map of one library of an archive directly before the map of another library |
| no deadlock (run mapinfo) | two threads with the cache enabled, the subject of mapinfo_deadlock |
| ReparseExact | the file offsets of maps whose object is kept: Reparse compares start, end, flags and name only |
| RawPointersValid | the library is unloaded during the search, or its map was taken from the new maps of a running Reparse, which the merge then throws away |
| AllButInnermostAdjusted | that only return addresses are moved back: the pc a signal interrupted is none, and is moved too |
| Terminates | skipped libraries whose unwind information leads round in a circle without popping anything |
| CallerFound | esi and edi of x86 from a frame without siginfo; frames only partly readable (arm, arm64, riscv64, mips64); the first two bytes of an invalid arm Elf; compressed calls of RISC-V and compact branches of MIPS, which are not among the call sites |
| RowCoversPc, CachesDoNotShow | FDEs that overlap and have rows ending at one pc, which share a key of the row cache |
| CachesDoNotShow | sections with a program that ends in restore_state, which restores the start of the row as well |
| EvalExact | shifts by the width of a word or more and overlong LEB128 numbers, undefined in C++ |
| NameExact | symbols that overlap: a name is then right if there is one, but may not be found |
| FdeExact | header tables with an entry whose FDE starts after the pc of the entry: the FDE is returned for pcs it does not cover |
| UndoesPrologue | full entries whose last byte is an operand equal to the finish instruction |
| HeadersExact | two build-id sections, two loadable segments at one offset, notes whose sizes are no multiple of four |
| DexFilesExact | methods that overlap or have no code |
| PartsExact | a MemoryFileAtOffset after a failed Init, which leaves the size of the earlier mapping: a Read copies from a null pointer. The last address of the address space is never found in MemoryRanges; the property says so |
| RemoteExact | reads of more than kMaxIovecs pages with a hole before the last batch; reads beyond the last address |
| StringExact | strings that go beyond the last address, or from one part of an offline memory into the next |

Nor is there a property that entries are released: the handler never gives its reference back.

All of these, the two runs above included, are behaviours of the models. None was reproduced by
running the library.

### Bounds

All bounds are named constants, set in the `.cfg` files, or part of the worlds of the `MC` modules.

* Threads: two requesters and a target are enough for two exchanges with one target to contend,
  and two calls each for a late signal of one to meet the other. Threads that are requester and
  target at once occur in thread_selflock only; the proofs cover them.
* GlobalDebug: three entries and three list operations let an address be freed and reused while it
  is read. With two races and three passes the reader can reach its fixed point after it was
  disturbed, and can also give up. A runtime without seqlocks only adds entries.
* MapInfo: three threads with a call each, as two maps share an Elf and a third thread may hold the
  lock in between; two threads with two calls of every method, or with files that open at times;
  one thread with five calls and the cache.
* Maps: address spaces of three pages with one label, or of two pages with two labels or two file
  offsets, from every one to every other; one change, two threads with one lookup each and one
  search.
* Unwinder: stacks of up to three frames and two stack pointers, with pcs of five kinds. A pc in a
  device map is handled like an sp in one, which occurs, and a JIT elf like any other.
* DWARF: programs of up to five instructions, up to three FDEs over six pcs, and two FDEs with CIEs
  of their own. Advances stay inside
  the function. Expressions work on words of eight bits, so that every operation overflows.
* Memory caches: two pages of two bytes, so that a read crosses a page; sizes on both sides of the
  limit for cached reads (64 in the code, 2 here); one change by the process, before, between or
  after the reads of the two pages. MemoryRemote: pages of four bytes, words of two, batches of two
  pages (kMaxIovecs is 64 in the code), which up to four pages exceed. Ranges: at most two members
  of an address space of eight bytes, strings read in blocks of two. MemoryXz: up to three blocks of
  one to four bytes, so of equal, unequal, power-of-two and other sizes.
* Elf: symbol tables of up to three symbols, exidx and hdr tables of up to four entries (two steps
  of a binary search), prologues of up to three instructions, two program headers and one that is
  cut off, two notes; two threads and two loads of dex files; stacks that end at eleven places,
  before, inside and behind a signal frame; calls at fourteen offsets around the start of an Elf;
  two threads with two calls of one unwinder.

Types are proved for ThreadUnwinder, Unwinder, GlobalDebug and the modules of the other proofs.

TLC's symmetry is used only for sets whose members are merely compared, never with liveness.

### Fairness

Liveness is checked for ThreadUnwinder and Unwinder, under weak fairness: the operating system goes
on running a thread that can run, or a handler on it, and a loop of sequential code goes on. No
strong fairness is assumed. A timed wait can end by its timeout, so no liveness rests on a wake-up
being sent. `Terminates` has two parts: once no library is skipped Unwind ends whatever the unwind
information says; while libraries are skipped, whose frames do not count towards the maximum, it
ends if from some time on every step pops something off the stack.

`LookupsEnd` needs no fairness: it says that every step of a search makes a measure smaller.

## Proofs

TLAPS checks every theorem without omitted steps. The constants are arbitrary, restricted only by
the `ASSUME`s of the modules (`ThreadsAssumption`, `NullAssumption`, `UnwinderAssumption`,
`ConstantsAssumption`, `HdrAssumption`, `ExidxAssumption`, `DexAssumption`, `CacheAssumption`),
which TLC evaluates in the runs.

* `ThreadUnwinderProofs`: types; no entry is used after it is deleted; the count covers all
  pointers; the map is exact. No conjunct is inductive alone: the count must cover holders for
  deletion to be safe, and the map must be exact for a lookup to find a live entry. The invariant
  joins them with who holds `entries_mutex_` at which step. Counting holders uses finite
  cardinalities, hence the assumption that `Threads` is finite. A second invariant builds on it, and
  ties each lock to the steps that hold it and the disposition to `action_mutex`: no signal meets
  the default action, exchanges exclude each other, no lock is held on return, one waiter per entry.
* `UnwinderProofs`: the frame bound, adjusted pcs, guesses, kept frames and kept errors. The
  invariant adds, for a running loop, that there is room for a frame, that `adjust_pc` is false
  exactly for the innermost pc, that nothing was added while libraries are skipped, that every
  guess in the list but a pending one was stepped from, and that a pending guess left its error in
  `last_error_`. What an iteration adds is described once: the list is the old one, the old one and
  a frame, or a dex frame between the two; a guess that is taken back leaves only old frames and
  the dex frame.
* `GlobalDebugProofs`: what is cached is genuine, and what is returned was live during the call, for
  any list, any number of operations of the runtime and any retry limits. The list half of the
  invariant says that an even seqlock belongs to an entry in the list or about to enter it, that
  from the list one gets only into the list, and that the list has no circle (there is an age that
  grows along it), without which unlinking could leave a pointer behind. The reader half says that
  the uid at hand has been in the list, and is there still if its seqlock has not changed: seqlocks
  only grow, so a second look at one is enough.
* `DwarfEhFrameWithHdrProofs` and `ElfInterfaceArmProofs`: a search of a table of any length finds
  the right entry, whatever earlier searches have cached. The invariant says that cached entries
  are the table's, and what the binary search has excluded so far. `HdrAssumption` gives only the
  types of the entries; that they are sorted and agree with their FDEs is a condition of FdeExact.
* `DexFileProofs`: a method is named exactly where the open file has one, and maps of one file share
  it. A lemma says that the class the table of classes yields has the method, if there is one. The
  invariant says that the methods a DexFile keeps belong to the content it was opened with, that
  files in use are listed, and that only a loader holds the lock.
* `MemoryCacheProofs`: MemoryCache implements MemorySpec, for any page size. The invariant says that
  a cached page is a content the page has had since the last Clear, and that a read in progress has
  the bytes of its first page.

Only model-checked: everything about MapInfo, Maps, DWARF sections, Symbols, Regs, the other kinds
of Memory and AndroidUnwinder, and that GlobalDebug finds what is there throughout (FindComplete).
Out of the prover's reach: liveness and ENABLED; what recursive definitions compute for every input
(the interpreters of DWARF and ARM instructions, expressions), which would need induction over
data; modules with RECURSIVE operators.

## Not modelled

`PROJECT.json` gives for every component what is left out and why. In short:

* Code that only chooses between parts that are modelled, and keeps no state: the order in which
  `ElfInterface::Step` tries the sections, `Elf::Step` and `Elf::GetFunctionName` under the lock of
  the Elf, the factory functions of Memory, Regs and Maps.
* Straight-line code: BuildFrameFromPcOnly, SetPcFromReturnAddress, GetSoname, GetMaxSize,
  AdjustEncodedValue, the fields of CIEs and FDEs (FillInCie, FillInFde), lists of all FDEs
  (GetFdes), MemoryBuffer and MemoryOfflineBuffer, MTE tags. Unit tests reach these.
* Formatting, logging, demangling, names of registers, the tools and benchmarks.
* Concurrency outside the models: overlapping reads of one MemoryXz
  (`Elf::GetGlobalVariableOffset` takes no lock), enabling and disabling the Elf cache while it is
  used, weak_ptr races between Reparse and GetPrevRealMap, the destruction of a MemoryThreadCache.
  The hazards in `PROJECT.json` that no property covers say so in a note.
* The 32-bit build, and the layouts GlobalDebug reads (32 and 64 bits).
* Vendored libraries. Nine tenths of the lines under `src/` belong to other projects (lzma,
  libdexfile, libartbase, libziparchive and others). They are modelled by how `src/libunwindstack`
  uses them, except for the search of libdexfile for a method, so the mapped lines are a small share
  of all the lines under `src/`, though over a third of those of libunwindstack itself.
