---------------------------- MODULE MemoryRanges ----------------------------
(***************************************************************************)
(* The memories that are put together from others (Memory.cpp):            *)
(* MemoryRanges over the memory of a process, as MapInfo builds them,      *)
(* MemoryOfflineParts over files that were saved from one, and             *)
(* Memory::ReadString on top of either.  A byte is its place in what it is *)
(* read from.                                                              *)
(***************************************************************************)
EXTENDS Integers, Sequences, FiniteSetsExt

CONSTANTS
    Top,           \* UINT64_MAX
    PageSize,
    WordSize,      \* sizeof(uint64_t): where the start is kept in a saved file
    BufferSize,    \* of ReadString, 256
    Targets,       \* memory of a process: [unreadable, nuls], sets of addresses
    Ranges,        \* [begin, length, offset]
    Saved,         \* files: [size, at, start, length, header]; with a header, the start is in it
    MaxMembers,    \* ranges, or parts
    Strings        \* what ReadString is asked for: [addr, max_read]

RangesAssumption ==
    /\ WordSize \in Nat \ {0} /\ PageSize \in Nat \ {0} /\ BufferSize \in Nat \ {0}
    /\ \A s \in Strings : s.addr \in 0 .. Top /\ s.max_read \in Nat

VARIABLES
    shape,         \* "ranges", "parts", or "file" for a MemoryFileAtOffset alone
    target,
    maps_,         \* of MemoryRanges: from last addresses to ranges
    memories_,     \* of MemoryOfflineParts: [file, range]
    inserted,      \* ghost: the members that were accepted
    pc, call, offset, answer     \* ReadString

vars == <<shape, target, maps_, memories_, inserted, pc, call, offset, answer>>

NoString == [found |-> FALSE, bytes |-> <<>>]

Init ==
    /\ shape \in {"ranges", "parts", "file"} /\ target \in Targets
    /\ maps_ = [a \in {} |-> 0] /\ memories_ = <<>> /\ inserted = {}
    /\ pc = "idle" /\ call = [addr |-> 0, max_read |-> 0] /\ offset = 0 /\ answer = NoString

Bytes(from, n) == [i \in 1 .. n |-> from + i - 1]

\* The Read of the memory of a process: up to the first byte that is not readable.
TargetRead(addr, size) ==
    LET stops == {x \in addr .. addr + size - 1 : x > Top \/ x \in target.unreadable}
    IN  Bytes(addr, IF stops = {} THEN size ELSE Min(stops) - addr)

\* MemoryFileAtOffset::Init: how much of the file is mapped, from f.at on.
MappedSize(f, size) ==
    LET offset_ == f.at % PageSize
        size_ == f.size - (f.at - offset_)
        max_size == size + offset_
    IN  (IF max_size <= Top /\ max_size < size_ THEN max_size ELSE size_) - offset_

\* data_ when nothing is mapped: no place in a file.
Null == -2 * Top

\* MemoryFileAtOffset::Read, which does not look whether data_ is null.
FileRead(f, addr, size) ==
    IF addr >= f.size_ THEN <<>> ELSE Bytes(f.data_ + addr, Min({f.size_ - addr, size}))

\* Mutant: the length is not reduced by what is skipped.
LengthInRangeWhole(r, skip, size) == Min({size, r.length})
LengthInRange(r, skip, size) == Min({size, r.length - skip})

\* MemoryRange::Read: the read that is made of the memory under it, or none.
RangeRead(r, addr, size) ==
    LET skip == addr - r.offset
    IN  IF addr < r.offset \/ skip >= r.length \/ skip + r.begin > Top
        THEN [addr |-> 0, size |-> 0]
        ELSE [addr |-> skip + r.begin, size |-> LengthInRange(r, skip, size)]

LastAddr(r) == Min({r.offset + r.length, Top})

\* MemoryRanges::Insert
Insert(r) ==
    /\ shape = "ranges" /\ pc = "idle" /\ Cardinality(inserted) < MaxMembers
    /\ LastAddr(r) \notin DOMAIN maps_
    /\ maps_' = [a \in DOMAIN maps_ \cup {LastAddr(r)} |-> IF a = LastAddr(r) THEN r ELSE maps_[a]]
    /\ inserted' = inserted \cup {r}
    /\ UNCHANGED <<shape, target, memories_, pc, call, offset, answer>>

\* A range with the last address of another is deleted.
InsertRejected(r) ==
    /\ shape = "ranges" /\ pc = "idle" /\ LastAddr(r) \in DOMAIN maps_
    /\ UNCHANGED vars

\* MemoryRanges::Read
RangesRead(addr, size) ==
    LET above == {a \in DOMAIN maps_ : a > addr}
        under == RangeRead(maps_[Min(above)], addr, size)
    IN  IF above = {} THEN <<>> ELSE TargetRead(under.addr, under.size)

\* MemoryOffline::Init: the range of the file, which starts with its address or is given one.
Offline(f) ==
    LET file == [data_ |-> f.at, size_ |-> MappedSize(f, Top)]
    IN  [file |-> file,
         range |-> IF f.header
                   THEN [begin |-> WordSize, length |-> file.size_ - WordSize, offset |-> f.start]
                   ELSE [begin |-> 0, length |-> f.length, offset |-> f.start]]

InitFails(f) == f.at >= f.size \/ (f.header /\ Offline(f).file.size_ < WordSize)

\* MemoryOffline::Init and MemoryOfflineParts::Add
Add(f) ==
    /\ shape = "parts" /\ pc = "idle" /\ Len(memories_) < MaxMembers /\ ~InitFails(f)
    /\ memories_' = Append(memories_, Offline(f))
    /\ inserted' = inserted \cup {f}
    /\ UNCHANGED <<shape, target, maps_, pc, call, offset, answer>>

\* MemoryFileAtOffset::Init after the Clear of what was mapped before.
MapFile(f) ==
    /\ shape = "file" /\ pc = "idle" /\ f.at < f.size
    /\ memories_' = <<[file |-> [data_ |-> f.at, size_ |-> MappedSize(f, f.length)]]>>
    /\ inserted' = {f}
    /\ UNCHANGED <<shape, target, maps_, pc, call, offset, answer>>

\* It fails: Clear has set data_ to null, and size_ stays, or is that of the file if mmap failed.
MapFileFails(f) ==
    /\ shape = "file" /\ pc = "idle"
    /\ \/ memories_' = [i \in DOMAIN memories_ |-> [file |-> [memories_[i].file EXCEPT !.data_ = Null]]]
       \/ /\ f.at < f.size
          /\ memories_' = <<[file |-> [data_ |-> Null,
                                       size_ |-> MappedSize(f, f.length) + (f.at % PageSize)]]>>
    /\ inserted' = {}
    /\ UNCHANGED <<shape, target, maps_, pc, call, offset, answer>>

OfflineRead(m, addr, size) ==
    LET under == RangeRead(m.range, addr, size) IN FileRead(m.file, under.addr, under.size)

\* MemoryOfflineParts::Read: the first part that has anything.
PartsRead(addr, size) ==
    LET able == {i \in DOMAIN memories_ : OfflineRead(memories_[i], addr, size) # <<>>}
    IN  IF able = {} THEN <<>> ELSE OfflineRead(memories_[Min(able)], addr, size)

Read(addr, size) ==
    CASE shape = "ranges" -> RangesRead(addr, size)
      [] shape = "parts"  -> PartsRead(addr, size)
      [] shape = "file"   -> IF memories_ = <<>> THEN <<>> ELSE FileRead(memories_[1].file, addr, size)

\* Memory::ReadString
ReadString(s) ==
    /\ pc = "idle" /\ inserted # {}
    /\ pc' = "loop" /\ call' = s /\ offset' = 0 /\ answer' = NoString
    /\ UNCHANGED <<shape, target, maps_, memories_, inserted>>

Nuls(bytes) == {i \in DOMAIN bytes : bytes[i] \in target.nuls}

\* The terminator is in what was read at offset: the string is the last block, or is read again.
\* Mutant: the last block is returned whatever the offset.
StringAtLast(block) == [found |-> TRUE, bytes |-> SubSeq(block, 1, Min(Nuls(block)) - 1)]
StringAt(block) ==
    LET length == Min(Nuls(block)) - 1
        whole == Read(call.addr, offset + length)
    IN  IF offset = 0 THEN [found |-> TRUE, bytes |-> SubSeq(block, 1, length)]
        ELSE IF Len(whole) = offset + length THEN [found |-> TRUE, bytes |-> whole]
        ELSE NoString

\* One iteration of its loop.
StringBlock ==
    LET block == Read((call.addr + offset) % (Top + 1), Min({BufferSize, call.max_read - offset}))
    IN
    /\ pc = "loop"
    /\ IF offset < call.max_read /\ block # <<>> /\ Nuls(block) = {}
       THEN offset' = offset + Len(block) /\ UNCHANGED <<pc, answer>>
       ELSE /\ pc' = "done" /\ UNCHANGED offset
            /\ answer' = IF offset < call.max_read /\ block # <<>> THEN StringAt(block) ELSE NoString
    /\ UNCHANGED <<shape, target, maps_, memories_, inserted, call>>

StringUsed ==
    /\ pc = "done" /\ pc' = "idle"
    /\ call' = [addr |-> 0, max_read |-> 0] /\ offset' = 0 /\ answer' = NoString
    /\ UNCHANGED <<shape, target, maps_, memories_, inserted>>

Next ==
    \/ \E r \in Ranges : Insert(r) \/ InsertRejected(r)
    \/ \E f \in Saved : Add(f) \/ MapFile(f) \/ MapFileFails(f)
    \/ \E s \in Strings : ReadString(s)
    \/ StringBlock \/ StringUsed

Spec == Init /\ [][Next]_vars

(* Properties.                                                             *)

\* A member: the addresses it stands for, and what is at the first of them.
Member(x) ==
    CASE shape = "ranges" -> [from |-> x.offset, to |-> x.offset + x.length, at |-> x.begin]
      [] shape = "file"   -> [from |-> 0, to |-> Min({x.length, x.size - x.at}), at |-> x.at]
      [] shape = "parts"  ->
            LET at == IF x.header THEN x.at + WordSize ELSE x.at
            IN  [from |-> x.start, at |-> at,
                 to |-> x.start + (IF x.header THEN x.size - at ELSE Min({x.length, x.size - at}))]

Disjoint == \A x, y \in inserted :
    x # y => Member(x).to <= Member(y).from \/ Member(y).to <= Member(x).from

Reachable(m, addr) ==
    /\ m.from <= addr /\ addr < m.to
    /\ shape = "ranges" => m.at + addr - m.from \in (0 .. Top) \ target.unreadable

\* Init has failed after it had set size_.
InitFailed == shape = "file" /\ memories_ # <<>> /\ inserted = {}

(* A read of a memory made of parts that do not overlap returns what its part has at the address, *)
(* up to the end of the part or to a byte that cannot be read: in any order of Insert or Add, at  *)
(* the boundaries of parts, pages and the 64-bit space, and nothing between the parts             *)
(* (MemoryRanges, MemoryRange, MemoryOfflineParts, MemoryOffline, MemoryFileAtOffset).            *)
(* MemoryRanges never finds the last address of the space: the key of a range that reaches it is  *)
(* clamped to that address, and upper_bound looks for a larger one.  Left out is a                *)
(* MemoryFileAtOffset whose Init has failed: size_ is not reset, and a Read copies from null.     *)
PartsExact ==
    pc = "idle" /\ Disjoint /\ ~InitFailed =>
       \A addr \in 0 .. Top, size \in 0 .. BufferSize + 1 :
          LET bytes == Read(addr, size)
              members == {m \in {Member(x) : x \in inserted} : Reachable(m, addr)}
          IN  IF members = {} \/ size = 0 \/ (shape = "ranges" /\ addr = Top) THEN bytes = <<>>
              ELSE LET m == CHOOSE m \in members : TRUE
                       n == Len(bytes)
                   IN  /\ bytes = Bytes(m.at + addr - m.from, n)
                       /\ n <= size
                       /\ \A i \in 0 .. n - 1 : Reachable(m, addr + i)
                       /\ n < size => ~Reachable(m, addr + n)

(* ReadString finds the string at addr, if it is terminated within max_read bytes and does not go *)
(* on from one part into another, in however many blocks it is looked for, and returns it without *)
(* what follows; it finds nothing otherwise, and no pieces (Memory::ReadString).  Left out are    *)
(* strings looked for past the last address, where addr + offset wraps.                           *)
StringExact ==
    pc = "done" /\ Disjoint /\ call.addr + call.max_read <= Top + 1 =>
       LET At(k) == Read(call.addr + k, 1)
           ends == {k \in 0 .. call.max_read - 1 :
                       Nuls(At(k)) # {} /\ \A i \in 0 .. k - 1 : At(i) # <<>> /\ Nuls(At(i)) = {}}
           strings == {Read(call.addr, k) : k \in {n \in ends : Len(Read(call.addr, n)) = n}}
       IN  /\ answer.found <=> strings # {}
           /\ answer.found => answer.bytes \in strings
=============================================================================
