------------------------------ MODULE MemoryXz ------------------------------
(***************************************************************************)
(* Compressed debug data (MemoryXz.cpp): blocks that are decompressed when *)
(* they are first read.  A byte is its position in the decompressed data.  *)
(* One caller at a time: Elf::Step and Elf::GetFunctionName hold           *)
(* Elf::lock_, but Elf::GetGlobalVariableOffset reads without it, and      *)
(* overlapping reads are not modelled.                                     *)
(***************************************************************************)
EXTENDS Integers, Sequences, FiniteSetsExt, SequencesExt

CONSTANTS
    Files,          \* decompressed sizes of the blocks, in order
    MaxAddr, MaxSize

XzAssumption == \A f \in Files : \A i \in DOMAIN f : f[i] \in Nat \ {0}

VARIABLES
    file, bad,      \* what is in memory: block sizes, and the blocks that cannot be decompressed
    blocks_,        \* [data, size]; data is <<>> until the block is decompressed
    block_size_log2_, used_, size_,
    state,          \* "new", "ready", or "failed" once Init has returned false
    got             \* ghost: the last Read, [addr, size, bytes]

vars == <<file, bad, blocks_, block_size_log2_, used_, size_, state, got>>

NoRead == [addr |-> 0, size |-> 0, bytes |-> <<>>]

Init ==
    /\ file \in Files /\ bad \in SUBSET (DOMAIN file)
    /\ blocks_ = <<>> /\ block_size_log2_ = 31 /\ used_ = 0 /\ size_ = 0
    /\ state = "new" /\ got = NoRead

SizeOf(f) == FoldLeft(LAMBDA n, b : n + b, 0, f)
Start(i) == SizeOf(SubSeq(file, 1, i - 1))

\* What Decompress makes of block i.
Content(i) == [k \in 1 .. file[i] |-> Start(i) + k - 1]

\* __builtin_ctz
Ctz(n) == CHOOSE k \in 0 .. n : n % 2^k = 0 /\ n % 2^(k + 1) # 0

\* Mutant: the size of the last block is not looked at.
ConsistentButLast == \A i \in 1 .. Len(file) - 1 : file[i] = 2^Ctz(file[1])

\* All blocks but the last have the same power-of-two size, and the last is no larger.
Consistent ==
    LET n == Len(file)
    IN  /\ \A i \in 1 .. n - 1 : file[i] = 2^Ctz(file[1])
        /\ file[n] <= 2^Ctz(file[1])

Lazy == [i \in DOMAIN file |-> [data |-> <<>>, size |-> file[i]]]

\* MemoryXz::Init: the blocks stay lazy if a shift finds the block of an address, and are merged
\* at once if not.
InitBlocks ==
    /\ state = "new"
    /\ size_' = SizeOf(file)
    /\ \/ /\ file = <<>>
          /\ state' = "failed" /\ blocks_' = <<>>
          /\ UNCHANGED <<block_size_log2_, used_>>
       \/ /\ Len(file) = 1 \/ (Len(file) > 1 /\ Consistent)
          /\ state' = "ready" /\ blocks_' = Lazy
          /\ block_size_log2_' = IF Len(file) = 1 THEN 31 ELSE Ctz(file[1])
          /\ UNCHANGED used_
       \/ /\ Len(file) > 1 /\ ~Consistent /\ bad = {}
          /\ state' = "ready"
          /\ blocks_' = <<[data |-> FlattenSeq([i \in DOMAIN file |-> Content(i)]), size |-> SizeOf(file)]>>
          /\ block_size_log2_' = 31
          /\ used_' = used_ + SizeOf(file)
       \/ /\ Len(file) > 1 /\ ~Consistent /\ bad # {}
          /\ state' = "failed"
          /\ LET upto == Min(bad) - 1
             IN  /\ blocks_' = [i \in DOMAIN file |->
                                  [data |-> IF i <= upto THEN Content(i) ELSE <<>>, size |-> file[i]]]
                 /\ used_' = used_ + SizeOf(SubSeq(file, 1, upto))
          /\ UNCHANGED block_size_log2_
    /\ UNCHANGED <<file, bad, got>>

MustDecompress(block) == block.data = <<>>

\* addr >> block_size_log2_, and its inverse.  A shift by 31 leaves nothing of an address in
\* 0 .. MaxAddr.
BlockOf(addr) == IF block_size_log2_ = 31 THEN 1 ELSE addr \div 2^block_size_log2_ + 1
BlockStart(i) == IF i = 1 THEN 0 ELSE (i - 1) * 2^block_size_log2_

\* One iteration of the loop of Read, for block i.
ReadBlock(s, i) ==
    LET block == s.blocks[i]
        fails == MustDecompress(block) /\ i \in bad
        data == IF MustDecompress(block) THEN Content(i) ELSE block.data
        offset == s.addr - BlockStart(i)
        n == Min({s.size, block.size - offset})
    IN  IF s.stop THEN s
        ELSE IF fails THEN [s EXCEPT !.stop = TRUE]
        ELSE [blocks |-> [s.blocks EXCEPT ![i].data = data],
              used |-> s.used + (IF MustDecompress(block) THEN block.size ELSE 0),
              bytes |-> s.bytes \o SubSeq(data, offset + 1, offset + n),
              addr |-> s.addr + n, size |-> s.size - n, stop |-> s.size = n]

\* MemoryXz::Read
Read(addr, size) ==
    LET first == BlockOf(addr)
        start == [blocks |-> blocks_, used |-> used_, bytes |-> <<>>, addr |-> addr, size |-> size,
                  stop |-> addr >= size_]
        s == FoldLeft(ReadBlock, start, [k \in 1 .. Len(blocks_) - first + 1 |-> first + k - 1])
    IN
    /\ state = "ready"
    /\ blocks_' = s.blocks /\ used_' = s.used
    /\ got' = [addr |-> addr, size |-> size, bytes |-> s.bytes]
    /\ UNCHANGED <<file, bad, block_size_log2_, size_, state>>

\* The owner drops a MemoryXz that could not be initialised.
Dropped == state = "failed" /\ UNCHANGED vars

Next ==
    \/ InitBlocks \/ Dropped
    \/ \E addr \in 0 .. MaxAddr, size \in 0 .. MaxSize : Read(addr, size)

Spec == Init /\ [][Next]_vars

(* Properties.                                                             *)

(* Read returns the decompressed data from addr on, whatever the sizes of the blocks and whatever *)
(* was read before: all that was asked for, up to the end or to a block that is corrupt.          *)
ReadExact ==
    LET n == Len(got.bytes)
        end == got.addr + n
    IN  /\ \A i \in 1 .. n : got.bytes[i] = got.addr + i - 1
        /\ n <= got.size
        /\ n < got.size => end >= size_ \/ \E i \in bad : Start(i) = end
                                                      \/ (n = 0 /\ Start(i) <= end /\ end < Start(i) + file[i])
=============================================================================
