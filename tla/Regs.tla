-------------------------------- MODULE Regs --------------------------------
(***************************************************************************)
(* How the registers of a caller are found where there is no unwind        *)
(* information to say so.  StepIfSignalHandler (Regs*.cpp) takes them from *)
(* the frame the kernel made for a signal, by offsets written as numbers;  *)
(* GetPcAdjustment (Regs.cpp) goes back from a return address to the call. *)
(***************************************************************************)
EXTENDS Integers, Sequences, Functions

CONSTANTS
    Limits,        \* how much of the stack can be read, in bytes from sp on
    CallSites      \* [arch, rel_pc, size, tops, valid, load_bias, readable]: where GetPcAdjustment is asked;
                   \*   size is that of the call before rel_pc, with its delay slot, or 0 if there is none;
                   \*   tops the high bits of the two halfwords before rel_pc: four of one, three of the other

VARIABLES
    arch, form,    \* the processor, and the kind of frame at sp, or "none": then the pc is not in
                   \*   sigreturn code, or the code cannot be read, or is not in a valid Elf
    stack,         \* the frame: where uc_mcontext starts and ends, and where each register is saved in it
    limit,
    regs_,         \* whose value each register has: <<"saved", r>>, <<"handler", r>>, or <<"mixed", r>>
    state,         \* "entered", "stepped", "refused", "copied"; "asked" and "adjusted" for a call site
    site, adjustment

vars == <<arch, form, stack, limit, regs_, state, site, adjustment>>

\* Structures of Ucontext*.h: sequences of arrays, aligned to the size of an element, that hold
\* registers or what is of no interest here.
Other == -1
Blank(n, size) == [n |-> n, size |-> size, regs |-> <<>>]
Saves(regs, size) == [n |-> Len(regs), size |-> size, regs |-> regs]
Numbers(n) == [i \in 1 .. n |-> i - 1]
AlignUp(x, align) == ((x + align - 1) \div align) * align
OffsetOf(arrays, k) ==
    LET at[i \in 1 .. Len(arrays)] ==
          IF i = 1 THEN 0 ELSE AlignUp(at[i - 1] + arrays[i - 1].n * arrays[i - 1].size, arrays[i].size)
    IN  at[k]
SizeOf(arrays) == OffsetOf(Append(arrays, Blank(1, 1)), Len(arrays) + 1)

\* What is before uc_mcontext, its alignment, and uc_mcontext as far as it is used.
ArmContext ==
    [before |-> <<Blank(2, 4), Blank(3, 4)>>, align |-> 4, mcontext |-> <<Blank(3, 4), Saves(Numbers(16), 4)>>]
Arm64Context ==
    [before |-> <<Blank(2, 8), Blank(1, 8), Blank(1, 4), Blank(1, 8), Blank(1, 8), Blank(120, 1)>>, align |-> 16,
     mcontext |-> <<Blank(1, 8), Saves(Numbers(34), 8)>>]
X86Context ==
    [before |-> <<Blank(2, 4), Blank(3, 4)>>, align |-> 4,
     mcontext |-> <<Blank(4, 4), Saves(<<7, 6, 5, 4, 3, 2, 1, 0>>, 4), Blank(2, 4), Saves(<<8>>, 4), Blank(4, 4)>>]
X86_64Context ==
    [before |-> <<Blank(2, 8), Blank(1, 8), Blank(2, 4), Blank(1, 8)>>, align |-> 8,
     mcontext |-> <<Saves(<<8, 9, 10, 11, 12, 13, 14, 15, 5, 4, 6, 3, 1, 0, 2, 7, 16>>, 8), Blank(6, 8)>>]
MipsContext ==
    [before |-> <<Blank(2, 4), Blank(3, 4)>>, align |-> 8,
     mcontext |-> <<Blank(2, 4), Saves(<<32>>, 8), Saves(Numbers(32), 8)>>]
Mips64Context ==
    [before |-> <<Blank(2, 8), Blank(2, 8), Blank(1, 4)>>, align |-> 8,
     mcontext |-> <<Saves(Numbers(32), 8), Blank(32, 8), Blank(8, 8), Saves(<<32>>, 8)>>]
Riscv64Context ==
    [before |-> <<Blank(2, 8), Blank(1, 8), Blank(1, 4), Blank(1, 8), Blank(1, 8), Blank(120, 1)>>, align |-> 16,
     mcontext |-> <<Saves(Numbers(32), 8)>>]

Contexts ==
    [arm |-> ArmContext, arm64 |-> Arm64Context, x86 |-> X86Context, x86_64 |-> X86_64Context,
     mips |-> MipsContext, mips64 |-> Mips64Context, riscv64 |-> Riscv64Context]
Archs == DOMAIN Contexts

Mcontext(a) == AlignUp(SizeOf(Contexts[a].before), Contexts[a].align)
RegsOf(a) == UNION {Range(Contexts[a].mcontext[k].regs) : k \in 1 .. Len(Contexts[a].mcontext)}
OffsetIn(a, r) ==
    LET arrays == Contexts[a].mcontext
        k == CHOOSE j \in 1 .. Len(arrays) : r \in Range(arrays[j].regs)
        i == CHOOSE j \in 1 .. arrays[k].n : arrays[k].regs[j] = r
    IN  OffsetOf(arrays, k) + (i - 1) * arrays[k].size

\* The frames of the kernel: where uc_mcontext is, from sp on.  A siginfo_t has 128 bytes.
Frames ==
    {[arch |-> a, form |-> "none", at |-> 0] : a \in Archs}
    \cup {[arch |-> a, form |-> "rt", at |-> 128 + Mcontext(a)] : a \in {"arm", "arm64", "riscv64"}}
    \cup {[arch |-> a, form |-> "rt", at |-> 24 + 128 + Mcontext(a)] : a \in {"mips", "mips64"}}
    \cup {[arch |-> "arm", form |-> "old rt", at |-> 8 + 128 + Mcontext("arm")],
          [arch |-> "arm", form |-> "sigframe", at |-> Mcontext("arm")],
          [arch |-> "arm", form |-> "old sigframe", at |-> 0],
          [arch |-> "x86", form |-> "rt", at |-> 12 + 128 + Mcontext("x86")],
          [arch |-> "x86", form |-> "sigframe", at |-> 4],
          [arch |-> "x86_64", form |-> "rt", at |-> Mcontext("x86_64")],
          [arch |-> "mips", form |-> "sigframe", at |-> 24]}
StackOf(a, at) ==
    [at |-> at, end |-> at + SizeOf(Contexts[a].mcontext), saved |-> [r \in RegsOf(a) |-> at + OffsetIn(a, r)]]

\* What each StepIfSignalHandler reads: after the first bytes, which tell the kinds of frame apart,
\* each register from an offset, straight into regs_ or by way of a copy of size bytes.
Plan(first, from, size, direct, takes) ==
    [first |-> first, from |-> from, size |-> size, direct |-> direct, takes |-> takes]
InOrder(n, from, size) == {<<r, from + r * size>> : r \in 0 .. n - 1}
ByName(a, from, regs) == {<<r, from + OffsetIn(a, r)>> : r \in regs}

\* The system call at the pc, and the first word of an arm frame.
Call == IF form \in {"sigframe", "old sigframe"} THEN "sigreturn" ELSE "rt_sigreturn"
FirstWord == CASE form = "sigframe" -> "0x5ac3c35a" [] form = "old rt" -> "sp + 8" [] OTHER -> "other"

\* Mutant: the two kinds of frame with a siginfo are taken for one.
ArmStepNewOnly ==
    LET from == IF Call = "sigreturn"
                THEN IF FirstWord = "0x5ac3c35a" THEN 20 + 12 ELSE 12
                ELSE 128 + 20 + 12
    IN  Plan(4, from, 4 * 16, TRUE, InOrder(16, from, 4))
ArmStep ==
    LET from == IF Call = "sigreturn"
                THEN IF FirstWord = "0x5ac3c35a" THEN 20 + 12 ELSE 12
                ELSE IF FirstWord = "sp + 8" THEN 8 + 128 + 20 + 12 ELSE 128 + 20 + 12
    IN  Plan(4, from, 4 * 16, TRUE, InOrder(16, from, 4))
Arm64Step == Plan(0, 128 + 176 + 8, 8 * 34, TRUE, InOrder(34, 128 + 176 + 8, 8))
X86Step ==
    IF Call = "sigreturn" THEN Plan(0, 4, 4 * 19, FALSE, ByName("x86", 4, RegsOf("x86") \ {6, 7}))
    ELSE LET ptr == 12 + 128 \* where the third argument points
         IN  Plan(12, ptr + 20, 4 * 19, FALSE, ByName("x86", ptr + 20, RegsOf("x86")))
X86_64Step == Plan(0, 40, 8 * 23, FALSE, ByName("x86_64", 40, RegsOf("x86_64")))
MipsStep ==
    LET from == IF Call = "rt_sigreturn" THEN 24 + 128 + 24 + 8 ELSE 24 + 8
    IN  Plan(0, from, 8 * 33, FALSE, {<<32, from>>} \cup InOrder(32, from + 8, 8))
Mips64Step ==
    LET from == 24 + 128 + 40
    IN  Plan(0, from, 576 + 8, TRUE, {<<32, from + 576>>} \cup InOrder(32, from, 8))
Riscv64Step == Plan(0, 128 + 176, 8 * 32, TRUE, InOrder(32, 128 + 176, 8))

StepOf ==
    CASE arch = "arm" -> ArmStep [] arch = "arm64" -> Arm64Step [] arch = "x86" -> X86Step
      [] arch = "x86_64" -> X86_64Step [] arch = "mips" -> MipsStep [] arch = "mips64" -> Mips64Step
      [] arch = "riscv64" -> Riscv64Step

Regs == DOMAIN stack.saved
AsEntered == [r \in Regs |-> <<"handler", r>>]
NoSite == [arch |-> "none"]
NoStack == [at |-> 0, end |-> 0, saved |-> <<>>]

Init ==
    /\ adjustment = 0
    /\ \/ /\ \E f \in Frames : arch = f.arch /\ form = f.form /\ stack = StackOf(f.arch, f.at)
          /\ limit \in Limits /\ regs_ = AsEntered /\ state = "entered" /\ site = NoSite
       \/ /\ site \in CallSites /\ arch = site.arch /\ state = "asked"
          /\ form = "none" /\ stack = NoStack /\ limit = 0 /\ regs_ = AsEntered

WordSize == IF arch \in {"arm", "x86"} THEN 4 ELSE 8
\* The value a register gets from an offset, if it is read in one piece, and if it may be cut off.
ReadAt(offset) ==
    LET regs == {r \in Regs : stack.saved[r] = offset}
    IN  <<"saved", IF regs = {} THEN Other ELSE CHOOSE r \in regs : TRUE>>
ReadUpTo(r, offset) ==
    IF offset >= limit THEN regs_[r]
    ELSE IF offset + WordSize > limit THEN <<"mixed", r>> ELSE ReadAt(offset)

StepIfSignalHandler ==
    LET p == StepOf
        \* RegsMips64 calls Read, not ReadFully: a part of each will do.
        enough == IF arch = "mips64" THEN p.from + 576 < limit ELSE p.from + p.size <= limit
        offset(r) == (CHOOSE x \in p.takes : x[1] = r)[2]
        found == {x[1] : x \in p.takes}
    IN
    /\ state = "entered"
    /\ \/ /\ form = "none" \/ limit < p.first
          /\ state' = "refused" /\ UNCHANGED regs_
       \/ /\ form # "none" /\ limit >= p.first
          /\ state' = IF enough THEN "stepped" ELSE "refused"
          /\ regs_' = [r \in Regs |->
                         IF r \in found /\ p.direct THEN ReadUpTo(r, offset(r))
                         ELSE IF r \in found /\ enough THEN ReadAt(offset(r)) ELSE regs_[r]]
    /\ UNCHANGED <<arch, form, stack, limit, site, adjustment>>

\* CreateFromUcontext, of the ucontext a handler gets, which the process can read.  For mips it makes
\* nothing.
CreateFromUcontext ==
    /\ state = "entered" /\ form # "none" /\ arch \notin {"mips", "mips64"}
    /\ regs_' = [r \in Regs |-> ReadAt(stack.at + OffsetIn(arch, r))]
    /\ state' = "copied"
    /\ UNCHANGED <<arch, form, stack, limit, site, adjustment>>

ArmAdjustment(s) ==
    LET adjusted_rel_pc == s.rel_pc - s.load_bias
    IN  IF ~s.valid THEN 2
        ELSE IF s.rel_pc < s.load_bias THEN IF s.rel_pc < 2 THEN 0 ELSE 2
        ELSE IF adjusted_rel_pc < 5 THEN IF adjusted_rel_pc < 2 THEN 0 ELSE 2
        \* (value & 0xe000f000) == 0xe000f000
        ELSE IF adjusted_rel_pc % 2 = 1 /\ (~s.readable \/ s.tops # <<15, 7>>) THEN 2
        ELSE 4
PcAdjustment(s) ==
    CASE s.arch = "arm" -> ArmAdjustment(s)
      [] s.arch \in {"arm64", "riscv64"} -> IF s.rel_pc < 4 THEN 0 ELSE 4
      [] s.arch \in {"mips", "mips64"} -> IF s.rel_pc < 8 THEN 0 ELSE 8
      [] s.arch \in {"x86", "x86_64"} -> IF s.rel_pc = 0 THEN 0 ELSE 1

GetPcAdjustment ==
    /\ state = "asked"
    /\ state' = "adjusted" /\ adjustment' = PcAdjustment(site)
    /\ UNCHANGED <<arch, form, stack, limit, regs_, site>>

\* The caller has its answer.
Return == state \notin {"entered", "asked"} /\ UNCHANGED vars

Next == StepIfSignalHandler \/ CreateFromUcontext \/ GetPcAdjustment \/ Return

Spec == Init /\ [][Next]_vars

(* Properties.                                                             *)

RegsAsSaved == \A r \in Regs :
    regs_[r] = <<"saved", r>> \/ (arch = "x86" /\ form = "sigframe" /\ r \in {6, 7} /\ state = "stepped")
FrameReadable == stack.end <= limit
ReadsDirectly == arch \in {"arm", "arm64", "mips64", "riscv64"}

(* The caller is found.  From the sigreturn code of every processor and kind of frame,            *)
(* StepIfSignalHandler gets the registers that a handler is given in its ucontext, whatever the   *)
(* numbers it finds them by; elsewhere, and if the frame cannot be read, it leaves the registers  *)
(* as they are.  A return address less GetPcAdjustment is an address inside the call, also in     *)
(* thumb code, at the start of a file and if the file cannot be read; and what is no return       *)
(* address is not taken below 0.  Exceptions: edi and esi of an x86 frame without siginfo; frames *)
(* of which a part can be read, where four processors read straight into regs_; and rel_pc 0 or 1 *)
(* in what is no arm Elf.                                                                         *)
CallerFound ==
    /\ state = "stepped" /\ FrameReadable => RegsAsSaved
    /\ state = "copied" => RegsAsSaved
    /\ state = "refused" =>
          /\ form = "none" \/ ~FrameReadable
          /\ form = "none" \/ ~ReadsDirectly \/ limit <= stack.at => regs_ = AsEntered
    /\ state = "adjusted" =>
          LET end == site.rel_pc - (IF site.arch = "arm" THEN site.rel_pc % 2 ELSE 0)
          IN  IF site.size > 0
              THEN site.rel_pc - adjustment \in end - site.size .. end - 1
              ELSE adjustment <= site.rel_pc \/ (site.arch = "arm" /\ ~site.valid)
=============================================================================
