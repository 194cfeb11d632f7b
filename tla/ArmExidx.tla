------------------------------ MODULE ArmExidx ------------------------------
(***************************************************************************)
(* ArmExidx (ArmExidx.cpp) and the rest of ElfInterfaceArm::StepExidx: the *)
(* unwind instructions of an .ARM.exidx entry are extracted from one of    *)
(* its forms and executed on the registers.  One action is one             *)
(* instruction.                                                            *)
(*                                                                         *)
(* A word is a sequence of four bytes, the most significant first; the     *)
(* process memory maps the addresses that can be read to their words.      *)
(***************************************************************************)
EXTENDS ElfInterfaceArm, Sequences, SequencesExt

CONSTANTS
    Ids, World(_) \* what is unwound: World(i) is [index, entries, regs, memory, caller, tidy]

VARIABLES
    which,        \* the one of Ids
    data_, cfa_, regs_, pc_set_, status_,
    finished

evalVars == <<data_, cfa_, regs_, pc_set_, status_, finished>>
vars == <<searchVars, which, evalVars>>

world == World(which)

SP == 13
LR == 14
PC == 15
FINISH == 176     \* ARM_OP_FINISH

Init ==
    /\ which \in Ids
    /\ index = world.index /\ SearchInit
    /\ data_ = << >> /\ regs_ = world.regs /\ cfa_ = 0 /\ pc_set_ = FALSE
    /\ status_ = "none" /\ finished = FALSE

\* A finish op is added if the data does not end with one.
WithFinish(data) == IF Last(data) = FINISH THEN data ELSE Append(data, FINISH)

\* The bytes of some words of the table an entry points to, after the first bytes.
Words(head, table, from, num) ==
    IF num > 5 THEN [status |-> "malformed", data |-> << >>]
    ELSE IF Len(table) < from + num - 1 THEN [status |-> "read_failed", data |-> << >>]
    ELSE [status |-> "none",
          data |-> WithFinish(head \o FlattenSeq(SubSeq(table, from, from + num - 1)))]

\* ExtractEntryData: word is the second word of the entry, if it can be read, table what it points to.
Extract(e) ==
    LET w == e.word
        t == e.table
    IN  IF e.offset % 2 # 0 THEN [status |-> "invalid_alignment", data |-> << >>]
        ELSE IF w = << >> THEN [status |-> "read_failed", data |-> << >>]
        ELSE IF w = <<0, 0, 0, 1>> THEN [status |-> "no_unwind", data |-> << >>]
        ELSE IF w[1] >= 128
        THEN IF w[1] % 16 # 0 THEN [status |-> "invalid_personality", data |-> << >>]
             ELSE [status |-> "none", data |-> WithFinish(Tail(w))]
        ELSE IF t = << >> THEN [status |-> "read_failed", data |-> << >>]
        ELSE IF t[1][1] >= 128
        THEN CASE t[1][1] % 16 = 0        -> Words(Tail(t[1]), t, 2, 0)
               [] t[1][1] % 16 \in {1, 2} -> Words(SubSeq(t[1], 3, 4), t, 2, t[1][2])
               [] OTHER                   -> [status |-> "invalid_personality", data |-> << >>]
        ELSE IF Len(t) < 2 THEN [status |-> "read_failed", data |-> << >>]
        ELSE Words(Tail(t[2]), t, 3, t[2][1])

ExtractEntryData ==
    LET x == Extract(world.entries[entry])
    IN
    /\ at = "entry"
    /\ data_' = x.data /\ status_' = x.status
    /\ cfa_' = regs_[SP] /\ pc_set_' = FALSE
    /\ at' = IF x.status = "none" THEN "decode" ELSE "evaluated"
    /\ UNCHANGED <<index, unreadable, addrs_, pc, first, last, entry, which, regs_, finished>>

byte == data_[1]
operand == data_[2]
Bit(n, i) == (n \div 2 ^ i) % 2 = 1

\* Decode returns true: n bytes used and the cfa changed.
Goes(n, cfa) ==
    /\ data_' = SubSeq(data_, n + 1, Len(data_))
    /\ cfa_' = cfa
    /\ UNCHANGED <<at, regs_, pc_set_, status_, finished>>

\* Decode returns false.
Ends(status) ==
    /\ status_' = status /\ at' = "evaluated"
    /\ UNCHANGED <<data_, cfa_, regs_, pc_set_, finished>>

\* The word of a register, if the registers of a set are popped in ascending order.
Slot(S, r) == cfa_ + 4 * Cardinality({q \in S : q < r})

\* Mutant: the registers are popped in descending order.
PopDown(S, n) ==
    LET Up(r) == cfa_ + 4 * Cardinality({q \in S : q > r})
        cfa == cfa_ + 4 * Cardinality(S)
    IN
    /\ regs_' = [r \in 0 .. 15 |->
                    IF r \in S /\ Up(r) \in DOMAIN world.memory THEN world.memory[Up(r)] ELSE regs_[r]]
    /\ data_' = SubSeq(data_, n + 1, Len(data_))
    /\ cfa_' = IF SP \in S THEN regs_'[SP] ELSE cfa
    /\ pc_set_' = (pc_set_ \/ PC \in S)
    /\ UNCHANGED <<at, status_, finished>>

\* Pop registers; those before one that cannot be read are popped.
Pop(S, n) ==
    LET popped == {r \in S : \A q \in S : q <= r => Slot(S, q) \in DOMAIN world.memory}
        cfa == cfa_ + 4 * Cardinality(popped)
    IN
    /\ regs_' = [r \in 0 .. 15 |-> IF r \in popped THEN world.memory[Slot(S, r)] ELSE regs_[r]]
    /\ data_' = SubSeq(data_, n + 1, Len(data_))
    /\ IF popped = S
       THEN /\ cfa_' = IF SP \in S THEN regs_'[SP] ELSE cfa
            /\ pc_set_' = (pc_set_ \/ PC \in S)
            /\ UNCHANGED <<at, status_>>
       ELSE /\ cfa_' = cfa
            /\ status_' = "read_failed" /\ at' = "evaluated"
            /\ UNCHANGED pc_set_
    /\ UNCHANGED finished

\* The bytes an instruction needs.
Needed ==
    IF data_ # << >> /\ byte \in 128 .. 143 \cup {177, 178, 179, 198, 199, 200, 201} THEN 2 ELSE 1

Truncated == Len(data_) < Needed /\ Ends("truncated")

\* 00xxxxxx and 01xxxxxx.
AddVsp ==
    /\ byte < 128
    /\ LET n == (byte % 64) * 4 + 4 IN Goes(1, IF byte < 64 THEN cfa_ + n ELSE cfa_ - n)

\* 1000iiii iiiiiiii
PopMask ==
    LET registers == (byte % 16) * 256 + operand
    IN
    /\ byte \in 128 .. 143
    /\ IF registers = 0 THEN Ends("no_unwind")
       ELSE Pop({r \in 4 .. 15 : Bit(registers, r - 4)}, 2)

\* 1001nnnn
SetVsp ==
    /\ byte \in 144 .. 159
    /\ IF byte % 16 \in {13, 15} THEN Ends("reserved") ELSE Goes(1, regs_[byte % 16])

\* 10100nnn and 10101nnn
PopR4 ==
    /\ byte \in 160 .. 175
    /\ Pop(4 .. (4 + (byte % 8)) \cup (IF Bit(byte, 3) THEN {LR} ELSE {}), 1)

Finish == byte = FINISH /\ Ends("finish")

\* 10110001 0000iiii
PopR0 ==
    /\ byte = 177
    /\ IF operand = 0 \/ operand >= 16 THEN Ends("spare")
       ELSE Pop({r \in 0 .. 3 : Bit(operand, r)}, 2)

\* 10110010 uleb128
AddVspUleb ==
    LET ends == {i \in 2 .. Len(data_) : data_[i] < 128 /\ \A j \in 2 .. i - 1 : data_[j] >= 128}
        Uleb(n) == MapThenSumSet(LAMBDA i : (data_[i] % 128) * 128 ^ (i - 2), 2 .. n)
    IN
    /\ byte = 178
    /\ IF ends = {} THEN Ends("truncated")
       ELSE \E n \in ends : Goes(n, cfa_ + 516 + 4 * Uleb(n))

\* Floating point and multimedia registers are not restored: by FSTMFDX, one word more is skipped.
SkipRegisters ==
    /\ \/ byte = 179 /\ Goes(2, cfa_ + (operand % 16) * 8 + 12)
       \/ byte \in 184 .. 191 /\ Goes(1, cfa_ + (byte % 8) * 8 + 12)
       \/ byte \in {198, 200, 201} /\ Goes(2, cfa_ + (operand % 16) * 8 + 8)
       \/ byte \in 192 .. 197 \cup 208 .. 215 /\ Goes(1, cfa_ + (byte % 8) * 8 + 8)
       \/ /\ byte = 199 /\ operand \in 1 .. 15
          /\ Goes(2, cfa_ + 4 * Cardinality({i \in 0 .. 3 : Bit(operand, i)}))

Spare ==
    /\ \/ byte \in 180 .. 183 \cup 202 .. 207 \cup 216 .. 255
       \/ byte = 199 /\ operand \notin 1 .. 15
    /\ Ends("spare")

Decode ==
    /\ at = "decode"
    /\ \/ Truncated
       \/ /\ Len(data_) >= Needed
          /\ \/ AddVsp \/ PopMask \/ SetVsp \/ PopR4 \/ Finish \/ PopR0 \/ AddVspUleb
             \/ SkipRegisters \/ Spare
    /\ UNCHANGED <<index, unreadable, addrs_, pc, first, last, entry, which>>

\* The end of StepExidx.
Evaluated ==
    /\ at = "evaluated"
    /\ IF status_ = "finish"
       THEN regs_' = [regs_ EXCEPT ![PC] = IF pc_set_ THEN @ ELSE regs_[LR], ![SP] = cfa_]
       ELSE UNCHANGED regs_
    /\ finished' = (status_ = "no_unwind" \/ (status_ = "finish" /\ regs_'[PC] = 0))
    /\ at' = IF status_ \in {"finish", "no_unwind"} THEN "stepped" ELSE "failed"
    /\ UNCHANGED <<index, unreadable, addrs_, pc, first, last, entry, which, data_, cfa_, pc_set_,
                   status_>>

\* The thread is unwound again from the same place: the caches stay.
Again ==
    /\ at \in {"stepped", "failed"}
    /\ at' = "idle" /\ pc' = 0 /\ first' = 0 /\ last' = 0 /\ entry' = None
    /\ data_' = << >> /\ regs_' = world.regs /\ cfa_' = 0 /\ pc_set_' = FALSE
    /\ status_' = "none" /\ finished' = FALSE
    /\ UNCHANGED <<index, unreadable, addrs_, which>>

Next ==
    \/ /\ (\E p \in Pcs : StepExidx(p)) \/ FindEntry \/ EntryBefore
       /\ UNCHANGED <<which, evalVars>>
    \/ ExtractEntryData \/ Decode \/ Evaluated \/ Again

Spec == Init /\ [][Next]_vars

(* Properties.                                                             *)

(* Unwinding a function that is in the middle of its body restores what its caller had: the       *)
(* registers it saved, the stack pointer before its prologue, and the return address as pc.  This *)
(* holds in every form an entry can have, and whatever the function saved, in which order.        *)
UndoesPrologue ==
    (at \in {"stepped", "failed"} /\ world.tidy /\ entry # None) =>
       at = "stepped" /\ \A r \in 4 .. 11 \cup {SP, PC} : regs_[r] = world.caller[r]
====
