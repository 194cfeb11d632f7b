----------------------------- MODULE DwarfEval -----------------------------
(***************************************************************************)
(* DwarfSectionImpl::Eval: a row of call frame information is applied to   *)
(* the registers, one by one and in place, in the order of an              *)
(* unordered_map; and DwarfOp, the stack machine for the expressions in    *)
(* it.  One action is one register, or one operation of an expression.     *)
(*                                                                         *)
(* Words have 8 bits.  Operations are decoded but for the operands that    *)
(* DwarfMemory reads, and branches count operations.                       *)
(***************************************************************************)
EXTENDS DwarfCfa, FiniteSets, Bitwise

CONSTANTS
    Rows,          \* [rules, return_address_register, is_signal_frame]
    Registers,     \* those below total_regs(), "sp" and "pc" among them
    CalleeRegs,    \* their values
    ProcessMemory  \* the words that can be read

Bits == 8
Word == 2 ^ Bits
Wrap(n) == n % Word
Signed(n) == IF n >= Word \div 2 THEN n - Word ELSE n
DEX1 == 49           \* stands for 'D' 'E' 'X' '1'
MaxIterations == 1000

\* RegsArm64::set_pc: the top bit stands for the authentication code of a signed address.
StripPac(pc, signed) == IF signed # 0 THEN pc % (Word \div 2) ELSE pc

VARIABLES
    row,
    at,                  \* where Eval is
    todo,                \* the registers that remain
    regs,
    saved,               \* RegsInfo: register -> its value in the callee
    cfa, dex_pc, ra_signed, return_address_undefined, finished,
    target,              \* the register of the expression that is evaluated
    stack_, cur, iterations, check_for_drop, dex_pc_set_, is_register_

evalVars == <<row, todo, regs, saved, cfa, dex_pc, ra_signed, return_address_undefined, finished>>
opVars == <<stack_, cur, iterations, check_for_drop, dex_pc_set_, is_register_>>
vars == <<at, evalVars, target, opVars>>

Init ==
    /\ row \in Rows
    /\ at = "start" /\ todo = DOMAIN row.rules \ {CFA_REG}
    /\ regs = CalleeRegs /\ saved = << >>
    /\ cfa = 0 /\ dex_pc = 7 /\ ra_signed \in {0, 1}     \* left by an earlier call
    /\ return_address_undefined = FALSE /\ finished = FALSE
    /\ target = CFA_REG
    /\ stack_ = << >> /\ cur = 1 /\ iterations = 0
    /\ check_for_drop = FALSE /\ dex_pc_set_ = FALSE /\ is_register_ = FALSE

\* Mutant: what a register is now.
GetNow(r) == regs[r]

\* RegsInfo::Get: what a register was before it was evaluated.
Get(r) == IF r \in DOMAIN saved THEN saved[r] ELSE regs[r]

\* DwarfOp::Eval begins.
BeginExpression(r) ==
    /\ at' = "expression" /\ target' = r
    /\ stack_' = << >> /\ cur' = 1 /\ iterations' = 0
    /\ check_for_drop' = FALSE /\ dex_pc_set_' = FALSE /\ is_register_' = FALSE

\* Eval, up to the loop over the registers.
Start ==
    LET rule == row.rules[CFA_REG]
        legal == row.return_address_register \in Registers /\ CFA_REG \in DOMAIN row.rules
    IN
    /\ at = "start"
    /\ dex_pc' = IF legal THEN 0 ELSE dex_pc
    /\ ra_signed' = IF legal THEN 0 ELSE ra_signed
    /\ IF ~legal \/ rule.type \notin {"register", "val_expression"}
          \/ (rule.type = "register" /\ rule.values[1] \notin Registers)
       THEN at' = "failed" /\ UNCHANGED <<cfa, target, opVars>>
       ELSE IF rule.type = "register"
       THEN at' = "registers" /\ cfa' = Wrap(regs[rule.values[1]] + rule.values[2])
            /\ UNCHANGED <<target, opVars>>
       ELSE BeginExpression(CFA_REG) /\ UNCHANGED cfa
    /\ UNCHANGED <<row, todo, regs, saved, return_address_undefined, finished>>

\* ReadFully into a register: one that fails may have changed a part of it.
ReadInto(r, a) ==
    IF a \in DOMAIN ProcessMemory
    THEN at' = "registers" /\ regs' = [regs EXCEPT ![r] = ProcessMemory[a]]
    ELSE at' = "failed" /\ \E v \in {regs[r], 0} : regs' = [regs EXCEPT ![r] = v]

\* An entry of the loop for a register below total_regs().
EvalRegister(r) ==
    LET rule == row.rules[r]
        v == rule.values
    IN
    /\ at = "registers" /\ r \in todo \cap Registers
    /\ todo' = todo \ {r}
    /\ saved' = [x \in DOMAIN saved \cup {r} |-> IF x = r THEN regs[r] ELSE saved[x]]
    /\ \/ /\ rule.type = "offset" /\ ReadInto(r, Wrap(cfa + v[1]))
          /\ UNCHANGED <<return_address_undefined, target, opVars>>
       \/ /\ rule.type = "val_offset" /\ regs' = [regs EXCEPT ![r] = Wrap(cfa + v[1])]
          /\ UNCHANGED <<at, return_address_undefined, target, opVars>>
       \/ /\ rule.type = "register"
          /\ IF v[1] \in Registers
             THEN regs' = [regs EXCEPT ![r] = Wrap(Get(v[1]) + v[2])] /\ UNCHANGED at
             ELSE at' = "failed" /\ UNCHANGED regs
          /\ UNCHANGED <<return_address_undefined, target, opVars>>
       \/ /\ rule.type \in {"expression", "val_expression"} /\ BeginExpression(r)
          /\ UNCHANGED <<regs, return_address_undefined>>
       \/ /\ rule.type = "undefined"
          /\ return_address_undefined' = (return_address_undefined \/ r = row.return_address_register)
          /\ UNCHANGED <<at, regs, target, opVars>>
       \/ /\ rule.type = "pseudo_register" /\ at' = "failed"
          /\ UNCHANGED <<regs, return_address_undefined, target, opVars>>
    /\ UNCHANGED <<row, cfa, dex_pc, ra_signed, finished>>

\* An entry for another one: SetPseudoRegister, or the register is skipped.
EvalUnknown(r) ==
    LET rule == row.rules[r]
    IN
    /\ at = "registers" /\ r \in todo \ Registers
    /\ todo' = todo \ {r}
    /\ IF rule.type # "pseudo_register" THEN UNCHANGED <<at, ra_signed>>
       ELSE IF r = RA_STATE THEN ra_signed' = rule.values[1] /\ UNCHANGED at
       ELSE at' = "failed" /\ UNCHANGED ra_signed
    /\ UNCHANGED <<row, regs, saved, cfa, dex_pc, return_address_undefined, finished, target, opVars>>

\* The end of Eval.
Finish ==
    LET ra == IF return_address_undefined THEN 0 ELSE regs[row.return_address_register]
        pc == StripPac(ra, ra_signed)
    IN
    /\ at = "registers" /\ todo = {}
    /\ at' = "done"
    /\ regs' = [regs EXCEPT !["pc"] = pc, !["sp"] = cfa]
    /\ finished' = (pc = 0 /\ ~row.is_signal_frame)
    /\ UNCHANGED <<row, todo, saved, cfa, dex_pc, ra_signed, return_address_undefined, target, opVars>>

(* DwarfOp.                                                                *)

code == row.rules[target].values[1]
cur_op == code[cur]
StackAt(i) == stack_[i + 1]
Below(n) == SubSeq(stack_, n + 1, Len(stack_))

\* A shift by as much as a word has bits, or more, is undefined: none, or by the count modulo it.
Counts(n) == IF n < Bits THEN {n} ELSE {n % Bits, Bits}

(* DwarfMemory: the values that bytes can be read as; none if they end too early. *)

\* The index of the last byte of a LEB128 number, or 0.
LastByte(bytes) ==
    LET ends == {i \in DOMAIN bytes : bytes[i] < 128}
    IN  IF ends = {} THEN 0 ELSE CHOOSE i \in ends : \A j \in ends : i <= j

ReadULEB128(bytes) ==
    LET last == LastByte(bytes)
        Part(i) == {Wrap((bytes[i] % 128) * 2 ^ n) : n \in Counts(7 * (i - 1))}
    IN  CASE last = 0 -> {}
          [] last = 1 -> Part(1)
          [] last = 2 -> {Wrap(x + y) : x \in Part(1), y \in Part(2)}

\* static_cast<uint64_t>(-1) << shift, if the number is negative.
SignBits(bytes) ==
    LET last == LastByte(bytes)
    IN  IF bytes[last] >= 64 THEN {Wrap((Word - 1) * 2 ^ n) : n \in Counts(7 * last)} ELSE {0}
ReadSLEB128(bytes) ==
    IF LastByte(bytes) = 0 THEN {} ELSE {x | y : x \in ReadULEB128(bytes), y \in SignBits(bytes)}

\* ReadEncodedValue, of the encodings of kCallbackTable; "read" stands for those of fixed size.
ReadEncodedValue(encoding, n, bytes) ==
    CASE encoding = "read"    -> {n}
      [] encoding = "udata1"  -> {bytes[i] : i \in DOMAIN bytes \cap {1}}
      [] encoding = "uleb128" -> ReadULEB128(bytes)
      [] encoding = "sleb128" -> ReadSLEB128(bytes)

Operands == ReadEncodedValue(cur_op.encoding, cur_op.n, cur_op.bytes)

\* kCallbackTable: how many values an operation needs on the stack.
num_required_stack_values ==
    CASE cur_op.name \in {"const", "const4u", "lit", "reg", "breg", "pick", "skip", "nop"} -> 0
      [] cur_op.name \in {"deref", "deref_size", "dup", "drop", "abs", "neg", "not", "plus_uconst", "bra"} -> 1
      [] cur_op.name = "rot" -> 3
      [] OTHER -> 2

Truth(b) == IF b THEN 1 ELSE 0
Quotient(a, b) ==
    LET q == (IF a < 0 THEN -a ELSE a) \div (IF b < 0 THEN -b ELSE b)
    IN  IF (a < 0) = (b < 0) THEN q ELSE -q

\* The results an operation of two values can have.
Binary(name, second, top) ==
    CASE name = "and"   -> {second & top}
      [] name = "or"    -> {second | top}
      [] name = "xor"   -> {second ^^ top}
      [] name = "plus"  -> {Wrap(second + top)}
      [] name = "minus" -> {Wrap(second - top)}
      [] name = "mul"   -> {Wrap(second * top)}
      [] name = "div"   -> {Wrap(Quotient(Signed(second), Signed(top)))}
      [] name = "mod"   -> {second % top}
      [] name = "shl"   -> {Wrap(second * 2 ^ n) : n \in Counts(top)}
      [] name = "shr"   -> {second \div 2 ^ n : n \in Counts(top)}
      [] name = "shra"  -> {Wrap(Signed(second) \div 2 ^ n) : n \in Counts(top)}
      [] name = "eq"    -> {Truth(second = top)}
      [] name = "ne"    -> {Truth(second # top)}
      [] name = "ge"    -> {Truth(second >= top)}
      [] name = "gt"    -> {Truth(second > top)}
      [] name = "le"    -> {Truth(second <= top)}
      [] name = "lt"    -> {Truth(second < top)}

Unary(name, n, top) ==
    CASE name = "abs" -> IF Signed(top) < 0 THEN Wrap(-Signed(top)) ELSE top
      [] name = "neg" -> Wrap(-Signed(top))
      [] name = "not" -> Word - 1 - top
      [] name = "plus_uconst" -> Wrap(top + n)
UnaryOps == {"abs", "neg", "not", "plus_uconst"}
BinaryOps == {"and", "or", "xor", "plus", "minus", "mul", "div", "mod", "shl", "shr", "shra",
              "eq", "ne", "ge", "gt", "le", "lt"}

\* The stacks after the operation; none if its handler returns false.
Stacks ==
    CASE cur_op.name \in {"const", "const4u", "lit", "reg"} -> {<<n>> \o stack_ : n \in Operands}
      [] cur_op.name = "breg" ->
            IF cur_op.reg \in Registers THEN {<<Wrap(Get(cur_op.reg) + n)>> \o stack_ : n \in Operands} ELSE {}
      [] cur_op.name \in {"deref", "deref_size"} ->
            IF StackAt(0) \in DOMAIN ProcessMemory /\ (cur_op.name = "deref_size" => cur_op.n = 1)
            THEN {<<ProcessMemory[StackAt(0)]>> \o Below(1)} ELSE {}
      [] cur_op.name = "dup"  -> {<<StackAt(0)>> \o stack_}
      [] cur_op.name \in {"drop", "bra"} -> {Below(1)}
      [] cur_op.name = "over" -> {<<StackAt(1)>> \o stack_}
      [] cur_op.name = "pick" -> IF cur_op.n < Len(stack_) THEN {<<StackAt(cur_op.n)>> \o stack_} ELSE {}
      [] cur_op.name = "swap" -> {<<StackAt(1), StackAt(0)>> \o Below(2)}
      [] cur_op.name = "rot"  -> {<<StackAt(1), StackAt(2), StackAt(0)>> \o Below(3)}
      [] cur_op.name \in UnaryOps -> {<<Unary(cur_op.name, n, StackAt(0))>> \o Below(1) : n \in Operands}
      [] cur_op.name \in BinaryOps ->
            IF cur_op.name \in {"div", "mod"} /\ StackAt(0) = 0 THEN {}
            ELSE {<<v>> \o Below(2) : v \in Binary(cur_op.name, StackAt(1), StackAt(0))}
      [] cur_op.name \in {"skip", "nop"} -> {stack_}
      [] OTHER -> {}                        \* illegal, or not implemented

\* One Decode of DwarfOp::Eval: the first two are unrolled to recognise a dex pc.
Decode ==
    LET jump == cur_op.name = "skip" \/ (cur_op.name = "bra" /\ StackAt(0) # 0)
        legal == cur_op.name # "illegal" /\ Len(stack_) >= num_required_stack_values
        stacks == IF legal THEN Stacks ELSE {}
    IN
    /\ at = "expression" /\ cur <= Len(code)
    /\ iterations' = iterations + 1
    /\ \/ /\ stacks = {} /\ at' = "failed"
          /\ UNCHANGED <<stack_, cur, check_for_drop, dex_pc_set_, is_register_>>
       \/ /\ stack_' \in stacks
          /\ cur' = cur + 1 + (IF jump THEN cur_op.n ELSE 0)
          /\ is_register_' = (is_register_ \/ cur_op.name = "reg")
          /\ check_for_drop' = IF iterations = 0 THEN cur_op.name = "const4u" /\ cur_op.n = DEX1 ELSE check_for_drop
          /\ dex_pc_set_' = (dex_pc_set_ \/ (iterations = 1 /\ check_for_drop /\ cur_op.name = "drop"))
          /\ at' = IF iterations = MaxIterations THEN "failed" ELSE at
    /\ UNCHANGED <<evalVars, target>>

\* The end of EvalExpression, and what is done with its value.
EvalExpression ==
    LET value == StackAt(0)
        type == row.rules[target].type
    IN
    /\ at = "expression" /\ cur > Len(code)
    /\ IF stack_ = << >> \/ is_register_ THEN at' = "failed" /\ UNCHANGED <<regs, cfa, dex_pc>>
       ELSE \/ target = CFA_REG /\ at' = "registers" /\ cfa' = value /\ UNCHANGED <<regs, dex_pc>>
            \/ /\ target # CFA_REG /\ type = "expression" /\ ReadInto(target, value)
               /\ UNCHANGED <<cfa, dex_pc>>
            \/ /\ target # CFA_REG /\ type = "val_expression" /\ at' = "registers"
               /\ regs' = [regs EXCEPT ![target] = value]
               /\ dex_pc' = IF dex_pc_set_ THEN value ELSE dex_pc
               /\ UNCHANGED cfa
    /\ UNCHANGED <<row, todo, saved, ra_signed, return_address_undefined, finished, target, opVars>>

\* The next call, for the same frame: what the last one left in the registers stays.
Again ==
    /\ at \in {"done", "failed"}
    /\ at' = "start" /\ todo' = DOMAIN row.rules \ {CFA_REG}
    /\ regs' = CalleeRegs /\ saved' = << >> /\ cfa' = 0
    /\ return_address_undefined' = FALSE /\ finished' = FALSE
    /\ UNCHANGED <<row, dex_pc, ra_signed, target, opVars>>

Next ==
    \/ Again
    \/ Start \/ Finish \/ Decode \/ EvalExpression
    \/ \E r \in todo : EvalRegister(r) \/ EvalUnknown(r)

Spec == Init /\ [][Next]_vars

(* Properties.                                                             *)

\* What an expression means, as a tree: the values it can have; none if it has no value.
RECURSIVE Denote(_)
Denote(t) ==
    CASE t.node = "const" -> {t.n}
      [] t.node = "breg"  -> IF t.reg \in Registers THEN {Wrap(CalleeRegs[t.reg] + t.n)} ELSE {}
      [] t.node = "deref" -> {ProcessMemory[a] : a \in Denote(t.a) \cap DOMAIN ProcessMemory}
      [] t.node = "if"    -> UNION {Denote(IF c # 0 THEN t.a ELSE t.b) : c \in Denote(t.c)}
      [] t.node = "none"  -> {}
      [] t.node \in UnaryOps -> {Unary(t.node, t.n, x) : x \in Denote(t.a)}
      [] t.node \in BinaryOps ->
            LET right == IF t.node \in {"div", "mod"} THEN Denote(t.b) \ {0} ELSE Denote(t.b)
            IN  UNION {Binary(t.node, x, y) : x \in Denote(t.a), y \in right}

\* The values a rule gives to a register of the caller, from the registers of the callee.
Caller(r, rule, c) ==
    LET v == rule.values
    IN  CASE rule.type = "offset"     -> {ProcessMemory[a] : a \in {Wrap(c + v[1])} \cap DOMAIN ProcessMemory}
          [] rule.type = "val_offset" -> {Wrap(c + v[1])}
          [] rule.type = "register"   -> {Wrap(CalleeRegs[x] + v[2]) : x \in {v[1]} \cap Registers}
          [] rule.type = "expression" -> {ProcessMemory[a] : a \in Denote(v[2].tree) \cap DOMAIN ProcessMemory}
          [] rule.type = "val_expression"  -> Denote(v[2].tree)
          [] rule.type = "undefined"       -> {CalleeRegs[r]}
          [] rule.type = "pseudo_register" -> {}

Rules == [r \in DOMAIN row.rules \cap Registers |-> row.rules[r]]
Pseudo == {r \in DOMAIN row.rules \ (Registers \cup {CFA_REG}) : row.rules[r].type = "pseudo_register"}
Cfas ==
    IF CFA_REG \notin DOMAIN row.rules \/ row.return_address_register \notin Registers THEN {}
    ELSE IF row.rules[CFA_REG].type \notin {"register", "val_expression"} THEN {}
    ELSE Caller("sp", row.rules[CFA_REG], 0)
DexRules == {r \in DOMAIN Rules : Rules[r].type = "val_expression" /\ Rules[r].values[2].dex}

(* Eval gives every register the value that its rule has in terms of the callee's registers and   *)
(* the CFA, although it changes them in place and in any order ("the code will read the value     *)
(* before doing the unwind", DwarfOp.cpp); sp becomes the CFA, pc the return address, and the dex *)
(* pc the value of the rule that is marked as one.  It fails only if a rule has no value: an      *)
(* expression that loops, or takes more from its stack than there is, among them.                 *)
EvalExact ==
    LET ra == row.return_address_register
        signed == IF RA_STATE \in Pseudo THEN row.rules[RA_STATE].values[1] ELSE 0
        Ras(c) == IF ra \notin DOMAIN Rules THEN {CalleeRegs[ra]}
                  ELSE IF Rules[ra].type = "undefined" THEN {0} ELSE Caller(ra, Rules[ra], c)
    IN
    /\ at = "done" =>
          \E c \in Cfas :
             /\ regs["sp"] = c
             /\ \E p \in Ras(c) : regs["pc"] = StripPac(p, signed)
             /\ \A r \in Registers \ {"sp", "pc"} :
                   IF r \in DOMAIN Rules THEN regs[r] \in Caller(r, Rules[r], c) ELSE regs[r] = CalleeRegs[r]
             /\ finished = (regs["pc"] = 0 /\ ~row.is_signal_frame)
             /\ IF DexRules = {} THEN dex_pc = 0 ELSE \E r \in DexRules : dex_pc \in Caller(r, Rules[r], c)
    /\ at = "failed" =>
          \/ Cfas = {}
          \/ Pseudo \notin {{}, {RA_STATE}}
          \/ \E r \in DOMAIN Rules, c \in Cfas : Caller(r, Rules[r], c) = {}
====
