------------------------------ MODULE DwarfCfa ------------------------------
(***************************************************************************)
(* Call frame information (DwarfCfa.cpp): a program that builds, row by    *)
(* row, the table that says where each register of the caller is.          *)
(* GetLocationInfo runs it until it has the row of one pc.                 *)
(*                                                                         *)
(* Instructions are decoded: "set" stands for every instruction that gives *)
(* a register a rule of its own (offset, undefined, register, expression,  *)
(* val_offset, def_cfa, ... with or without factors).                      *)
(***************************************************************************)
EXTENDS Integers, Sequences, SequencesExt

CFA_REG  == "cfa"
RA_STATE == "ra_sign_state"       \* ARM64_PREG_RA_SIGN_STATE

Rule(type, v0, v1) == [type |-> type, values |-> <<v0, v1>>]

\* A partial function from registers to rules.
NoRules == [r \in {} |-> Rule("undefined", 0, 0)]
SetRule(regs, r, rule) == [x \in DOMAIN regs \cup {r} |-> IF x = r THEN rule ELSE regs[x]]
Erase(regs, r) == [x \in DOMAIN regs \ {r} |-> regs[x]]

\* The rules of c over those of regs.
Overlay(regs, c) == [x \in DOMAIN regs \cup DOMAIN c |-> IF x \in DOMAIN c THEN c[x] ELSE regs[x]]

CfaIsRegister(regs) == CFA_REG \in DOMAIN regs /\ regs[CFA_REG].type = "register"

\* cie is [known |-> FALSE] while the instructions of the CIE themselves are run.
cfa_restore(loc, cie, r) ==
    IF r \in DOMAIN cie.regs THEN SetRule(loc.regs, r, cie.regs[r]) ELSE Erase(loc.regs, r)

\* *loc_regs = loc_reg_state_.top(): the range goes with the rules.
cfa_restore_state(s) ==
    IF s.saved = <<>> THEN s
    ELSE [s EXCEPT !.loc = Last(s.saved), !.saved = Front(s.saved)]

cfa_aarch64_negate_ra_state(regs) ==
    IF RA_STATE \in DOMAIN regs
    THEN [regs EXCEPT ![RA_STATE].values[1] = 1 - @]
    ELSE SetRule(regs, RA_STATE, Rule("pseudo_register", 1, 0))

Fail(s) == [s EXCEPT !.ok = FALSE, !.done = TRUE]

\* One instruction.  s: cur_pc_, loc_regs, loc_reg_state_, and whether the run has ended.
Execute(s, i, cie) ==
    CASE i.op = "advance"    -> [s EXCEPT !.cur_pc = @ + i.n]
      [] i.op = "set_loc"    -> [s EXCEPT !.cur_pc = i.n]
      [] i.op = "set"        -> [s EXCEPT !.loc.regs = SetRule(@, i.reg, i.rule)]
      [] i.op = "same_value" -> [s EXCEPT !.loc.regs = Erase(@, i.reg)]
      [] i.op = "restore"    -> IF cie.known THEN [s EXCEPT !.loc.regs = cfa_restore(s.loc, cie, i.reg)]
                                ELSE Fail(s)
      [] i.op = "remember_state" -> [s EXCEPT !.saved = Append(@, s.loc)]
      [] i.op = "restore_state"  -> cfa_restore_state(s)
      [] i.op = "def_cfa_register" ->
            IF CfaIsRegister(s.loc.regs) THEN [s EXCEPT !.loc.regs[CFA_REG].values[1] = i.n] ELSE Fail(s)
      [] i.op = "def_cfa_offset" ->
            IF CfaIsRegister(s.loc.regs) THEN [s EXCEPT !.loc.regs[CFA_REG].values[2] = i.n] ELSE Fail(s)
      [] i.op = "negate_ra_state" -> [s EXCEPT !.loc.regs = cfa_aarch64_negate_ra_state(@)]
      [] i.op = "illegal"    -> Fail(s)

\* Mutant: off by one.
RowEndsEarly(cur_pc, pc) == cur_pc >= pc

\* The row of pc is complete.
RowEnds(cur_pc, pc) == cur_pc > pc

\* The loop of GetLocationInfo for pc: stop at the first row that starts after pc.
\* saved is what earlier runs of this DwarfCfa object have left in loc_reg_state_.
GetLocationInfo(pc, fde, instructions, cie, regs, saved) ==
    LET start == [cur_pc |-> fde.pc_start,
                  loc |-> [regs |-> IF cie.known THEN Overlay(regs, cie.regs) ELSE regs,
                           pc_start |-> fde.pc_start, pc_end |-> 0],
                  saved |-> saved, done |-> FALSE, ok |-> TRUE]
        Past(s) == [s EXCEPT !.loc.pc_end = s.cur_pc, !.done = TRUE]
        Iteration(s, i) ==
            IF s.done THEN s
            ELSE IF RowEnds(s.cur_pc, pc) THEN Past(s)
            ELSE Execute([s EXCEPT !.loc.pc_start = s.cur_pc], i, cie)
        s == FoldLeft(Iteration, start, instructions)
    IN  IF s.done THEN s
        ELSE IF RowEnds(s.cur_pc, pc) THEN Past(s)
        ELSE [s EXCEPT !.loc.pc_end = fde.pc_end]
=============================================================================
