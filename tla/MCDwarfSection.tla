--------------------------- MODULE MCDwarfSection ---------------------------
(* A behaviour is one of DwarfSection, which ends with a row, or of DwarfEval, which begins with one. *)
EXTENDS DwarfSection, EvalRows

Advance(n)  == [op |-> "advance", n |-> n]
Set(r, t, a, b) == [op |-> "set", reg |-> r, rule |-> Rule(t, a, b)]
DefCfa      == Set(CFA_REG, "register", 7, 8)
DefOffset   == [op |-> "def_cfa_offset", n |-> 16]
DefRegister == [op |-> "def_cfa_register", n |-> 6]
Save        == Set("r", "offset", 2, 0)
Restore     == [op |-> "restore", reg |-> "r"]
Same        == [op |-> "same_value", reg |-> "r"]
Remember    == [op |-> "remember_state"]
RestoreSt   == [op |-> "restore_state"]
Negate      == [op |-> "negate_ra_state"]
Illegal     == [op |-> "illegal"]

Programs(ops, n) == UNION {[1 .. k -> ops] : k \in 0 .. n}
Fde(s, e, c, p) == [pc_start |-> s, pc_end |-> e, cie |-> c, instructions |-> p]

\* A function under test, and one after it that shares its CIE.
With(cie, p) == [cies |-> <<cie>>, fdes |-> <<Fde(1, 4, 1, p), Fde(4, 5, 1, <<Save>>)>>, readable |-> 2]

\* The locations go up and stay inside the function.
Location(l, i) == IF i.op = "advance" THEN l + i.n ELSE IF i.op = "set_loc" THEN i.n ELSE l
Locations(p) == [k \in 0 .. Len(p) |-> FoldLeft(Location, 1, SubSeq(p, 1, k))]
WellFormed(p) ==
    \A k \in 1 .. Len(p) : Locations(p)[k - 1] <= Locations(p)[k] /\ Locations(p)[k] <= 4

RowOps == {Advance(1), Save, Remember, RestoreSt}
RowSections == {With(<<DefCfa>>, p) : p \in {q \in Programs(RowOps, 5) : WellFormed(q)}}

\* Every instruction, in shorter programs: with a CIE that saves the register or not, and with
\* one that leaves the CFA undefined or an expression, or that cannot be run.
AllOps == RowOps \cup {DefOffset, Restore, Same, DefRegister, Negate, Illegal, Advance(2),
                       [op |-> "set_loc", n |-> 3]}
Valid(n) == {q \in Programs(AllOps, n) : WellFormed(q)}
OpSections ==
    {With(<<DefCfa, Set("r", "offset", 1, 0)>>, p) : p \in Valid(3)}
    \cup {With(c, p) : c \in {<<DefCfa>>, <<>>, <<Set(CFA_REG, "val_expression", 0, 0)>>, <<Restore>>},
                       p \in Valid(2)}

\* Up to three FDEs at any place, overlapping or not.
Ranges == {r \in (0 .. MaxPc) \X (0 .. MaxPc) : r[1] < r[2]}
Layout(l, n) ==
    [cies |-> <<<<DefCfa>>>>, fdes |-> [i \in DOMAIN l |-> Fde(l[i][1], l[i][2], 1, <<>>)], readable |-> n]
ThreeFdes ==
    {Layout(l, Len(l)) : l \in UNION {[1 .. k -> Ranges] : k \in 0 .. 3}}
    \cup {Layout(l, 1) : l \in [1 .. 2 -> Ranges]}

\* Two FDEs with CIEs and rules of their own, overlapping or not.
TwoCies == <<<<DefCfa>>, <<DefCfa, Set("r", "offset", 1, 0)>>>>
Splits(r) == {<<>>, <<Save>>} \cup {<<Advance(n), Save>> : n \in 1 .. r[2] - r[1] - 1}
TwoPrograms ==
    UNION {{[cies |-> TwoCies, readable |-> 2,
             fdes |-> <<Fde(a[1], a[2], 1, p), Fde(b[1], b[2], 2, q)>>] :
               p \in Splits(a), q \in {<<>>, <<Advance(1), Same>>}} : a \in Ranges, b \in Ranges}

AllSections == RowSections \cup OpSections \cup ThreeFdes \cup TwoPrograms

VARIABLES
    part, eRow, eAt, eTodo, eRegs, eSaved, eCfa, eDexPc, eSigned, eUndefined, eFinished, eTarget,
    eStack, eCur, eIterations, eCheck, eDex, eIsRegister
eVars == <<eRow, eAt, eTodo, eRegs, eSaved, eCfa, eDexPc, eSigned, eUndefined, eFinished, eTarget,
           eStack, eCur, eIterations, eCheck, eDex, eIsRegister>>

E == INSTANCE DwarfEval WITH
       Rows <- AllRows, Registers <- AllRegisters, CalleeRegs <- SomeRegs, ProcessMemory <- SomeMemory,
       row <- eRow, at <- eAt, todo <- eTodo, regs <- eRegs, saved <- eSaved, cfa <- eCfa,
       dex_pc <- eDexPc, ra_signed <- eSigned, return_address_undefined <- eUndefined,
       finished <- eFinished, target <- eTarget, stack_ <- eStack, cur <- eCur,
       iterations <- eIterations, check_for_drop <- eCheck, dex_pc_set_ <- eDex,
       is_register_ <- eIsRegister

\* The variables of the part that is not looked at.
NoSection == section = 0 /\ fde_index_ = << >> /\ cie_loc_regs_ = 0 /\ loc_regs_ = 0 /\ last = NoStep
NoEval ==
    /\ eRow = 0 /\ eAt = "off" /\ eTodo = 0 /\ eRegs = 0 /\ eSaved = 0 /\ eCfa = 0 /\ eDexPc = 0
    /\ eSigned = 0 /\ eUndefined = 0 /\ eFinished = 0 /\ eTarget = 0 /\ eStack = 0 /\ eCur = 0
    /\ eIterations = 0 /\ eCheck = 0 /\ eDex = 0 /\ eIsRegister = 0

DwarfInit == \/ part = "section" /\ Init /\ NoEval
             \/ part = "eval" /\ E!Init /\ NoSection
DwarfNext == \/ part = "section" /\ Next /\ UNCHANGED <<part, eVars>>
             \/ part = "eval" /\ E!Next /\ UNCHANGED <<part, vars>>
DwarfSpec == DwarfInit /\ [][DwarfNext]_<<part, vars, eVars>>

(* The property of DwarfEval. *)
EvalExact == E!EvalExact
====
