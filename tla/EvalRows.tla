------------------------------ MODULE EvalRows ------------------------------
(* Rows for DwarfEval, with the meaning of the expressions in them. *)
EXTENDS DwarfCfa, TLC

UnaryOps == {"abs", "neg", "not", "plus_uconst"}
BinaryOps == {"and", "or", "xor", "plus", "minus", "mul", "div", "mod", "shl", "shr", "shra",
              "eq", "ne", "ge", "gt", "le", "lt"}

AllRegisters == {"r0", "r1", "sp", "pc"}
SomeRegs == [r \in AllRegisters |-> CASE r = "r0" -> 30 [] r = "r1" -> 250 [] r = "sp" -> 40 [] r = "pc" -> 5]
SomeMemory == (40 :> 0 @@ 41 :> 77 @@ 42 :> 200 @@ 77 :> 43 @@ 250 :> 9)

\* Operations, with an operand that is read, or that is encoded.
O(name, n) == [name |-> name, n |-> n, reg |-> "r0", encoding |-> "read", bytes |-> <<>>]
Encoded(name, r, encoding, bytes) == [name |-> name, n |-> 0, reg |-> r, encoding |-> encoding, bytes |-> bytes]
Uleb(n) == IF n < 128 THEN <<n>> ELSE <<128 + (n % 128), n \div 128>>
\* A negative number that needs all bits of a word is read with an undefined shift, and left out.
Sleb(n) == IF n < 64 \/ n >= 192 THEN <<n % 128>> ELSE <<128 + n, 0>>

ConstAs(n, encoding) == [node |-> "const", n |-> n, encoding |-> encoding]
Const(n) == ConstAs(n, "udata1")
Breg(r, n) == [node |-> "breg", reg |-> r, n |-> n]
Un(op, n, t) == [node |-> op, n |-> n, a |-> t]
Bin(op, t, u) == [node |-> op, a |-> t, b |-> u]
If(c, t, u) == [node |-> "if", c |-> c, a |-> t, b |-> u]
None == [node |-> "none"]

\* The code of a tree.
RECURSIVE Compile(_)
Compile(t) ==
    CASE t.node = "const" -> <<Encoded("const", "r0", t.encoding,
                                       CASE t.encoding = "udata1"  -> <<t.n>>
                                         [] t.encoding = "uleb128" -> Uleb(t.n)
                                         [] t.encoding = "sleb128" -> Sleb(t.n))>>
      [] t.node = "breg"  -> <<Encoded("breg", t.reg, "sleb128", Sleb(t.n))>>
      [] t.node = "plus_uconst" -> Compile(t.a) \o <<Encoded("plus_uconst", "r0", "uleb128", Uleb(t.n))>>
      [] t.node = "if"    -> LET b == Compile(t.b)
                                 a == Compile(t.a)
                             IN  Compile(t.c) \o <<O("bra", Len(b) + 1)>> \o b
                                 \o <<O("skip", Len(a))>> \o a
      [] t.node = "deref" \/ t.node \in UnaryOps -> Compile(t.a) \o <<O(t.node, t.n)>>
      [] OTHER            -> Compile(t.a) \o Compile(t.b) \o <<O(t.node, 0)>>

Expr(type, c, t, dex) == Rule(type, c, [tree |-> t, dex |-> dex])
Value(t) == Expr("val_expression", Compile(t), t, FALSE)
Address(t) == Expr("expression", Compile(t), t, FALSE)
Coded(names, t) == Expr("val_expression", names, t, FALSE)
DexValue(t) == Expr("val_expression", <<O("const4u", 49), O("drop", 0)>> \o Compile(t), t, TRUE)

Leaves == {Const(0), Const(3), Const(251), Breg("r1", 1), Breg("r0", 226)}
Trees ==
    {Bin(op, t, u) : op \in BinaryOps, t \in Leaves, u \in Leaves}
    \cup {Un(op, 2, t) : op \in UnaryOps, t \in Leaves}
    \cup {Bin(op, Bin("minus", t, Const(1)), Un("neg", 0, u)) : op \in BinaryOps, t \in Leaves, u \in {Const(3)}}
    \cup {If(c, t, u) : c \in Leaves, t \in {Const(4), Bin("mul", Const(2), Const(200))}, u \in Leaves}
    \cup {ConstAs(n, "uleb128") : n \in 0 .. 255} \cup {ConstAs(n, "sleb128") : n \in (0 .. 127) \cup (192 .. 255)}
    \cup {Un("deref", 0, t) : t \in Leaves \cup {Breg("sp", 1), Un("deref", 0, Breg("sp", 1)), Breg("x", 0)}}

L(n) == O("lit", n)
Z(name) == O(name, 0)
\* 9 + 3 * n by repeated addition: 3 + 6 * n operations.
Product(n) ==
    <<L(9), L(n), O("plus_uconst", 255), Z("swap"), O("plus_uconst", 3), Z("swap"), Z("dup"),
      O("bra", -6), Z("drop")>>
Codes ==
    {Coded(<<L(1), L(2), L(3), Z("rot"), Z("minus"), Z("minus")>>, Const(4)),
     Coded(<<L(1), L(2), Z("swap"), Z("minus")>>, Const(1)),
     Coded(<<L(1), L(2), Z("over"), Z("minus"), Z("minus")>>, Const(0)),
     Coded(<<L(7), L(2), O("pick", 1), Z("plus"), Z("plus")>>, Const(16)),
     Coded(<<L(7), O("pick", 1)>>, None),
     Coded(<<L(5), Z("dup"), Z("mul"), Z("nop")>>, Const(25)),
     Coded(<<L(5), L(6), Z("drop")>>, Const(5)),
     Coded(<<L(41), O("deref_size", 1)>>, Const(77)),
     Coded(<<L(41), O("deref_size", 2)>>, None),
     Coded(<<L(1), Z("reg")>>, None),
     Coded(<<Encoded("const", "r0", "uleb128", <<131, 0>>)>>, Const(3)),   \* padded
     Coded(<<Encoded("const", "r0", "uleb128", <<131>>)>>, None),          \* cut off
     Coded(<<Encoded("const", "r0", "sleb128", <<131>>)>>, None),
     Coded(<<>>, None), Coded(<<L(1), Z("drop")>>, None), Coded(<<Z("illegal")>>, None),
     Coded(<<L(1), Z("xderef"), Z("xderef")>>, None), Coded(<<L(1), L(2), Z("xderef")>>, None),
     Coded(<<L(1), L(2), Z("rot")>>, None), Coded(<<L(1), Z("plus")>>, None), Coded(<<Z("dup")>>, None),
     \* Loops: without an end, and of just as many operations as are allowed, and one more.
     Coded(<<L(1), O("bra", -2)>>, None), Coded(<<Z("nop"), O("skip", -2)>>, None),
     Coded(Product(166) \o <<Z("nop")>>, Const((9 + 166 * 3) % 256)),
     Coded(Product(166) \o <<Z("nop"), Z("nop")>>, None)}
    \cup {DexValue(t) : t \in {Const(33), Breg("sp", 1)}}

Off(n) == Rule("offset", n, 0)
Reg(r, n) == Rule("register", r, n)
Simple ==
    {Off(1), Off(9), Rule("val_offset", 250, 0), Reg("r0", 1), Reg("r1", 0), Reg("sp", 3), Reg("x", 0),
     Rule("undefined", 0, 0), Rule("pseudo_register", 1, 0), Value(Bin("minus", Breg("r1", 0), Breg("r0", 0))),
     Address(Breg("sp", 2)), Address(Const(1)), DexValue(Breg("r0", 2))}
NewCfas == {Reg("sp", 0), Reg("r1", 46), Reg("x", 0), Off(1), Value(Bin("plus", Breg("r0", 0), Const(10))),
            Coded(<<Z("illegal")>>, None)}

RowOf(rules, ra, signal) == [rules |-> rules, return_address_register |-> ra, is_signal_frame |-> signal]
TheCfa == CFA_REG :> Reg("sp", 0)

AllRows ==
    {RowOf(("r0" :> t) @@ TheCfa, "pc", FALSE) : t \in {Value(u) : u \in Trees} \cup Codes}
    \cup {RowOf(("r0" :> a @@ "r1" :> b @@ CFA_REG :> c), ra, FALSE) :
            a \in Simple, b \in Simple, c \in NewCfas, ra \in {"r0", "pc", "x"}}
    \cup {RowOf(("pc" :> a @@ "sp" :> b @@ "x" :> x) @@ s @@ TheCfa, ra, g) :
            a \in Simple, b \in {Off(1), Reg("r0", 2)}, x \in {Off(2), Rule("pseudo_register", 1, 0)},
            s \in {<<>>, RA_STATE :> Rule("pseudo_register", 1, 0), RA_STATE :> Rule("pseudo_register", 0, 0)},
            ra \in {"pc", "r1"}, g \in BOOLEAN}
    \cup {RowOf("r0" :> Off(1), "pc", FALSE)}
====
