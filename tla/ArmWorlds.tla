----------------------------- MODULE ArmWorlds -----------------------------
(* Functions to unwind, with the .ARM.exidx entries a compiler makes for them, for ArmExidx. *)
EXTENDS Integers, Sequences, FiniteSets, TLC
LOCAL INSTANCE SequencesExt

SP == 13
LR == 14
PC == 15
FINISH == 176

\* Instructions of a prologue, with the bytes that undo each.
Push(S, code) == [op |-> "push", regs |-> S, n |-> 0, code |-> code]
Sub(n, code)  == [op |-> "sub", regs |-> {}, n |-> n, code |-> code]
Frame(r)      == [op |-> "frame", regs |-> {}, n |-> r, code |-> <<144 + r>>]

Instructions ==
    <<Push({4, 5, 6, 7, LR}, <<171>>), Push({8, 9, 11}, <<128, 176>>),
      Push({11, SP, LR}, <<134, 128>>), Sub(8, <<1>>), Frame(7),
      Push({4, 5}, <<161>>), Push({7, 11, LR}, <<132, 136>>), Push({4, PC}, <<136, 1>>),
      Push({0, 1, 2, 3}, <<177, 15>>), Sub(16, <<209>>), Sub(12, <<184>>),
      Sub(516 + 4 * 129, <<178, 129, 1>>)>>

Caller == [r \in 0 .. 15 |-> CASE r = SP -> 4000 [] r = PC -> 77 [] OTHER -> 100 + r]

Execute(s, i) ==
    CASE i.op = "push" ->
           LET sp == s.sp - 4 * Cardinality(i.regs)
               Addr(r) == sp + 4 * Cardinality({q \in i.regs : q < r})
               Value(r) == CASE r = SP -> s.sp [] r = PC -> 77 [] OTHER -> s.regs[r]
               stored == {<<Addr(r), Value(r)>> : r \in i.regs}
           IN  [s EXCEPT !.sp = sp, !.saved = @ \cup i.regs, !.stack = @ \cup stored]
      [] i.op = "sub" -> [s EXCEPT !.sp = @ - i.n]
      [] i.op = "frame" -> [s EXCEPT !.regs[i.n] = s.sp, !.frame = {i.n}]

Legal(prologue) ==
    \A k \in DOMAIN prologue : prologue[k].op = "frame" =>
       \E j \in 1 .. k - 1 : prologue[k].n \in prologue[j].regs

\* After the prologue the body changes what was saved and, with a frame pointer, the stack pointer.
InBody(prologue) ==
    LET Run[k \in 0 .. Len(prologue)] ==
            IF k = 0 THEN [sp |-> 4000, regs |-> [Caller EXCEPT ![LR] = 77], saved |-> {},
                           stack |-> {}, frame |-> {}]
            ELSE Execute(Run[k - 1], prologue[k])
        s == Run[Len(prologue)]
    IN  [regs |-> [r \in 0 .. 15 |->
                     CASE r = SP -> s.sp - (IF prologue[Len(prologue)].op = "frame" THEN 24 ELSE 0)
                       [] r \in s.saved \ s.frame -> 9
                       [] OTHER -> s.regs[r]],
         memory |-> [a \in {w[1] : w \in s.stack} |-> (CHOOSE w \in s.stack : w[1] = a)[2]]]

Code(prologue) ==
    LET Undo[k \in 0 .. Len(prologue)] == IF k = 0 THEN << >> ELSE prologue[k].code \o Undo[k - 1]
    IN  Undo[Len(prologue)]

\* An entry with some bytes, padded with finish ops.
Pad(code, n) == code \o [k \in 1 .. n - Len(code) |-> FINISH]
Four(code, n) == [k \in 1 .. n |-> SubSeq(code, 4 * k - 3, 4 * k)]
More(code, head) == IF Len(code) <= head THEN 0 ELSE (Len(code) - head + 3) \div 4
Entry(form, code) ==
    LET n == IF form = "compact" THEN More(code, 2) ELSE More(code, 3)
        head == IF form = "compact" THEN 2 ELSE 3
        padded == Pad(code, head + 4 * n)
        rest == Four(SubSeq(padded, head + 1, Len(padded)), n)
    IN  CASE form = "inline"  -> [offset |-> 0, word |-> <<128>> \o padded, table |-> << >>]
          [] form = "table"   -> [offset |-> 0, word |-> <<0, 0, 0, 8>>, table |-> <<<<128>> \o padded>>]
          [] form = "compact" -> [offset |-> 0, word |-> <<0, 0, 0, 8>>,
                                  table |-> <<<<129, n>> \o SubSeq(padded, 1, 2)>> \o rest]
          [] form = "generic" -> [offset |-> 0, word |-> <<0, 0, 0, 8>>,
                                  table |-> <<<<0, 0, 0, 0>>, <<n>> \o SubSeq(padded, 1, 3)>> \o rest]
Fits(form, code) == form \in {"compact", "generic"} \/ Len(code) <= 3

\* The last byte is an operand that looks like a finish op, so none is added.
LooksFinished(form, code) ==
    LET head == IF form = "compact" THEN 2 ELSE 3
    IN  Len(code) >= head /\ (Len(code) - head) % 4 = 0 /\ Last(code) = FINISH

One == 0 :> 4
Unwind(prologue, form) ==
    [index |-> One, entries |-> 0 :> Entry(form, Code(prologue)),
     regs |-> InBody(prologue).regs, memory |-> InBody(prologue).memory,
     caller |-> Caller, tidy |-> ~LooksFinished(form, Code(prologue))]

Forms == <<"inline", "table", "compact", "generic">>
Prologue(p) == [k \in DOMAIN p |-> Instructions[p[k]]]
Prologues ==
    {p \in SeqOf(DOMAIN Instructions, 2) \cup SeqOf(1 .. 5, 3) : p # << >> /\ Legal(Prologue(p))}
Bodies ==
    {x \in (DOMAIN Forms) \X Prologues : Fits(Forms[x[1]], Code(Prologue(x[2])))}

\* Bytes of every kind, with a stack that ends after two words.
RawWorld(e) ==
    [index |-> One, entries |-> 0 :> e, regs |-> [Caller EXCEPT ![LR] = 0],
     memory |-> (4000 :> 0 @@ 4004 :> 5), caller |-> Caller, tidy |-> FALSE]
RawEntries ==
    {[offset |-> 0, word |-> <<128, b, o, 176>>, table |-> << >>] :
        b \in {1, 65, 128, 136, 144, 157, 160, 165, 169, 176, 177, 178, 179, 181, 185, 193, 198, 199,
               200, 201, 205, 209, 220}, o \in {0, 1, 3, 18, 200}}
    \cup {[offset |-> 0, word |-> <<128, 176, 176, b>>, table |-> << >>] : b \in {177, 199, 3}}
    \cup {[offset |-> 0, word |-> w, table |-> t] :
            w \in {<<0, 0, 0, 1>>, <<129, 0, 0, 0>>, <<0, 0, 0, 4>>},
            t \in {<< >>, <<<<131, 0, 0, 0>>>>, <<<<129, 6, 0, 0>>>>, <<<<0, 0, 0, 0>>>>,
                   <<<<130, 1, 1, 1>>>>}}
    \cup {[offset |-> o, word |-> w, table |-> << >>] : o \in {0, 1}, w \in {<< >>, <<128, 176, 176, 176>>}}

\* ExidxTables to search.
ExidxTables == UNION {[0 .. n - 1 -> {0, 1, 2, 4}] : n \in {0, 2, 3, 4}}
TableWorld(t) ==
    [index |-> t, entries |-> [i \in DOMAIN t |-> [offset |-> 0, word |-> <<128, 176, 176, 176>>, table |-> << >>]],
     regs |-> Caller, memory |-> << >>, caller |-> Caller, tidy |-> FALSE]

ExidxIndexes == ExidxTables \cup {One}
ArmIds == Bodies \cup ({5} \X RawEntries) \cup ({6} \X ExidxTables)
ArmWorld(x) ==
    CASE x[1] = 5 -> RawWorld(x[2]) [] x[1] = 6 -> TableWorld(x[2])
      [] OTHER -> Unwind(Prologue(x[2]), Forms[x[1]])
====
