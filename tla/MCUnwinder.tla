----------------------------- MODULE MCUnwinder -----------------------------
(* Stacks for Unwinder. *)
EXTENDS Unwinder

Kind(name) ==
    [mapped |-> name # "nowhere",
     skip   |-> name = "skip",
     stop   |-> name = "stop",
     device |-> FALSE,
     elf    |-> name \in {"code", "skip", "stop"},
     jit    |-> FALSE]

\* One pc of each kind; "data" is in a map without a valid elf.  A pc in a device map is treated
\* like one whose sp is, and a JIT elf like any other.
Names == <<"code", "skip", "nowhere", "data", "stop">>
AllPcs == DOMAIN Names
AllMaps == [p \in AllPcs |-> Kind(Names[p])]
=============================================================================
