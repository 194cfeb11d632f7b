--------------------------- MODULE MCGlobalDebug ---------------------------
(* Instances of GlobalDebug for TLC. *)
EXTENDS GlobalDebug, TLC

\* Addresses and functions are only compared.
Symmetry == Permutations(Addr) \cup Permutations(Methods)
=============================================================================
