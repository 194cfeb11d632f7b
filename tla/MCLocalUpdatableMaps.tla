----------------------- MODULE MCLocalUpdatableMaps -----------------------
(* Address spaces for LocalUpdatableMaps. *)
EXTENDS LocalUpdatableMaps, TLC

\* Every way to map pages 0 .. last - 1.
Spaces(last, labels, offsets) ==
    LET Upto[n \in 0 .. last] ==
            IF n = 0 THEN {<<>>}
            ELSE Upto[n - 1] \cup
                 UNION {{Append(s, [start |-> k, end |-> n, offset |-> f, label |-> l]) :
                           s \in Upto[k], l \in labels, f \in offsets} : k \in 0 .. n - 1}
    IN  Upto[last]

\* Three pages with maps that split, merge and move, and two whose maps change their flags or their
\* offsets.
SomeSpaces == Spaces(3, {"r"}, {0}) \cup Spaces(2, {"r", "rw"}, {0}) \cup Spaces(2, {"r"}, {0, 1})

Symmetry == Permutations(Threads)
=============================================================================
