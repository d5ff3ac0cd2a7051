----------------------------- MODULE MCServiceUnit -----------------------------
(* Instances of ServiceUnit for TLC: two builds of a program, two changes  *)
(* by hand, and two commands at once.                                      *)
EXTENDS ServiceUnit, TLC

CONSTANTS c1, c2, b1, b2, x1, x2

TwoCommands == {c1, c2}
TwoBuilds == {b1, b2}
TwoEdits == {x1, x2}
Symmetry == {p @@ q @@ r : p \in Permutations(TwoCommands), q \in Permutations(TwoBuilds),
                           r \in Permutations(TwoEdits)}
================================================================================
