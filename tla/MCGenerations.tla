--------------------------- MODULE MCGenerations ---------------------------
(* Bounds for TLC.                                                         *)
EXTENDS Generations

CONSTANTS a, b, r, s

First == {a}
Second == {b}
TwoThreads == {a, b}
OneRoot == {r}
TwoRoots == {r, s}
=============================================================================
