---------------------------- MODULE MCConsole ----------------------------
(* An instance of Console for TLC: lists of two rows, two connections.      *)
EXTENDS Console, TLC
CONSTANTS r1, r2, t1, c1, c2
Symmetry == Permutations(Rows) \cup Permutations(Connections)
=============================================================================
