---------------------------- MODULE MCSessions ----------------------------
(* Instances of Sessions for TLC: a browser with two tabs.                  *)
EXTENDS Sessions, TLC
CONSTANTS t1, t2, p1
Symmetry == Permutations(Tabs)
=============================================================================
