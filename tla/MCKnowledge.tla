---------------------------- MODULE MCKnowledge ----------------------------
(* Instances of Knowledge for TLC.                                          *)
EXTENDS Knowledge, TLC
CONSTANTS b1, b2, d1, d2
Symmetry == Permutations(Bases) \cup Permutations(Docs)
=============================================================================
