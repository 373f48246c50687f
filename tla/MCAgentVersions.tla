-------------------------- MODULE MCAgentVersions --------------------------
(* Instances of AgentVersions for TLC. *)
EXTENDS AgentVersions, TLC
CONSTANTS c1, c2, t1
Symmetry == Permutations(Clients)
=============================================================================
