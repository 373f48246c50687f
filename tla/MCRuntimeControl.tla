-------------------------- MODULE MCRuntimeControl --------------------------
(* Instances of RuntimeControl for TLC: r1 and r2 are served by one process, r3 by   *)
(* another; MCHome leaves r3 out and serves r1 and r2 by a process each.             *)
EXTENDS RuntimeControl, TLC
CONSTANTS r1, r2, r3, p1, p2
MCHome3 == r1 :> p1 @@ r2 :> p1 @@ r3 :> p2
MCHome  == r1 :> p1 @@ r2 :> p2
Symmetry3 == Permutations({r1, r2})
=============================================================================
