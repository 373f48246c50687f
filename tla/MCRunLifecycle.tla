--------------------------- MODULE MCRunLifecycle ---------------------------
(* Instances of RunLifecycle for TLC: one tool that needs approval, one that is   *)
(* retried and one that is not.                                                   *)
EXTENDS RunLifecycle, TLC

MCTools == {"refund", "lookup", "notify"}
MCNeedsApproval == {"refund"}
MCIdempotent == {"lookup", "refund"}
MCRetries == [t \in MCTools |-> 1]

\* Operators and executions are interchangeable.
CONSTANTS o1, o2, e1, e2
Symmetry == Permutations({o1, o2}) \cup Permutations({e1, e2})
=============================================================================
