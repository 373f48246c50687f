--------------------------- MODULE MCRunRequests ---------------------------
(* Instances of RunRequests for TLC: two workspaces of one organization, a  *)
(* second organization without, two agents in the first workspace.          *)
EXTENDS RunRequests, TLC
CONSTANTS u1, u2, o1, o2, w1, w2, a1, a2, k1, r1, r2
OrgOfWorkspace == w1 :> o1 @@ w2 :> o1
PlaceOf == a1 :> w1 @@ a2 :> w1
Asked(o, w, a, debug) == [org |-> o, ws |-> w, agent |-> a, debug |-> debug]
AsksMade == {Asked(None, None, a1, FALSE), Asked(o1, w1, a1, FALSE), Asked(o1, w1, a2, TRUE),
             Asked(o1, w2, a1, FALSE), Asked(o2, w1, a1, FALSE)}
RolesAtFirst ==
    u1 :> (o1 :> {"agent:run", "agent:debug"} @@ o2 :> {}) @@
    u2 :> (o1 :> {"agent:run"} @@ o2 :> {"agent:run"})
AgentsAtFirst ==
    a1 :> [status |-> "PUBLISHED", published |-> TRUE, removed |-> FALSE] @@
    a2 :> [status |-> "DRAFT", published |-> FALSE, removed |-> FALSE]
Symmetry == Permutations(Reqs)
=============================================================================
