----------------------------- MODULE MCMembers -----------------------------
(* Instances of Members for TLC: an Owner, a member with a custom role that may    *)
(* manage members, and somebody from outside.                                      *)
EXTENDS Members, TLC
CONSTANTS u1, u2, u3, c1, c2, i1, i2
MCPermissions == {"manage", "use"}
MCBuiltIn == [r \in {"OWNER", "VIEWER"} |-> IF r = "OWNER" THEN MCPermissions ELSE {}]
MCCustom == {"custom"}
MCGrants == {{"manage"}, MCPermissions}
MCStart == [u \in Users |-> CASE u = u1 -> "OWNER" [] u = u2 -> "custom" [] OTHER -> None]
MCStartAccounts == {u \in Users : MCStart[u] # None}
MCStartPerms == [r \in Roles |-> IF r = "custom" THEN {"manage"} ELSE MCBuiltIn[r]]
Symmetry == Permutations(Requests) \cup Permutations(Invitations)
=============================================================================
