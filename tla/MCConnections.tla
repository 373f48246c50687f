--------------------------- MODULE MCConnections ---------------------------
(* Instances of Connections for TLC: connections of four types, with a public     *)
(* address, Google's, one of Bedrock's in each of two regions, and a private one. *)
EXTENDS Connections, TLC
CONSTANTS c1, c2, i1
Url(h, s) == [https |-> s, host |-> h, plain |-> TRUE, root |-> TRUE]
MCUrls == {Url("public", TRUE), Url("google", TRUE), Url("bedrock1", TRUE), Url("private", FALSE)}
MCBedrock == [r \in {"r1", "r2"} |-> IF r = "r1" THEN {"bedrock1"} ELSE {"bedrock2"}]
MCAllowedUrls == {Url("private", FALSE)}
Creds(k, a, p, r) == [key |-> k, aws |-> a, project |-> p, region |-> r]
MCCredentials == {Creds(TRUE, FALSE, FALSE, None), Creds(FALSE, FALSE, TRUE, None),
                  Creds(FALSE, TRUE, FALSE, "r1"), Creds(FALSE, TRUE, FALSE, "r2")}
Config(e, u) == [enterprise |-> e, endpoint |-> u, proper |-> TRUE]
MCConfigs == {Config(FALSE, None), Config(TRUE, None), Config(FALSE, Url("bedrock1", TRUE)),
              [Config(FALSE, None) EXCEPT !.proper = FALSE]}
Symmetry == Permutations(Requests)
=============================================================================
