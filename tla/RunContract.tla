---------------------------- MODULE RunContract ----------------------------
(***************************************************************************)
(* What agent runs and tool approvals promise, whatever the API processes  *)
(* do: a run is opened once, may be parked for a human decision, and is    *)
(* closed once for good; a request for approval is decided once, and the   *)
(* tool behind it runs at most once, and only after it has been granted.   *)
(***************************************************************************)
EXTENDS Naturals

CONSTANTS Runs,       \* rows of AgentRun
          Requests    \* rows of ToolExecution whose tool needs approval

VARIABLES run,        \* status of each run, "NONE" before its row exists
          verdict,    \* decision on each request
          performed   \* how often the tool of each request was called

Terminal == {"SUCCEEDED", "FAILED", "CANCELLED"}

\* The statuses a run may move to, by the status it has.
After(s) ==
    CASE s = "NONE" -> {"RUNNING"}
      [] s = "RUNNING" -> {"WAITING_APPROVAL"} \cup Terminal
      [] s = "WAITING_APPROVAL" -> Terminal
      [] OTHER -> {}

Init == /\ run = [r \in Runs |-> "NONE"]
        /\ verdict = [e \in Requests |-> "none"]
        /\ performed = [e \in Requests |-> 0]

RunStep(r) == run'[r] \in {run[r]} \cup After(run[r])

Ask(e)  == verdict[e] = "none" /\ verdict'[e] = "pending"
Rule(e) == verdict[e] = "pending" /\ verdict'[e] \in {"granted", "denied"}
Keep(e) == verdict'[e] = verdict[e]

RequestStep(e) ==
    \/ (Ask(e) \/ Rule(e) \/ Keep(e)) /\ performed'[e] = performed[e]
    \/ Keep(e) /\ verdict[e] = "granted" /\ performed[e] = 0 /\ performed'[e] = 1

Next == (\A r \in Runs : RunStep(r)) /\ (\A e \in Requests : RequestStep(e))

Spec == Init /\ [][Next]_<<run, verdict, performed>>
=============================================================================
