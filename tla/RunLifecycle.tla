---------------------------- MODULE RunLifecycle ----------------------------
(***************************************************************************)
(* Agent runs and the tool calls they make: the executor of a chat or      *)
(* stream request (agent-execution.service.ts) and the operators who       *)
(* approve or reject its tool calls (tool-approval.service.ts).  They      *)
(* share two tables, AgentRun and ToolExecution, and nothing else: every   *)
(* await is a point where another request may run, so every statement or   *)
(* transaction sent to PostgreSQL is a step of its own.                    *)
(***************************************************************************)
EXTENDS Naturals

CONSTANTS Runs,        \* chat and stream requests, each with the run it opens
          Streams,     \* those that stream, and so carry an AbortSignal
          Execs,       \* rows of ToolExecution
          Operators,   \* approve and reject requests in progress at once
          Tools,
          NeedsApproval,  \* tools with requiresApproval
          Idempotent,     \* tools whose config.method is GET
          Retries,        \* retryCount of each tool
          MaxRounds,   \* 4 in the code
          MaxCalls,    \* 8 in the code
          Faulty,      \* may a database call fail, or a process crash?
          NoRun, NoExec, NoTool, NoUser

ASSUME LifecycleConstants ==
    /\ Streams \subseteq Runs
    /\ NeedsApproval \subseteq Tools /\ Idempotent \subseteq Tools
    /\ Retries \in [Tools -> Nat]
    /\ MaxRounds \in Nat \ {0} /\ MaxCalls \in Nat
    /\ Faulty \in BOOLEAN
    /\ NoRun \notin Runs /\ NoExec \notin Execs
    /\ NoTool \notin Tools /\ NoUser \notin Operators

VARIABLES
    \* AgentRun, and the rows that hang on it
    runStatus,   \* "NONE" until the row exists
    usageRows,   \* UsageRecord rows of the run
    answers,     \* ASSISTANT messages written for the run
    \* ToolExecution
    execStatus, execRun, execTool, approvedBy,
    stale,       \* is createdAt 15 minutes old or more?
    sent,        \* HTTP requests made for the execution (not a column)
    \* local state of the executor of each run
    pc,
    round,       \* provider rounds finished
    calls,       \* tool calls of the current reply still to be made
    current,     \* execution being made
    attempt,     \* failed attempts of the current tool call
    aborted,     \* has the AbortSignal of the stream fired?
    \* local state of each approve or reject request
    opPc, opExec

runRow  == <<runStatus, usageRows, answers>>
execRow == <<execStatus, execRun, execTool, approvedBy, stale>>
local   == <<round, calls, current, attempt, aborted>>
op      == <<opPc, opExec>>
vars    == <<runRow, execRow, sent, pc, local, op>>

Terminal == {"SUCCEEDED", "FAILED", "CANCELLED"}
RunStatus == {"RUNNING", "WAITING_APPROVAL"} \cup Terminal

ExecutorPc == {"idle", "model", "record", "tools", "park", "call", "succeed", "failCall",
               "complete", "fail", "done"}
OperatorPc == {"idle", "expire", "claim", "call", "succeed", "fail", "reject", "cancel"}

RetryCount(t) == IF t \in Idempotent THEN Retries[t] ELSE 0

Init ==
    /\ runStatus = [r \in Runs |-> "NONE"]
    /\ usageRows = [r \in Runs |-> 0]
    /\ answers = [r \in Runs |-> 0]
    /\ execStatus = [e \in Execs |-> "NONE"]
    /\ execRun = [e \in Execs |-> NoRun]
    /\ execTool = [e \in Execs |-> NoTool]
    /\ approvedBy = [e \in Execs |-> NoUser]
    /\ stale = [e \in Execs |-> FALSE]
    /\ sent = [e \in Execs |-> 0]
    /\ pc = [r \in Runs |-> "idle"]
    /\ round = [r \in Runs |-> 0]
    /\ calls = [r \in Runs |-> 0]
    /\ current = [r \in Runs |-> NoExec]
    /\ attempt = [r \in Runs |-> 0]
    /\ aborted = [r \in Runs |-> FALSE]
    /\ opPc = [o \in Operators |-> "idle"]
    /\ opExec = [o \in Operators |-> NoExec]

-----------------------------------------------------------------------------
(* Control.  A statement that fails leaves the database as it was, or has  *)
(* been committed and only its answer is lost: either way the await throws.*)

At(r, here) == pc[r] = here
Goto(r, there) == pc' = [pc EXCEPT ![r] = there]
GotoIfFaulty(r, there) == Faulty /\ Goto(r, there)
Reply(r, there, onLoss) == Goto(r, there) \/ GotoIfFaulty(r, onLoss)

OpAt(o, here) == opPc[o] = here
OpGoto(o, there) == opPc' = [opPc EXCEPT ![o] = there] /\ UNCHANGED opExec
OpReturn(o) == /\ opPc' = [opPc EXCEPT ![o] = "idle"]
               /\ opExec' = [opExec EXCEPT ![o] = NoExec]

\* updateMany({where: {id, status: from}, data: {status: to}}) on one table
MoveRun(r, from, to) ==
    runStatus' = [runStatus EXCEPT ![r] = IF @ \in from THEN to ELSE @]
MoveExec(e, from, to) ==
    execStatus' = [execStatus EXCEPT ![e] = IF @ \in from THEN to ELSE @]

-----------------------------------------------------------------------------
(* The executor: chat(), stream() and what they call.                      *)

\* prepare: every check, the lease and the context are behind the caller; the
\* run exists from the transaction on.  A request refused before it leaves no row.
Prepare(r) ==
    /\ At(r, "idle")
    /\ \/ runStatus' = [runStatus EXCEPT ![r] = "RUNNING"] /\ Reply(r, "model", "done")
       \/ UNCHANGED runStatus /\ Goto(r, "done")
    /\ UNCHANGED <<usageRows, answers, execRow, sent, local, op>>

\* The client of a stream goes away.  Only the provider call looks at the signal.
ClientAbort(r) ==
    /\ r \in Streams /\ pc[r] \notin {"idle", "done"} /\ ~aborted[r]
    /\ aborted' = [aborted EXCEPT ![r] = TRUE]
    /\ UNCHANGED <<runRow, execRow, sent, pc, round, calls, current, attempt, op>>

\* chatWithRetry or streamWithRetry returns a reply with some tool calls, of which
\* the code tells apart none, up to MaxCalls, and more.
ModelReply(r) ==
    /\ At(r, "model") /\ ~aborted[r]
    /\ \E n \in 0 .. MaxCalls + 1 : calls' = [calls EXCEPT ![r] = n]
    /\ Goto(r, "record")
    /\ UNCHANGED <<runRow, execRow, sent, round, current, attempt, aborted, op>>

ModelError(r) ==
    /\ At(r, "model") /\ Goto(r, "fail")
    /\ UNCHANGED <<runRow, execRow, sent, local, op>>

\* recordUsage, then the branch on toolCalls.length and the test that opens
\* executeToolCalls.  The row stays when the run turns out to be over its budget.
RecordUsage(r) ==
    /\ At(r, "record")
    /\ \/ /\ usageRows' = [usageRows EXCEPT ![r] = @ + 1]
          /\ \/ calls[r] = 0 /\ Goto(r, "complete")
             \/ calls[r] \in 1 .. MaxCalls /\ Goto(r, "tools")
             \/ Goto(r, "fail")      \* over budget, too many calls, or answer lost
       \/ UNCHANGED usageRows /\ GotoIfFaulty(r, "fail")
    /\ UNCHANGED <<runStatus, answers, execRow, sent, local, op>>

\* A call that names no enabled tool of the version, or whose arguments do not parse.
BadCall(r) ==
    /\ At(r, "tools") /\ calls[r] > 0 /\ Goto(r, "fail")
    /\ UNCHANGED <<runRow, execRow, sent, local, op>>

CreateExecution(r) ==
    /\ At(r, "tools") /\ calls[r] > 0
    /\ \/ \E e \in Execs, t \in Tools :
            /\ execStatus[e] = "NONE"
            /\ execStatus' = [execStatus EXCEPT
                   ![e] = IF t \in NeedsApproval THEN "WAITING_APPROVAL" ELSE "RUNNING"]
            /\ execRun' = [execRun EXCEPT ![e] = r]
            /\ execTool' = [execTool EXCEPT ![e] = t]
            /\ current' = [current EXCEPT ![r] = e]
            /\ Reply(r, IF t \in NeedsApproval THEN "park" ELSE "call", "fail")
       \/ UNCHANGED <<execStatus, execRun, execTool, current>> /\ GotoIfFaulty(r, "fail")
    /\ attempt' = [attempt EXCEPT ![r] = 0]
    /\ UNCHANGED <<runRow, approvedBy, stale, sent, round, calls, aborted, op>>

\* The update that parks the run comes after the execution can be decided.  Its
\* where clause names the run only: it asks nothing of the statuses.
Park(r) ==
    /\ At(r, "park")
    /\ \/ /\ runStatus' = [runStatus EXCEPT ![r] = "WAITING_APPROVAL"]
          /\ Reply(r, "done", "fail")
       \/ UNCHANGED runStatus /\ GotoIfFaulty(r, "fail")
    /\ UNCHANGED <<usageRows, answers, execRow, sent, local, op>>

\* One attempt of ToolExecutorService.execute, which may refuse before it sends.
CallTool(r) ==
    /\ At(r, "call")
    /\ \E n \in 0 .. 1 :
         /\ sent' = [sent EXCEPT ![current[r]] = @ + n]
         /\ \/ n = 1 /\ Goto(r, "succeed") /\ UNCHANGED attempt
            \/ /\ attempt[r] < RetryCount(execTool[current[r]])
               /\ attempt' = [attempt EXCEPT ![r] = @ + 1] /\ UNCHANGED pc
            \/ /\ attempt[r] >= RetryCount(execTool[current[r]])
               /\ Goto(r, "failCall") /\ UNCHANGED attempt
    /\ UNCHANGED <<runRow, execRow, round, calls, current, aborted, op>>

SucceedCall(r) ==
    /\ At(r, "succeed")
    /\ \/ /\ execStatus' = [execStatus EXCEPT ![current[r]] = "SUCCEEDED"]
          /\ \/ Goto(r, "tools") /\ calls' = [calls EXCEPT ![r] = @ - 1]
             \/ GotoIfFaulty(r, "failCall") /\ UNCHANGED calls
       \/ UNCHANGED <<execStatus, calls>> /\ GotoIfFaulty(r, "failCall")
    /\ UNCHANGED <<runRow, execRun, execTool, approvedBy, stale, sent, round, current,
                   attempt, aborted, op>>

FailCall(r) ==
    /\ At(r, "failCall") /\ Goto(r, "fail")
    /\ \/ execStatus' = [execStatus EXCEPT ![current[r]] = "FAILED"]
       \/ Faulty /\ UNCHANGED execStatus
    /\ UNCHANGED <<runRow, execRun, execTool, approvedBy, stale, sent, local, op>>

\* Mutant of NextRound: running out of rounds just returns.
NextRoundOrReturn(r) ==
    /\ At(r, "tools") /\ calls[r] = 0
    /\ round' = [round EXCEPT ![r] = @ + 1]
    /\ Goto(r, IF round[r] + 1 < MaxRounds THEN "model" ELSE "done")
    /\ UNCHANGED <<runRow, execRow, sent, calls, current, attempt, aborted, op>>

\* Every call of the reply is made: the next round, or too many rounds.
NextRound(r) ==
    /\ At(r, "tools") /\ calls[r] = 0
    /\ round' = [round EXCEPT ![r] = @ + 1]
    /\ Goto(r, IF round[r] + 1 < MaxRounds THEN "model" ELSE "fail")
    /\ UNCHANGED <<runRow, execRow, sent, calls, current, attempt, aborted, op>>

Complete(r) ==
    /\ At(r, "complete")
    /\ \/ /\ answers' = [answers EXCEPT ![r] = @ + 1]
          /\ runStatus' = [runStatus EXCEPT ![r] = "SUCCEEDED"]
          /\ Reply(r, "done", "fail")
       \/ UNCHANGED <<answers, runStatus>> /\ GotoIfFaulty(r, "fail")
    /\ UNCHANGED <<usageRows, execRow, sent, local, op>>

\* Mutant of Fail: update by id, whatever the status is.
FailAnyStatus(r) ==
    /\ At(r, "fail") /\ Goto(r, "done")
    /\ runStatus' = [runStatus EXCEPT ![r] = IF aborted[r] THEN "CANCELLED" ELSE "FAILED"]
    /\ UNCHANGED <<usageRows, answers, execRow, sent, local, op>>

Fail(r) ==
    /\ At(r, "fail") /\ Goto(r, "done")
    /\ \/ MoveRun(r, {"RUNNING"}, IF aborted[r] THEN "CANCELLED" ELSE "FAILED")
       \/ Faulty /\ UNCHANGED runStatus
    /\ UNCHANGED <<usageRows, answers, execRow, sent, local, op>>

\* The process that serves the request dies.  Nothing looks for its run later.
Crash(r) ==
    /\ Faulty /\ pc[r] \notin {"idle", "done"} /\ Goto(r, "done")
    /\ UNCHANGED <<runRow, execRow, sent, local, op>>

ExecutorStep(r) ==
    \/ ModelReply(r) \/ ModelError(r) \/ RecordUsage(r) \/ BadCall(r) \/ CreateExecution(r)
    \/ Park(r) \/ CallTool(r) \/ SucceedCall(r) \/ FailCall(r) \/ NextRound(r)
    \/ Complete(r) \/ Fail(r)

-----------------------------------------------------------------------------
(* The operators: approve() and reject().                                  *)

\* An execution turns 15 minutes old; the youngest of a run is the last to.
Age(e) ==
    /\ execStatus[e] # "NONE" /\ ~stale[e]
    /\ e = current[execRun[e]] =>
          \A f \in Execs \ {e} : execRun[f] = execRun[e] => stale[f]
    /\ stale' = [stale EXCEPT ![e] = TRUE]
    /\ UNCHANGED <<runRow, execStatus, execRun, execTool, approvedBy, sent, pc, local, op>>

\* approve up to its first write: findOwned, and the age of the row it found.
Approve(o) ==
    /\ OpAt(o, "idle")
    /\ \E e \in Execs :
         /\ execStatus[e] # "NONE"
         /\ opExec' = [opExec EXCEPT ![o] = e]
         /\ opPc' = [opPc EXCEPT ![o] = IF stale[e] THEN "expire" ELSE "claim"]
    /\ UNCHANGED <<runRow, execRow, sent, pc, local>>

\* Mutant of Expire: any run that is not closed is cancelled.
ExpireOpenRun(o) ==
    /\ OpAt(o, "expire")
    /\ MoveExec(opExec[o], {"WAITING_APPROVAL"}, "CANCELLED")
    /\ MoveRun(execRun[opExec[o]], {"RUNNING", "WAITING_APPROVAL"}, "CANCELLED")
    /\ OpReturn(o)
    /\ UNCHANGED <<usageRows, answers, execRun, execTool, approvedBy, stale, sent, pc, local>>

\* One transaction; each of its updates looks at its own row only.
Expire(o) ==
    /\ OpAt(o, "expire")
    /\ MoveExec(opExec[o], {"WAITING_APPROVAL"}, "CANCELLED")
    /\ MoveRun(execRun[opExec[o]], {"WAITING_APPROVAL"}, "CANCELLED")
    /\ OpReturn(o)
    /\ UNCHANGED <<usageRows, answers, execRun, execTool, approvedBy, stale, sent, pc, local>>

\* Mutant of Claim: the status read by findOwned is trusted, the update asks for none.
ClaimAnyStatus(o) ==
    /\ OpAt(o, "claim") /\ OpGoto(o, "call")
    /\ execStatus' = [execStatus EXCEPT ![opExec[o]] = "RUNNING"]
    /\ approvedBy' = [approvedBy EXCEPT ![opExec[o]] = o]
    /\ UNCHANGED <<runRow, execRun, execTool, stale, sent, pc, local>>

Claim(o) ==
    /\ OpAt(o, "claim")
    /\ LET e == opExec[o] IN
       \/ /\ execStatus[e] = "WAITING_APPROVAL"
          /\ execStatus' = [execStatus EXCEPT ![e] = "RUNNING"]
          /\ approvedBy' = [approvedBy EXCEPT ![e] = o]
          /\ OpGoto(o, "call")
       \/ /\ execStatus[e] # "WAITING_APPROVAL"
          /\ OpReturn(o) /\ UNCHANGED <<execStatus, approvedBy>>
    /\ UNCHANGED <<runRow, execRun, execTool, stale, sent, pc, local>>

CallApproved(o) ==
    /\ OpAt(o, "call")
    /\ \E n \in 0 .. 1 :
         /\ sent' = [sent EXCEPT ![opExec[o]] = @ + n]
         /\ (n = 1 /\ OpGoto(o, "succeed")) \/ OpGoto(o, "fail")
    /\ UNCHANGED <<runRow, execRow, pc, local>>

\* Mutant of SucceedApproved: the run is left to somebody else.
SucceedExecutionOnly(o) ==
    /\ OpAt(o, "succeed")
    /\ MoveExec(opExec[o], {"RUNNING"}, "SUCCEEDED")
    /\ OpReturn(o)
    /\ UNCHANGED <<runRow, execRun, execTool, approvedBy, stale, sent, pc, local>>

\* The transaction is inside the try block: if it throws, the catch block runs.
SucceedApproved(o) ==
    /\ OpAt(o, "succeed")
    /\ \/ /\ MoveExec(opExec[o], {"RUNNING"}, "SUCCEEDED")
          /\ MoveRun(execRun[opExec[o]], {"WAITING_APPROVAL"}, "SUCCEEDED")
          /\ OpReturn(o) \/ (Faulty /\ OpGoto(o, "fail"))
       \/ Faulty /\ OpGoto(o, "fail") /\ UNCHANGED <<execStatus, runStatus>>
    /\ UNCHANGED <<usageRows, answers, execRun, execTool, approvedBy, stale, sent, pc, local>>

FailApproved(o) ==
    /\ OpAt(o, "fail")
    /\ MoveExec(opExec[o], {"RUNNING"}, "FAILED")
    /\ MoveRun(execRun[opExec[o]], {"WAITING_APPROVAL"}, "FAILED")
    /\ OpReturn(o)
    /\ UNCHANGED <<usageRows, answers, execRun, execTool, approvedBy, stale, sent, pc, local>>

Reject(o) ==
    /\ OpAt(o, "idle")
    /\ \E e \in Execs : execStatus[e] # "NONE" /\ opExec' = [opExec EXCEPT ![o] = e]
    /\ opPc' = [opPc EXCEPT ![o] = "reject"]
    /\ UNCHANGED <<runRow, execRow, sent, pc, local>>

\* Mutant of RejectExecution: the update asks for no status.
RejectAnyStatus(o) ==
    /\ OpAt(o, "reject") /\ OpGoto(o, "cancel")
    /\ execStatus' = [execStatus EXCEPT ![opExec[o]] = "CANCELLED"]
    /\ approvedBy' = [approvedBy EXCEPT ![opExec[o]] = o]
    /\ UNCHANGED <<runRow, execRun, execTool, stale, sent, pc, local>>

RejectExecution(o) ==
    /\ OpAt(o, "reject")
    /\ LET e == opExec[o] IN
       \/ /\ execStatus[e] = "WAITING_APPROVAL"
          /\ execStatus' = [execStatus EXCEPT ![e] = "CANCELLED"]
          /\ approvedBy' = [approvedBy EXCEPT ![e] = o]
          /\ OpGoto(o, "cancel")
       \/ /\ execStatus[e] # "WAITING_APPROVAL"
          /\ OpReturn(o) /\ UNCHANGED <<execStatus, approvedBy>>
    /\ UNCHANGED <<runRow, execRun, execTool, stale, sent, pc, local>>

CancelRun(o) ==
    /\ OpAt(o, "cancel")
    /\ MoveRun(execRun[opExec[o]], {"WAITING_APPROVAL"}, "CANCELLED")
    /\ OpReturn(o)
    /\ UNCHANGED <<usageRows, answers, execRow, sent, pc, local>>

\* The process dies, or a statement outside the try block throws: the claim or the
\* rejection stays as far as it got.
OperatorCrash(o) ==
    /\ Faulty /\ ~OpAt(o, "idle") /\ OpReturn(o)
    /\ UNCHANGED <<runRow, execRow, sent, pc, local>>

OperatorStep(o) ==
    \/ Expire(o) \/ Claim(o) \/ CallApproved(o) \/ SucceedApproved(o) \/ FailApproved(o)
    \/ RejectExecution(o) \/ CancelRun(o)

-----------------------------------------------------------------------------
Next ==
    \/ \E r \in Runs : Prepare(r) \/ ExecutorStep(r) \/ ClientAbort(r) \/ Crash(r)
    \/ \E e \in Execs : Age(e)
    \/ \E o \in Operators : Approve(o) \/ Reject(o) \/ OperatorStep(o) \/ OperatorCrash(o)

Spec == Init /\ [][Next]_vars

\* A request that has started is driven to its end by the event loop, as every
\* await is bounded: provider and tool calls by their timeouts.
FairSpec ==
    /\ Spec
    /\ \A r \in Runs : WF_vars(ExecutorStep(r))
    /\ \A o \in Operators : WF_vars(OperatorStep(o))
-----------------------------------------------------------------------------
(* Properties.                                                             *)

Working == {"model", "record", "tools", "park", "call", "succeed", "failCall", "complete"}
Parked(r) == runStatus[r] = "WAITING_APPROVAL"
Open == {"RUNNING", "WAITING_APPROVAL"}

TypeOK ==
    /\ runStatus \in [Runs -> {"NONE"} \cup RunStatus]
    /\ usageRows \in [Runs -> Nat] /\ answers \in [Runs -> Nat]
    /\ execStatus \in [Execs -> {"NONE"} \cup RunStatus]
    /\ execRun \in [Execs -> Runs \cup {NoRun}]
    /\ execTool \in [Execs -> Tools \cup {NoTool}]
    /\ approvedBy \in [Execs -> Operators \cup {NoUser}]
    /\ stale \in [Execs -> BOOLEAN] /\ sent \in [Execs -> Nat]
    /\ pc \in [Runs -> ExecutorPc] /\ round \in [Runs -> Nat]
    /\ calls \in [Runs -> 0 .. MaxCalls + 1]
    /\ current \in [Runs -> Execs \cup {NoExec}]
    /\ attempt \in [Runs -> Nat] /\ aborted \in [Runs -> BOOLEAN]
    /\ opPc \in [Operators -> OperatorPc]
    /\ opExec \in [Operators -> Execs \cup {NoExec}]

\* While the executor of a run is at work its run is RUNNING: no approval, rejection
\* or expiry, however it interleaves, closes or parks a run under its executor.
ExecutorOwnsRun == \A r \in Runs : pc[r] \in Working => runStatus[r] = "RUNNING"

\* The tool of an execution that needs approval is called only once an operator is on
\* record for it, and an execution still waiting, rejected or expired was never sent.
SentOnlyIfApproved ==
    \A e \in Execs : execTool[e] \in NeedsApproval /\ sent[e] > 0 =>
        approvedBy[e] # NoUser /\ execStatus[e] \in {"RUNNING", "SUCCEEDED", "FAILED"}

\* Two operators who approve at the same time make one call, a tool whose method is not
\* GET is called once, and a GET tool at most retryCount times more.
SentAtMost ==
    \A e \in Execs :
        sent[e] <= IF execTool[e] \in NeedsApproval \cup {NoTool} THEN 1
                   ELSE 1 + RetryCount(execTool[e])

\* A run that SUCCEEDED has nothing pending, running or failed among its executions.
SucceededRunIsSettled ==
    \A e \in Execs : execStatus[e] # "NONE" /\ runStatus[execRun[e]] = "SUCCEEDED" =>
        execStatus[e] = "SUCCEEDED"

\* The executor stops at the first call that needs approval: a run never has two
\* executions to decide or to run.
OneOpenExecution ==
    \A e, f \in Execs :
        execStatus[e] \in Open /\ execStatus[f] \in Open /\ execRun[e] = execRun[f] => e = f

\* The assistant message and SUCCEEDED come together: a run that failed or was
\* cancelled has no answer, even if the commit of complete() was reported as an error,
\* and a run without an answer succeeds only through an approved call.
AnswerMatchesOutcome ==
    \A r \in Runs :
        /\ answers[r] <= 1
        /\ answers[r] = 1 => runStatus[r] = "SUCCEEDED"
        /\ runStatus[r] = "SUCCEEDED" /\ answers[r] = 0 =>
              \E e \in Execs : execRun[e] = r /\ execTool[e] \in NeedsApproval
                                /\ execStatus[e] = "SUCCEEDED"

\* No tool is called, no run parked and no answer given on a reply that is not billed.
ActsOnBilledReplies ==
    \A r \in Runs :
        \/ pc[r] \in Working \ {"model", "record"}
        \/ runStatus[r] \in {"WAITING_APPROVAL", "SUCCEEDED"}
        => usageRows[r] = round[r] + 1

\* The operator on record for an execution stays on record: of several approvals and
\* rejections, the first to reach the row decides.
DecisionStands ==
    [][\A e \in Execs : approvedBy[e] # NoUser => approvedBy'[e] = approvedBy[e]]_vars

\* Each execution that needs approval is a request of the contract; the statuses it
\* can have after an operator claimed it all count as granted.
Requests == {e \in Execs : execTool[e] \in NeedsApproval}
Verdict(e) == IF e \notin Requests THEN "none"
              ELSE CASE execStatus[e] = "WAITING_APPROVAL" -> "pending"
                     [] execStatus[e] = "CANCELLED" -> "denied"
                     [] OTHER -> "granted"

Contract == INSTANCE RunContract
    WITH Requests <- Execs, run <- runStatus,
         verdict <- [e \in Execs |-> Verdict(e)],
         performed <- [e \in Execs |-> IF e \in Requests THEN sent[e] ELSE 0]

\* The two services together keep the contract: a closed run stays closed, a decision
\* is final, and an approved call is made once.
ImplementsContract == Contract!Spec

\* Without failures and crashes, every run that starts is parked or closed, and a call
\* that is being made ends: neither the executor nor an operator leaves an execution
\* RUNNING.
NothingStaysRunning ==
    /\ \A r \in Runs : runStatus[r] = "RUNNING" ~> runStatus[r] # "RUNNING"
    /\ \A e \in Execs : execStatus[e] = "RUNNING" ~> execStatus[e] # "RUNNING"

\* Without failures and crashes, an operator whose decision got through on a parked
\* run closes it.
DecisionClosesParkedRun ==
    \A o \in Operators : \A r \in Runs :
        (/\ opPc[o] \in {"call", "succeed", "fail", "cancel"}
         /\ execRun[opExec[o]] = r /\ Parked(r)) ~> runStatus[r] \in Terminal

\* The dialog of the console says that the run of a rejected call is marked cancelled.
RejectedRunIsCancelled ==
    \A r \in Runs :
        (\E e \in Execs : execRun[e] = r /\ execStatus[e] = "CANCELLED"
                            /\ approvedBy[e] # NoUser) ~> runStatus[r] = "CANCELLED"

\* A run is cancelled because its client left, or because its request was rejected or
\* expired undecided.
CancelledForAReason ==
    \A r \in Runs : runStatus[r] = "CANCELLED" =>
        aborted[r] \/ \E e \in Execs : execRun[e] = r /\ execStatus[e] = "CANCELLED"
-----------------------------------------------------------------------------
(* The inductive invariant behind the safety properties.                   *)

\* What an execution's status says of its other columns and of what was sent for it.
ExecutionRow(e) ==
    /\ execStatus[e] = "NONE" =>
           execRun[e] = NoRun /\ execTool[e] = NoTool /\ approvedBy[e] = NoUser /\ sent[e] = 0
    /\ execStatus[e] # "NONE" => execRun[e] \in Runs /\ execTool[e] \in Tools
    /\ execStatus[e] = "WAITING_APPROVAL" =>
           execTool[e] \in NeedsApproval /\ approvedBy[e] = NoUser /\ sent[e] = 0
    /\ execStatus[e] = "CANCELLED" => execTool[e] \in NeedsApproval /\ sent[e] = 0
    /\ execTool[e] \in NeedsApproval /\ execStatus[e] \in {"RUNNING", "SUCCEEDED", "FAILED"} =>
           approvedBy[e] # NoUser

ExecutionRows == \A e \in Execs : ExecutionRow(e)

InCall == {"park", "call", "succeed", "failCall"}

Settled(e, r) == execRun[e] = r => execStatus[e] = "SUCCEEDED"

\* Where the executor of a run stands, and what that says of the run's executions: all
\* have SUCCEEDED but the current one.
ExecutorState(r) ==
    /\ pc[r] = "idle" => runStatus[r] = "NONE" /\ \A e \in Execs : execRun[e] # r
    /\ pc[r] \in Working => runStatus[r] = "RUNNING"
    /\ pc[r] \in Working \ InCall => \A e \in Execs : Settled(e, r)
    /\ pc[r] \in InCall =>
           /\ calls[r] > 0
           /\ current[r] \in Execs /\ execRun[current[r]] = r
           /\ (execTool[current[r]] \in NeedsApproval) <=> (pc[r] = "park")
           /\ \A e \in Execs \ {current[r]} : Settled(e, r)
    /\ pc[r] \in {"call", "succeed"} => execStatus[current[r]] = "RUNNING"
    /\ pc[r] = "call" => /\ sent[current[r]] <= attempt[r]
                         /\ attempt[r] <= RetryCount(execTool[current[r]])

ExecutorStates == \A r \in Runs : ExecutorState(r)

\* An operator at work has an execution; from the claim on it is theirs alone.
OperatorState(o) ==
    /\ opPc[o] # "idle" => opExec[o] \in Execs /\ execStatus[opExec[o]] # "NONE"
    /\ opPc[o] \in {"call", "succeed", "fail"} =>
           execTool[opExec[o]] \in NeedsApproval /\ approvedBy[opExec[o]] = o
    /\ opPc[o] \in {"call", "succeed"} => execStatus[opExec[o]] = "RUNNING"
    /\ opPc[o] = "call" => sent[opExec[o]] = 0

OperatorStates == \A o \in Operators : OperatorState(o)

\* A run has at most one execution that has not SUCCEEDED, and none once it has.
UnsettledExecutions ==
    /\ \A e, f \in Execs :
          execRun[e] \in Runs /\ execRun[e] = execRun[f]
            /\ execStatus[e] # "SUCCEEDED" /\ execStatus[f] # "SUCCEEDED" => e = f
    /\ SucceededRunIsSettled

\* What is billed and answered, by where the executor stands and the run's status.
Account(r) ==
    /\ pc[r] \in {"idle", "model", "record"} => usageRows[r] = round[r]
    /\ \/ pc[r] \in Working \ {"model", "record"}
       \/ runStatus[r] \in {"WAITING_APPROVAL", "SUCCEEDED"}
       => usageRows[r] = round[r] + 1
    /\ answers[r] \in 0 .. 1 /\ (answers[r] = 1 => runStatus[r] = "SUCCEEDED")
    /\ runStatus[r] = "SUCCEEDED" /\ answers[r] = 0 =>
          \E e \in Execs : execRun[e] = r /\ execTool[e] \in NeedsApproval
                            /\ execStatus[e] = "SUCCEEDED"

Accounts == \A r \in Runs : Account(r)

IInv == TypeOK /\ ExecutionRows /\ ExecutorStates /\ OperatorStates /\ UnsettledExecutions
           /\ SentAtMost
=============================================================================
