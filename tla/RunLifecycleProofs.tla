------------------------- MODULE RunLifecycleProofs -------------------------
(* Theorems of RunLifecycle, for any number of runs, executions, operators and    *)
(* tools, with failures and crashes.                                              *)
EXTENDS RunLifecycle, TLAPS

USE DEF Terminal, RunStatus, ExecutorPc, OperatorPc, At, Goto, GotoIfFaulty, Reply,
        OpAt, OpGoto, OpReturn, MoveRun, MoveExec, runRow, execRow, local, op

\* The initial state has the types of the model.
LEMMA TypeInit == Init => TypeOK
BY LifecycleConstants DEF Init, TypeOK

\* Every step of an executor or an operator keeps the types.
LEMMA TypeStep == TypeOK /\ ExecutorStates /\ [Next]_vars => TypeOK'
<1> SUFFICES ASSUME TypeOK, ExecutorStates, [Next]_vars PROVE TypeOK'
    OBVIOUS
<1> USE LifecycleConstants
<1>1. ASSUME NEW r \in Runs, Prepare(r) \/ ClientAbort(r) \/ Crash(r)  PROVE TypeOK'
    <2>1. CASE Prepare(r)
        BY <2>1 DEF TypeOK, Prepare
    <2>2. CASE ClientAbort(r)
        BY <2>2 DEF TypeOK, ClientAbort
    <2>3. CASE Crash(r)
        BY <2>3 DEF TypeOK, Crash
    <2>. QED BY <1>1, <2>1, <2>2, <2>3
<1>2. ASSUME NEW r \in Runs, ExecutorStep(r)  PROVE TypeOK'
    <2>1. CASE ModelReply(r)
        BY <2>1 DEF TypeOK, ModelReply
    <2>2. CASE ModelError(r) \/ BadCall(r) \/ NextRound(r)
        BY <2>2 DEF TypeOK, ModelError, BadCall, NextRound
    <2>3. CASE RecordUsage(r)
        BY <2>3 DEF TypeOK, RecordUsage
    <2>4. CASE CreateExecution(r)
        BY <2>4 DEF TypeOK, CreateExecution
    <2>5. CASE Park(r) \/ Complete(r) \/ Fail(r)
        BY <2>5 DEF TypeOK, Park, Complete, Fail
    <2>6. CASE CallTool(r)
        <3>1. PICK n \in 0 .. 1 : sent' = [sent EXCEPT ![current[r]] = @ + n]
            BY <2>6 DEF CallTool
        <3>2. sent' \in [Execs -> Nat]
            <4>1. current[r] \in Execs
                BY <2>6 DEF CallTool, ExecutorStates, ExecutorState, InCall
            <4>. QED BY <3>1, <4>1 DEF TypeOK
        <3>3. pc' \in [Runs -> ExecutorPc] /\ attempt' \in [Runs -> Nat]
            BY <2>6 DEF TypeOK, CallTool
        <3>4. UNCHANGED <<runRow, execRow, round, calls, current, aborted, op>>
            BY <2>6 DEF CallTool
        <3>. QED BY <3>2, <3>3, <3>4 DEF TypeOK
    <2>7. CASE SucceedCall(r)
        <3>1. calls[r] \in 1 .. MaxCalls + 1
            BY <2>7 DEF SucceedCall, ExecutorStates, ExecutorState, InCall, TypeOK
        <3>2. calls' \in [Runs -> 0 .. MaxCalls + 1]
            BY <2>7, <3>1 DEF SucceedCall, TypeOK
        <3>3. execStatus' \in [Execs -> {"NONE"} \cup RunStatus]
            BY <2>7 DEF SucceedCall, TypeOK
        <3>4. pc' \in [Runs -> ExecutorPc]
            BY <2>7 DEF SucceedCall, TypeOK
        <3>. QED BY <2>7, <3>2, <3>3, <3>4 DEF SucceedCall, TypeOK
    <2>8. CASE FailCall(r)
        BY <2>8 DEF TypeOK, FailCall
    <2>. QED BY <1>2, <2>1, <2>2, <2>3, <2>4, <2>5, <2>6, <2>7, <2>8 DEF ExecutorStep
<1>3. ASSUME NEW e \in Execs, Age(e)  PROVE TypeOK'
    BY <1>3 DEF TypeOK, Age
<1>4. ASSUME NEW o \in Operators,
             Approve(o) \/ Reject(o) \/ OperatorStep(o) \/ OperatorCrash(o)
      PROVE TypeOK'
    <2>1. CASE Approve(o) \/ Reject(o) \/ OperatorCrash(o)
        BY <2>1 DEF TypeOK, Approve, Reject, OperatorCrash
    <2>2. CASE Expire(o) \/ FailApproved(o) \/ CancelRun(o)
        BY <2>2 DEF TypeOK, Expire, FailApproved, CancelRun
    <2>3. CASE Claim(o) \/ RejectExecution(o)
        BY <2>3 DEF TypeOK, Claim, RejectExecution
    <2>4. CASE CallApproved(o) \/ SucceedApproved(o)
        BY <2>4 DEF TypeOK, CallApproved, SucceedApproved
    <2>. QED BY <1>4, <2>1, <2>2, <2>3, <2>4 DEF OperatorStep
<1>5. CASE UNCHANGED vars
    BY <1>5 DEF TypeOK, vars
<1>. QED BY <1>1, <1>2, <1>3, <1>4, <1>5 DEF Next

\* Rows of ToolExecution: one that was sent or is being worked on was asked for by a run
\* of its own, and only a waiting one is free of both.
LEMMA RowsStep ==
    TypeOK /\ ExecutionRows /\ ExecutorStates /\ OperatorStates /\ [Next]_vars => ExecutionRows'
<1> SUFFICES ASSUME TypeOK, ExecutionRows, ExecutorStates, OperatorStates, [Next]_vars,
                    NEW e \in Execs
             PROVE  ExecutionRow(e)'
    BY DEF ExecutionRows
<1> ExecutionRow(e)
    BY DEF ExecutionRows
<1> USE LifecycleConstants DEF ExecutionRow
<1>1. ASSUME NEW r \in Runs,
             \/ Prepare(r) \/ ClientAbort(r) \/ Crash(r) \/ ModelReply(r) \/ ModelError(r)
             \/ RecordUsage(r) \/ BadCall(r) \/ Park(r) \/ NextRound(r) \/ Complete(r) \/ Fail(r)
      PROVE  ExecutionRow(e)'
    <2>1. UNCHANGED <<execRow, sent>>
        BY <1>1 DEF Prepare, ClientAbort, Crash, ModelReply, ModelError, RecordUsage, BadCall,
                    Park, NextRound, Complete, Fail
    <2>. QED BY <2>1
<1>2. ASSUME NEW r \in Runs, CreateExecution(r)  PROVE ExecutionRow(e)'
    BY <1>2 DEF CreateExecution, TypeOK
<1>3. ASSUME NEW r \in Runs, CallTool(r)  PROVE ExecutionRow(e)'
    <2>1. PICK n \in 0 .. 1 : sent' = [sent EXCEPT ![current[r]] = @ + n]
        BY <1>3 DEF CallTool
    <2>2. execStatus[current[r]] = "RUNNING"
        BY <1>3 DEF CallTool, ExecutorStates, ExecutorState
    <2>3. sent'[e] = sent[e] \/ e = current[r]
        BY <2>1 DEF TypeOK
    <2>4. UNCHANGED execRow
        BY <1>3 DEF CallTool
    <2>. QED BY <2>2, <2>3, <2>4 DEF TypeOK
<1>4. ASSUME NEW r \in Runs, SucceedCall(r) \/ FailCall(r)  PROVE ExecutionRow(e)'
    <2>1. current[r] \in Execs /\ execRun[current[r]] = r /\ execTool[current[r]] \notin NeedsApproval
        BY <1>4 DEF SucceedCall, FailCall, ExecutorStates, ExecutorState, InCall
    <2>2. execStatus' \in {execStatus, [execStatus EXCEPT ![current[r]] = "SUCCEEDED"],
                           [execStatus EXCEPT ![current[r]] = "FAILED"]}
        BY <1>4 DEF SucceedCall, FailCall
    <2>3. UNCHANGED <<execRun, execTool, approvedBy, sent>>
        BY <1>4 DEF SucceedCall, FailCall
    <2>. QED BY <2>1, <2>2, <2>3 DEF TypeOK, ExecutionRows
<1>5. ASSUME NEW f \in Execs, Age(f)  PROVE ExecutionRow(e)'
    BY <1>5 DEF Age
<1>6. ASSUME NEW o \in Operators,
             Approve(o) \/ Reject(o) \/ CancelRun(o) \/ OperatorCrash(o)
      PROVE  ExecutionRow(e)'
    BY <1>6 DEF Approve, Reject, CancelRun, OperatorCrash
<1>7. ASSUME NEW o \in Operators, Expire(o)  PROVE ExecutionRow(e)'
    BY <1>7 DEF Expire, TypeOK
<1>8. ASSUME NEW o \in Operators, Claim(o) \/ RejectExecution(o)  PROVE ExecutionRow(e)'
    BY <1>8 DEF Claim, RejectExecution, TypeOK
<1>9. ASSUME NEW o \in Operators, CallApproved(o)  PROVE ExecutionRow(e)'
    <2>1. PICK n \in 0 .. 1 : sent' = [sent EXCEPT ![opExec[o]] = @ + n]
        BY <1>9 DEF CallApproved
    <2>2. execStatus[opExec[o]] = "RUNNING"
        BY <1>9 DEF CallApproved, OperatorStates, OperatorState
    <2>3. sent'[e] = sent[e] \/ e = opExec[o]
        BY <2>1 DEF TypeOK
    <2>4. UNCHANGED execRow
        BY <1>9 DEF CallApproved
    <2>. QED BY <2>2, <2>3, <2>4 DEF TypeOK
<1>10. ASSUME NEW o \in Operators, SucceedApproved(o) \/ FailApproved(o)  PROVE ExecutionRow(e)'
    BY <1>10 DEF SucceedApproved, FailApproved, TypeOK
<1>11. CASE UNCHANGED vars
    BY <1>11 DEF vars
<1>. QED BY <1>1, <1>2, <1>3, <1>4, <1>5, <1>6, <1>7, <1>8, <1>9, <1>10, <1>11
         DEF Next, ExecutorStep, OperatorStep

\* An operator in the middle of approve() or reject() holds the row it has claimed.
LEMMA OperatorsStep ==
    TypeOK /\ ExecutionRows /\ ExecutorStates /\ OperatorStates /\ [Next]_vars => OperatorStates'
<1> SUFFICES ASSUME TypeOK, ExecutionRows, ExecutorStates, OperatorStates, [Next]_vars,
                    NEW p \in Operators
             PROVE  OperatorState(p)'
    BY DEF OperatorStates
<1> OperatorState(p)
    BY DEF OperatorStates
<1> USE LifecycleConstants DEF OperatorState
<1>1. ASSUME NEW r \in Runs,
             \/ Prepare(r) \/ ClientAbort(r) \/ Crash(r) \/ ModelReply(r) \/ ModelError(r)
             \/ RecordUsage(r) \/ BadCall(r) \/ Park(r) \/ NextRound(r) \/ Complete(r) \/ Fail(r)
      PROVE  OperatorState(p)'
    <2>1. UNCHANGED <<execRow, sent, op>>
        BY <1>1 DEF Prepare, ClientAbort, Crash, ModelReply, ModelError, RecordUsage, BadCall,
                    Park, NextRound, Complete, Fail
    <2>. QED BY <2>1
<1>2. ASSUME NEW r \in Runs, CreateExecution(r)  PROVE OperatorState(p)'
    BY <1>2 DEF CreateExecution, TypeOK
<1>3. ASSUME NEW r \in Runs, CallTool(r)  PROVE OperatorState(p)'
    <2>1. PICK n \in 0 .. 1 : sent' = [sent EXCEPT ![current[r]] = @ + n]
        BY <1>3 DEF CallTool
    <2>2. current[r] \in Execs /\ execTool[current[r]] \notin NeedsApproval
        BY <1>3 DEF CallTool, ExecutorStates, ExecutorState, InCall
    <2>3. UNCHANGED <<execRow, op>>
        BY <1>3 DEF CallTool
    <2>. QED BY <2>1, <2>2, <2>3 DEF TypeOK
<1>4. ASSUME NEW r \in Runs, SucceedCall(r) \/ FailCall(r)  PROVE OperatorState(p)'
    <2>1. current[r] \in Execs /\ execRun[current[r]] = r /\ execTool[current[r]] \notin NeedsApproval
        BY <1>4 DEF SucceedCall, FailCall, ExecutorStates, ExecutorState, InCall
    <2>2. execStatus' \in {execStatus, [execStatus EXCEPT ![current[r]] = "SUCCEEDED"],
                           [execStatus EXCEPT ![current[r]] = "FAILED"]}
        BY <1>4 DEF SucceedCall, FailCall
    <2>3. UNCHANGED <<execRun, execTool, approvedBy, sent, op>>
        BY <1>4 DEF SucceedCall, FailCall
    <2>. QED BY <2>1, <2>2, <2>3 DEF TypeOK
<1>5. ASSUME NEW f \in Execs, Age(f)  PROVE OperatorState(p)'
    BY <1>5 DEF Age
<1>6. ASSUME NEW o \in Operators,
             Approve(o) \/ Reject(o) \/ CancelRun(o) \/ OperatorCrash(o)
      PROVE  OperatorState(p)'
    BY <1>6 DEF Approve, Reject, CancelRun, OperatorCrash, TypeOK
<1>7. ASSUME NEW o \in Operators, Expire(o)  PROVE OperatorState(p)'
    BY <1>7 DEF Expire, TypeOK
<1>8. ASSUME NEW o \in Operators, Claim(o)  PROVE OperatorState(p)'
    BY <1>8 DEF Claim, TypeOK, ExecutionRows, ExecutionRow
<1>9. ASSUME NEW o \in Operators, RejectExecution(o)  PROVE OperatorState(p)'
    BY <1>9 DEF RejectExecution, TypeOK, ExecutionRows, ExecutionRow
<1>10. ASSUME NEW o \in Operators, CallApproved(o)  PROVE OperatorState(p)'
    <2>1. PICK n \in 0 .. 1 : sent' = [sent EXCEPT ![opExec[o]] = @ + n]
        BY <1>10 DEF CallApproved
    <2>2. opExec[o] \in Execs /\ approvedBy[opExec[o]] = o
        BY <1>10 DEF CallApproved, OperatorStates
    <2>3. UNCHANGED <<execRow, opExec>>
        BY <1>10 DEF CallApproved
    <2>4. opPc' \in {[opPc EXCEPT ![o] = "succeed"], [opPc EXCEPT ![o] = "fail"]}
        BY <1>10 DEF CallApproved
    <2>5. opPc[o] = "call"
        BY <1>10 DEF CallApproved
    <2>6. CASE p = o
        BY <2>3, <2>4, <2>5, <2>6 DEF TypeOK
    <2>7. CASE p # o
        BY <2>1, <2>2, <2>3, <2>4, <2>7 DEF TypeOK
    <2>. QED BY <2>6, <2>7
<1>11. ASSUME NEW o \in Operators, SucceedApproved(o)  PROVE OperatorState(p)'
    <2>1. opExec[o] \in Execs /\ approvedBy[opExec[o]] = o /\ opPc[o] = "succeed"
        BY <1>11 DEF SucceedApproved, OperatorStates
    <2>2. execStatus' \in {execStatus, [execStatus EXCEPT ![opExec[o]] =
                                          IF @ = "RUNNING" THEN "SUCCEEDED" ELSE @]}
        BY <1>11 DEF SucceedApproved
    <2>3. UNCHANGED <<execRun, execTool, approvedBy, sent>>
        BY <1>11 DEF SucceedApproved
    <2>4. \/ opPc' = [opPc EXCEPT ![o] = "idle"] /\ opExec' = [opExec EXCEPT ![o] = NoExec]
          \/ opPc' = [opPc EXCEPT ![o] = "fail"] /\ opExec' = opExec
        BY <1>11 DEF SucceedApproved
    <2>. QED BY <2>1, <2>2, <2>3, <2>4 DEF TypeOK
<1>12. ASSUME NEW o \in Operators, FailApproved(o)  PROVE OperatorState(p)'
    <2>1. opExec[o] \in Execs /\ approvedBy[opExec[o]] = o
        BY <1>12 DEF FailApproved, OperatorStates
    <2>. QED BY <1>12, <2>1 DEF FailApproved, TypeOK
<1>13. CASE UNCHANGED vars
    BY <1>13 DEF vars
<1>. QED BY <1>1, <1>2, <1>3, <1>4, <1>5, <1>6, <1>7, <1>8, <1>9, <1>10, <1>11, <1>12, <1>13
         DEF Next, ExecutorStep, OperatorStep

\* An executor is at a place of its program that fits the status of its run and its rows.
LEMMA ExecutorsStep ==
    TypeOK /\ ExecutionRows /\ ExecutorStates /\ OperatorStates /\ [Next]_vars => ExecutorStates'
<1> SUFFICES ASSUME TypeOK, ExecutionRows, ExecutorStates, OperatorStates, [Next]_vars,
                    NEW q \in Runs
             PROVE  ExecutorState(q)'
    BY DEF ExecutorStates
<1> ExecutorState(q)
    BY DEF ExecutorStates
<1> USE LifecycleConstants DEF ExecutorState, Settled, Working, InCall
<1>1. ASSUME NEW r \in Runs,
             \/ Prepare(r) \/ Crash(r) \/ ModelError(r) \/ BadCall(r) \/ Park(r) \/ Complete(r)
             \/ Fail(r)
      PROVE  ExecutorState(q)'
    <2>1. UNCHANGED <<execRow, sent, local>>
        BY <1>1 DEF Prepare, Crash, ModelError, BadCall, Park, Complete, Fail
    <2>2. CASE q # r
        <3>1. pc'[q] = pc[q] /\ runStatus'[q] = runStatus[q]
            BY <1>1, <2>2 DEF Prepare, Crash, ModelError, BadCall, Park, Complete, Fail, TypeOK
        <3>. QED BY <2>1, <3>1
    <2>3. CASE q = r
        <3>1. pc'[r] \in {"fail", "done"} \/ (Prepare(r) /\ pc'[r] = "model" /\ runStatus'[r] = "RUNNING")
            BY <1>1 DEF Prepare, Crash, ModelError, BadCall, Park, Complete, Fail, TypeOK
        <3>. QED BY <2>1, <2>3, <3>1 DEF Prepare
    <2>. QED BY <2>2, <2>3
<1>2. ASSUME NEW r \in Runs, ClientAbort(r)  PROVE ExecutorState(q)'
    BY <1>2 DEF ClientAbort
<1>3. ASSUME NEW r \in Runs, ModelReply(r) \/ RecordUsage(r) \/ NextRound(r)
      PROVE  ExecutorState(q)'
    <2>1. UNCHANGED <<execRow, sent, runStatus, current, attempt>>
        BY <1>3 DEF ModelReply, RecordUsage, NextRound
    <2>2. CASE q # r
        <3>1. pc'[q] = pc[q] /\ calls'[q] = calls[q]
            BY <1>3, <2>2 DEF ModelReply, RecordUsage, NextRound, TypeOK
        <3>. QED BY <2>1, <3>1
    <2>3. CASE q = r
        <3>1. /\ pc[r] \in {"model", "record", "tools"}
              /\ pc'[r] \in {"model", "record", "tools", "complete", "fail"}
            BY <1>3 DEF ModelReply, RecordUsage, NextRound, TypeOK
        <3>. QED BY <2>1, <2>3, <3>1
    <2>. QED BY <2>2, <2>3
<1>4. ASSUME NEW r \in Runs, CreateExecution(r)  PROVE ExecutorState(q)'
    <2>1. CASE UNCHANGED <<execStatus, execRun, execTool, current>> /\ Goto(r, "fail")
        BY <1>4, <2>1 DEF CreateExecution, TypeOK
    <2>2. ASSUME NEW e \in Execs, NEW t \in Tools, execStatus[e] = "NONE",
                 execStatus' = [execStatus EXCEPT
                     ![e] = IF t \in NeedsApproval THEN "WAITING_APPROVAL" ELSE "RUNNING"],
                 execRun' = [execRun EXCEPT ![e] = r], execTool' = [execTool EXCEPT ![e] = t],
                 current' = [current EXCEPT ![r] = e],
                 Reply(r, IF t \in NeedsApproval THEN "park" ELSE "call", "fail")
          PROVE  ExecutorState(q)'
        <3>1. execRun[e] = NoRun /\ sent[e] = 0
            BY <2>2 DEF ExecutionRows, ExecutionRow
        <3>2. /\ UNCHANGED <<runStatus, sent, calls>> /\ attempt' = [attempt EXCEPT ![r] = 0]
              /\ pc[r] = "tools" /\ calls[r] > 0
            BY <1>4 DEF CreateExecution
        <3>3. CASE q # r
            <4>1. /\ pc'[q] = pc[q] /\ current'[q] = current[q]
                  /\ attempt'[q] = attempt[q]
                BY <2>2, <3>2, <3>3 DEF TypeOK
            <4>2. \A f \in Execs \ {e} : /\ execStatus'[f] = execStatus[f]
                                         /\ execRun'[f] = execRun[f] /\ execTool'[f] = execTool[f]
                BY <2>2 DEF TypeOK
            <4>3. execRun'[e] = r /\ ~(pc[q] \in InCall /\ current[q] = e)
                BY <2>2, <3>1 DEF TypeOK
            <4>4. CASE pc[q] \in InCall
                <5>1. current[q] \in Execs \ {e}
                    BY <4>3, <4>4
                <5>2. \A f \in Execs \ {current[q]} : Settled(f, q)'
                    BY <3>3, <4>1, <4>2, <4>3, <4>4
                <5>3. RetryCount(execTool[current[q]])' = RetryCount(execTool[current[q]])
                    BY <4>1, <4>2, <5>1 DEF RetryCount
                <5>. QED BY <3>2, <4>1, <4>2, <4>4, <5>1, <5>2, <5>3
            <4>5. CASE pc[q] \notin InCall
                <5>1. \A f \in Execs : execRun'[f] = q => f # e /\ execRun[f] = q
                    BY <3>3, <4>2, <4>3
                <5>. QED BY <3>2, <4>1, <4>2, <4>5, <5>1
            <4>. QED BY <4>4, <4>5
        <3>4. CASE q = r
            <4>1. RetryCount(t) \in Nat
                BY DEF RetryCount
            <4>2. \A f \in Execs \ {e} : Settled(f, r)'
                BY <2>2, <3>2, <3>4 DEF TypeOK
            <4>3. /\ current'[r] = e /\ execRun'[e] = r /\ execTool'[e] = t /\ attempt'[r] = 0
                  /\ execStatus'[e] = IF t \in NeedsApproval THEN "WAITING_APPROVAL" ELSE "RUNNING"
                BY <2>2, <3>2 DEF TypeOK
            <4>4. pc'[r] \in {"fail", IF t \in NeedsApproval THEN "park" ELSE "call"}
                BY <2>2 DEF TypeOK
            <4>5. runStatus[r] = "RUNNING"
                BY <3>2, <3>4
            <4>. QED BY <3>1, <3>2, <3>4, <4>1, <4>2, <4>3, <4>4, <4>5
        <3>. QED BY <3>3, <3>4
    <2>. QED BY <1>4, <2>1, <2>2 DEF CreateExecution
<1>5. ASSUME NEW r \in Runs, CallTool(r)  PROVE ExecutorState(q)'
    <2>1. PICK n \in 0 .. 1 :
             /\ sent' = [sent EXCEPT ![current[r]] = @ + n]
             /\ \/ n = 1 /\ Goto(r, "succeed") /\ UNCHANGED attempt
                \/ /\ attempt[r] < RetryCount(execTool[current[r]])
                   /\ attempt' = [attempt EXCEPT ![r] = @ + 1] /\ UNCHANGED pc
                \/ /\ attempt[r] >= RetryCount(execTool[current[r]])
                   /\ Goto(r, "failCall") /\ UNCHANGED attempt
        BY <1>5 DEF CallTool
    <2>2. UNCHANGED <<runStatus, execRow, calls, current>> /\ pc[r] = "call"
        BY <1>5 DEF CallTool
    <2>3. /\ current[r] \in Execs /\ execRun[current[r]] = r
          /\ execTool[current[r]] \in Tools
        BY <2>2 DEF ExecutorStates, ExecutionRows, ExecutionRow
    <2>4. CASE q # r
        BY <2>1, <2>2, <2>3, <2>4 DEF TypeOK
    <2>5. CASE q = r
        <3>1. RetryCount(execTool[current[r]]) \in Nat
            BY <2>3 DEF RetryCount
        <3>. QED BY <2>1, <2>2, <2>3, <2>5, <3>1 DEF TypeOK
    <2>. QED BY <2>4, <2>5
<1>6. ASSUME NEW r \in Runs, SucceedCall(r)  PROVE ExecutorState(q)'
    <2>1. current[r] \in Execs /\ execRun[current[r]] = r /\ pc[r] = "succeed"
        BY <1>6 DEF SucceedCall, ExecutorStates
    <2>2. CASE q # r
        BY <1>6, <2>1, <2>2 DEF SucceedCall, TypeOK
    <2>3. CASE q = r
        BY <1>6, <2>1, <2>3 DEF SucceedCall, TypeOK
    <2>. QED BY <2>2, <2>3
<1>7. ASSUME NEW r \in Runs, FailCall(r)  PROVE ExecutorState(q)'
    <2>1. current[r] \in Execs /\ execRun[current[r]] = r /\ pc[r] = "failCall"
        BY <1>7 DEF FailCall, ExecutorStates
    <2>. QED BY <1>7, <2>1 DEF FailCall, TypeOK
<1>8. ASSUME NEW f \in Execs, Age(f)  PROVE ExecutorState(q)'
    BY <1>8 DEF Age
<1>9. ASSUME NEW o \in Operators, Approve(o) \/ Reject(o) \/ OperatorCrash(o)
      PROVE  ExecutorState(q)'
    BY <1>9 DEF Approve, Reject, OperatorCrash
<1>10. ASSUME NEW o \in Operators,
             Expire(o) \/ Claim(o) \/ SucceedApproved(o) \/ FailApproved(o) \/ RejectExecution(o)
             \/ CancelRun(o)
      PROVE  ExecutorState(q)'
    <2>1. UNCHANGED <<execRun, execTool, sent, pc, local>>
        BY <1>10 DEF Expire, Claim, SucceedApproved, FailApproved, RejectExecution, CancelRun
    <2>2. opExec[o] \in Execs
        BY <1>10 DEF Expire, Claim, SucceedApproved, FailApproved, RejectExecution, CancelRun,
                     OperatorStates, OperatorState
    <2>3. runStatus'[q] = runStatus[q] \/ runStatus[q] = "WAITING_APPROVAL"
        <3>1. runStatus' = runStatus \/ \E s : MoveRun(execRun[opExec[o]], {"WAITING_APPROVAL"}, s)
            BY <1>10 DEF Expire, Claim, SucceedApproved, FailApproved, RejectExecution, CancelRun
        <3>. QED BY <3>1 DEF TypeOK
    <2>4. /\ \A e \in Execs : execStatus[e] = "SUCCEEDED" => execStatus'[e] = "SUCCEEDED"
          /\ \A e \in Execs : execTool[e] \notin NeedsApproval => execStatus'[e] = execStatus[e]
        <3>1. CASE Expire(o)
            BY <3>1, <2>2 DEF Expire, TypeOK, ExecutionRows, ExecutionRow
        <3>2. CASE Claim(o) \/ RejectExecution(o) \/ CancelRun(o)
            BY <3>2, <2>2 DEF Claim, RejectExecution, CancelRun, TypeOK, ExecutionRows, ExecutionRow
        <3>3. CASE SucceedApproved(o) \/ FailApproved(o)
            <4>1. execTool[opExec[o]] \in NeedsApproval
                BY <3>3 DEF SucceedApproved, FailApproved, OperatorStates, OperatorState
            <4>. QED BY <3>3, <2>2, <4>1 DEF SucceedApproved, FailApproved, TypeOK
        <3>. QED BY <1>10, <3>1, <3>2, <3>3
    <2>5. pc[q] \in InCall \ {"park"} => execTool[current[q]] \notin NeedsApproval
        OBVIOUS
    <2>. QED BY <2>1, <2>3, <2>4, <2>5
<1>11. ASSUME NEW o \in Operators, CallApproved(o)  PROVE ExecutorState(q)'
    <2>1. PICK n \in 0 .. 1 : sent' = [sent EXCEPT ![opExec[o]] = @ + n]
        BY <1>11 DEF CallApproved
    <2>2. execTool[opExec[o]] \in NeedsApproval
        BY <1>11 DEF CallApproved, OperatorStates, OperatorState
    <2>3. UNCHANGED <<runStatus, execRow, pc, local>>
        BY <1>11 DEF CallApproved
    <2>. QED BY <2>1, <2>2, <2>3 DEF TypeOK
<1>12. CASE UNCHANGED vars
    BY <1>12 DEF vars
<1>. QED BY <1>1, <1>2, <1>3, <1>4, <1>5, <1>6, <1>7, <1>8, <1>9, <1>10, <1>11, <1>12
         DEF Next, ExecutorStep, OperatorStep

\* A call that is open or has failed belongs to a run that has not SUCCEEDED.
LEMMA UnsettledStep ==
    IInv /\ [Next]_vars => UnsettledExecutions'
<1> SUFFICES ASSUME IInv, [Next]_vars  PROVE UnsettledExecutions'
    OBVIOUS
<1> USE LifecycleConstants DEF IInv, UnsettledExecutions, SucceededRunIsSettled
<1>1. ASSUME NEW r \in Runs,
             \/ Prepare(r) \/ ClientAbort(r) \/ Crash(r) \/ ModelReply(r) \/ ModelError(r)
             \/ RecordUsage(r) \/ BadCall(r) \/ Park(r) \/ NextRound(r) \/ Fail(r)
      PROVE  UnsettledExecutions'
    <2>1. UNCHANGED execRow
        BY <1>1 DEF Prepare, ClientAbort, Crash, ModelReply, ModelError, RecordUsage, BadCall,
                    Park, NextRound, Fail
    <2>2. \A q \in Runs : runStatus'[q] = "SUCCEEDED" => runStatus[q] = "SUCCEEDED"
        BY <1>1 DEF Prepare, ClientAbort, Crash, ModelReply, ModelError, RecordUsage, BadCall,
                    Park, NextRound, Fail, TypeOK
    <2>. QED BY <2>1, <2>2 DEF ExecutionRows, ExecutionRow
<1>2. ASSUME NEW r \in Runs, Complete(r)  PROVE UnsettledExecutions'
    <2>1. \A e \in Execs : Settled(e, r)
        BY <1>2 DEF Complete, ExecutorStates, ExecutorState, Working, InCall
    <2>. QED BY <1>2, <2>1 DEF Complete, Settled, ExecutionRows, ExecutionRow, TypeOK
<1>3. ASSUME NEW r \in Runs, CreateExecution(r)  PROVE UnsettledExecutions'
    <2>1. UNCHANGED runStatus /\ runStatus[r] = "RUNNING" /\ \A e \in Execs : Settled(e, r)
        BY <1>3 DEF CreateExecution, ExecutorStates, ExecutorState, Working, InCall
    <2>2. CASE UNCHANGED <<execStatus, execRun>>
        BY <2>1, <2>2
    <2>3. ASSUME NEW e \in Execs, NEW t \in Tools, execStatus[e] = "NONE",
                 execStatus' = [execStatus EXCEPT
                     ![e] = IF t \in NeedsApproval THEN "WAITING_APPROVAL" ELSE "RUNNING"],
                 execRun' = [execRun EXCEPT ![e] = r]
          PROVE  UnsettledExecutions'
        <3>1. \A f \in Execs \ {e} : execStatus'[f] = execStatus[f] /\ execRun'[f] = execRun[f]
            BY <2>3 DEF TypeOK
        <3>2. execRun'[e] = r
            BY <2>3 DEF TypeOK
        <3>. QED BY <2>1, <3>1, <3>2 DEF Settled, ExecutionRows, ExecutionRow
    <2>. QED BY <1>3, <2>2, <2>3 DEF CreateExecution
<1>4. ASSUME NEW r \in Runs, CallTool(r)  PROVE UnsettledExecutions'
    BY <1>4 DEF CallTool
<1>5. ASSUME NEW r \in Runs, SucceedCall(r) \/ FailCall(r)  PROVE UnsettledExecutions'
    <2>1. /\ runStatus[r] = "RUNNING" /\ current[r] \in Execs /\ execRun[current[r]] = r
          /\ \A e \in Execs \ {current[r]} : Settled(e, r)
        BY <1>5 DEF SucceedCall, FailCall, ExecutorStates, ExecutorState, Working, InCall
    <2>2. UNCHANGED <<runStatus, execRun>>
        BY <1>5 DEF SucceedCall, FailCall
    <2>3. \A e \in Execs \ {current[r]} : execStatus'[e] = execStatus[e]
        BY <1>5 DEF SucceedCall, FailCall, TypeOK
    <2>4. execStatus'[current[r]] # "NONE"
        BY <1>5, <2>1 DEF SucceedCall, FailCall, TypeOK, ExecutionRows, ExecutionRow
    <2>. QED BY <2>1, <2>2, <2>3, <2>4 DEF Settled
<1>6. ASSUME NEW f \in Execs, Age(f)  PROVE UnsettledExecutions'
    BY <1>6 DEF Age
<1>7. ASSUME NEW o \in Operators,
             Approve(o) \/ Reject(o) \/ CallApproved(o) \/ OperatorCrash(o)
      PROVE  UnsettledExecutions'
    BY <1>7 DEF Approve, Reject, CallApproved, OperatorCrash
<1>8. ASSUME NEW o \in Operators,
             Expire(o) \/ Claim(o) \/ SucceedApproved(o) \/ FailApproved(o) \/ RejectExecution(o)
             \/ CancelRun(o)
      PROVE  UnsettledExecutions'
    <2>1. UNCHANGED execRun /\ opExec[o] \in Execs
        BY <1>8 DEF Expire, Claim, SucceedApproved, FailApproved, RejectExecution, CancelRun,
                     OperatorStates, OperatorState
    <2>2. \A e \in Execs : /\ execStatus[e] = "SUCCEEDED" <=> 
                                execStatus'[e] = "SUCCEEDED" /\ ~(e = opExec[o] /\ execStatus[e] = "RUNNING")
                           /\ execStatus[e] # "NONE" <=> execStatus'[e] # "NONE"
        BY <1>8, <2>1 DEF Expire, Claim, SucceedApproved, FailApproved, RejectExecution, CancelRun,
                          TypeOK
    <2>3. \A q \in Runs : runStatus'[q] = "SUCCEEDED" =>
              \/ runStatus[q] = "SUCCEEDED"
              \/ q = execRun[opExec[o]] /\ execStatus[opExec[o]] = "RUNNING"
                   /\ execStatus'[opExec[o]] = "SUCCEEDED"
        <3>1. CASE SucceedApproved(o)
            <4>1. execStatus[opExec[o]] = "RUNNING" /\ execRun[opExec[o]] \in Runs
                BY <3>1, <2>1 DEF SucceedApproved, OperatorStates, OperatorState,
                                  ExecutionRows, ExecutionRow
            <4>. QED BY <3>1, <2>1, <4>1 DEF SucceedApproved, TypeOK
        <3>2. CASE Expire(o) \/ Claim(o) \/ FailApproved(o) \/ RejectExecution(o) \/ CancelRun(o)
            BY <3>2 DEF Expire, Claim, FailApproved, RejectExecution, CancelRun, TypeOK
        <3>. QED BY <1>8, <3>1, <3>2
    <2>4. \A e \in Execs : execStatus'[e] # "NONE" /\ runStatus'[execRun[e]] = "SUCCEEDED" =>
              execStatus'[e] = "SUCCEEDED"
        BY <2>1, <2>2, <2>3 DEF ExecutionRows, ExecutionRow
    <2>. QED BY <2>1, <2>2, <2>4
<1>9. CASE UNCHANGED vars
    BY <1>9 DEF vars
<1>. QED BY <1>1, <1>2, <1>3, <1>4, <1>5, <1>6, <1>7, <1>8, <1>9
         DEF Next, ExecutorStep, OperatorStep

\* No step sends a call more often than its retries allow.
LEMMA SentStep == IInv /\ [Next]_vars => SentAtMost'
<1> SUFFICES ASSUME IInv, [Next]_vars, NEW e \in Execs
             PROVE  (sent[e] <= IF execTool[e] \in NeedsApproval \cup {NoTool} THEN 1
                                ELSE 1 + RetryCount(execTool[e]))'
    BY DEF SentAtMost
<1> USE LifecycleConstants DEF IInv
<1>0. /\ sent[e] <= IF execTool[e] \in NeedsApproval \cup {NoTool} THEN 1
                    ELSE 1 + RetryCount(execTool[e])
      /\ execTool[e] \in Tools => RetryCount(execTool[e]) \in Nat
      /\ execTool[e] \in Tools \cup {NoTool} /\ sent[e] \in Nat
    BY DEF SentAtMost, TypeOK, RetryCount
<1>1. ASSUME NEW r \in Runs, CreateExecution(r)
      PROVE  (sent[e] <= IF execTool[e] \in NeedsApproval \cup {NoTool} THEN 1
                         ELSE 1 + RetryCount(execTool[e]))'
    <2>1. execTool'[e] = execTool[e] \/ (sent[e] = 0 /\ execTool'[e] \in Tools)
        BY <1>1 DEF CreateExecution, TypeOK, ExecutionRows, ExecutionRow
    <2>2. UNCHANGED sent
        BY <1>1 DEF CreateExecution
    <2>3. execTool'[e] \in Tools => RetryCount(execTool'[e]) \in Nat
        BY DEF RetryCount
    <2>. QED BY <1>0, <2>1, <2>2, <2>3 DEF RetryCount
<1>2. ASSUME NEW r \in Runs, CallTool(r)
      PROVE  (sent[e] <= IF execTool[e] \in NeedsApproval \cup {NoTool} THEN 1
                         ELSE 1 + RetryCount(execTool[e]))'
    <2>1. PICK n \in 0 .. 1 : sent' = [sent EXCEPT ![current[r]] = @ + n]
        BY <1>2 DEF CallTool
    <2>2. /\ current[r] \in Execs /\ execTool[current[r]] \notin NeedsApproval
          /\ execTool[current[r]] \in Tools
          /\ sent[current[r]] <= attempt[r] /\ attempt[r] <= RetryCount(execTool[current[r]])
        BY <1>2 DEF CallTool, ExecutorStates, ExecutorState, InCall, ExecutionRows, ExecutionRow
    <2>3. UNCHANGED execTool /\ attempt[r] \in Nat
        BY <1>2 DEF CallTool, TypeOK
    <2>4. CASE e = current[r]
        BY <1>0, <2>1, <2>2, <2>3, <2>4 DEF TypeOK, RetryCount
    <2>5. CASE e # current[r]
        BY <1>0, <2>1, <2>3, <2>5 DEF TypeOK, RetryCount
    <2>. QED BY <2>4, <2>5
<1>3. ASSUME NEW o \in Operators, CallApproved(o)
      PROVE  (sent[e] <= IF execTool[e] \in NeedsApproval \cup {NoTool} THEN 1
                         ELSE 1 + RetryCount(execTool[e]))'
    <2>1. PICK n \in 0 .. 1 : sent' = [sent EXCEPT ![opExec[o]] = @ + n]
        BY <1>3 DEF CallApproved
    <2>2. opExec[o] \in Execs /\ execTool[opExec[o]] \in NeedsApproval /\ sent[opExec[o]] = 0
        BY <1>3 DEF CallApproved, OperatorStates, OperatorState
    <2>3. UNCHANGED execTool
        BY <1>3 DEF CallApproved
    <2>4. CASE e = opExec[o]
        BY <1>0, <2>1, <2>2, <2>3, <2>4 DEF TypeOK
    <2>5. CASE e # opExec[o]
        BY <1>0, <2>1, <2>3, <2>5 DEF TypeOK, RetryCount
    <2>. QED BY <2>4, <2>5
<1>4. CASE UNCHANGED <<sent, execTool>>
    BY <1>0, <1>4 DEF RetryCount
<1>5. ASSUME NEW r \in Runs,
             \/ Prepare(r) \/ ClientAbort(r) \/ Crash(r) \/ ModelReply(r) \/ ModelError(r)
             \/ RecordUsage(r) \/ BadCall(r) \/ Park(r) \/ NextRound(r) \/ Complete(r) \/ Fail(r)
             \/ SucceedCall(r) \/ FailCall(r)
      PROVE  UNCHANGED <<sent, execTool>>
    BY <1>5 DEF Prepare, ClientAbort, Crash, ModelReply, ModelError, RecordUsage, BadCall,
                Park, NextRound, Complete, Fail, SucceedCall, FailCall
<1>6. ASSUME NEW o \in Operators,
             \/ Approve(o) \/ Reject(o) \/ OperatorCrash(o) \/ Expire(o) \/ Claim(o)
             \/ SucceedApproved(o) \/ FailApproved(o) \/ RejectExecution(o) \/ CancelRun(o)
      PROVE  UNCHANGED <<sent, execTool>>
    BY <1>6 DEF Approve, Reject, OperatorCrash, Expire, Claim, SucceedApproved, FailApproved,
                RejectExecution, CancelRun
<1>7. ASSUME NEW f \in Execs, Age(f)  PROVE UNCHANGED <<sent, execTool>>
    BY <1>7 DEF Age
<1>8. UNCHANGED vars => UNCHANGED <<sent, execTool>>
    BY DEF vars
<1>. QED BY <1>1, <1>2, <1>3, <1>4, <1>5, <1>6, <1>7, <1>8 DEF Next, ExecutorStep, OperatorStep

\* The initial state satisfies the inductive invariant.
LEMMA InitIInv == Init => IInv
<1> SUFFICES ASSUME Init PROVE IInv
    OBVIOUS
<1>1. TypeOK
    BY TypeInit
<1>2. ExecutionRows /\ UnsettledExecutions /\ SentAtMost
    BY LifecycleConstants DEF Init, ExecutionRows, ExecutionRow, UnsettledExecutions,
                              SucceededRunIsSettled, SentAtMost
<1>3. ExecutorStates /\ OperatorStates
    BY LifecycleConstants DEF Init, ExecutorStates, ExecutorState, OperatorStates, OperatorState,
                              Working, InCall
<1>. QED BY <1>1, <1>2, <1>3 DEF IInv

\* The inductive invariant holds in every state of every instance of RunLifecycle.
THEOREM Inductive == Spec => []IInv
<1>1. IInv /\ [Next]_vars => IInv'
    BY TypeStep, RowsStep, ExecutorsStep, OperatorsStep, UnsettledStep, SentStep DEF IInv
<1>. QED BY InitIInv, <1>1, PTL DEF Spec

\* Every variable keeps its type, however many runs, executions and operators there are.
THEOREM Typing == Spec => []TypeOK
<1>1. IInv => TypeOK
    BY DEF IInv
<1>. QED BY Inductive, <1>1, PTL

\* No operator changes a run under its executor: approve(), reject() and the expiry in
\* approve() only move runs that chat() or stream() has let go of.
THEOREM ExecutorOwnership == Spec => []ExecutorOwnsRun
<1>1. IInv => ExecutorOwnsRun
    BY DEF IInv, ExecutorStates, ExecutorState, ExecutorOwnsRun
<1>. QED BY Inductive, <1>1, PTL

\* A tool with requiresApproval is called only for an operator on record, and never for
\* an execution that is waiting, rejected or expired.
THEOREM ApprovalComesFirst == Spec => []SentOnlyIfApproved
<1>1. IInv => SentOnlyIfApproved
    <2> SUFFICES ASSUME IInv, NEW e \in Execs, execTool[e] \in NeedsApproval, sent[e] > 0
                 PROVE  approvedBy[e] # NoUser /\ execStatus[e] \in {"RUNNING", "SUCCEEDED", "FAILED"}
        BY DEF SentOnlyIfApproved
    <2>. QED BY LifecycleConstants DEF IInv, TypeOK, ExecutionRows, ExecutionRow
<1>. QED BY Inductive, <1>1, PTL

\* Concurrent approvals make one call; only GET tools are called again, retryCount times
\* at most.
THEOREM CallsAreBounded == Spec => []SentAtMost
<1>1. IInv => SentAtMost
    BY DEF IInv
<1>. QED BY Inductive, <1>1, PTL

\* A run that SUCCEEDED left nothing open or failed behind.
THEOREM SuccessIsSettled == Spec => []SucceededRunIsSettled
<1>1. IInv => SucceededRunIsSettled
    BY DEF IInv, UnsettledExecutions
<1>. QED BY Inductive, <1>1, PTL

\* The executor stops at the first call that needs approval.
THEOREM OneAtATime == Spec => []OneOpenExecution
<1>1. IInv => OneOpenExecution
    BY LifecycleConstants DEF IInv, ExecutionRows, ExecutionRow, UnsettledExecutions,
                              OneOpenExecution, Open
<1>. QED BY Inductive, <1>1, PTL

-----------------------------------------------------------------------------
(* What a step may do to an execution, and the contract.                   *)

\* Every step leaves an execution that needs approval alone, or moves it along
\* pending, granted or denied; calls are made for granted ones only.
LEMMA RequestMoves ==
    ASSUME IInv, [Next]_vars, NEW e \in Execs
    PROVE  /\ approvedBy[e] # NoUser => approvedBy'[e] = approvedBy[e]
           /\ Contract!RequestStep(e)
<1> USE LifecycleConstants DEF IInv
<1> DEFINE Move == /\ Verdict(e)' = Verdict(e) \/ (Verdict(e) = "none" /\ Verdict(e)' = "pending")
                        \/ (Verdict(e) = "pending" /\ Verdict(e)' \in {"granted", "denied"})
                   /\ approvedBy[e] # NoUser => approvedBy'[e] = approvedBy[e]
                   /\ e \in Requests => e \in Requests'
           Calls == IF e \in Requests THEN sent[e] ELSE 0
           Same == Calls' = Calls
           Call == /\ Verdict(e)' = Verdict(e) /\ Verdict(e) = "granted"
                   /\ Calls = 0 /\ Calls' = 1
           Still == UNCHANGED <<execRow, sent>>
<1>1. Still => Move /\ Same
    BY DEF Verdict, Requests
<1>2. ASSUME NEW r \in Runs, CreateExecution(r)  PROVE Move /\ Same
    <2>1. CASE UNCHANGED <<execStatus, execTool>>
        BY <1>2, <2>1 DEF CreateExecution, Verdict, Requests
    <2>2. ASSUME NEW f \in Execs, NEW t \in Tools, execStatus[f] = "NONE",
                 execStatus' = [execStatus EXCEPT
                     ![f] = IF t \in NeedsApproval THEN "WAITING_APPROVAL" ELSE "RUNNING"],
                 execTool' = [execTool EXCEPT ![f] = t]
          PROVE  Move /\ Same
        <3>1. UNCHANGED <<approvedBy, sent>>
            BY <1>2 DEF CreateExecution
        <3>2. CASE e = f
            <4>1. execTool[e] = NoTool /\ sent[e] = 0 /\ execTool'[e] = t
                  /\ (t \in NeedsApproval => execStatus'[e] = "WAITING_APPROVAL")
                BY <2>2, <3>2 DEF TypeOK, ExecutionRows, ExecutionRow
            <4>2. e \notin Requests /\ approvedBy[e] = approvedBy'[e]
                BY <3>1, <4>1 DEF Requests
            <4>3. t \notin NeedsApproval => e \notin Requests'
                BY <4>1 DEF Requests
            <4>4. t \in NeedsApproval => Verdict(e)' = "pending"
                BY <4>1 DEF Verdict, Requests
            <4>. QED BY <3>1, <4>1, <4>2, <4>3, <4>4 DEF Verdict
        <3>3. CASE e # f
            BY <2>2, <3>1, <3>3 DEF TypeOK, Verdict, Requests
        <3>. QED BY <3>2, <3>3
    <2>. QED BY <1>2, <2>1, <2>2 DEF CreateExecution
<1>3. ASSUME NEW r \in Runs, CallTool(r)  PROVE Move /\ Same
    <2>1. PICK n \in 0 .. 1 : sent' = [sent EXCEPT ![current[r]] = @ + n]
        BY <1>3 DEF CallTool
    <2>2. execTool[current[r]] \notin NeedsApproval /\ UNCHANGED execRow
        BY <1>3 DEF CallTool, ExecutorStates, ExecutorState, InCall
    <2>. QED BY <2>1, <2>2 DEF TypeOK, Verdict, Requests
<1>4. ASSUME NEW r \in Runs, SucceedCall(r) \/ FailCall(r)  PROVE Move /\ Same
    <2>1. execTool[current[r]] \notin NeedsApproval /\ UNCHANGED <<execTool, approvedBy, sent>>
        BY <1>4 DEF SucceedCall, FailCall, ExecutorStates, ExecutorState, InCall
    <2>2. e # current[r] => execStatus'[e] = execStatus[e]
        BY <1>4 DEF SucceedCall, FailCall, TypeOK
    <2>. QED BY <2>1, <2>2 DEF Verdict, Requests
<1>5. ASSUME NEW f \in Execs, Age(f)  PROVE Move /\ Same
    BY <1>5 DEF Age, Verdict, Requests
<1>6. ASSUME NEW o \in Operators, Expire(o) \/ Claim(o) \/ RejectExecution(o)  PROVE Move /\ Same
    <2>1. UNCHANGED <<execTool, sent>>
        BY <1>6 DEF Expire, Claim, RejectExecution
    <2>2. \/ execStatus'[e] = execStatus[e] /\ approvedBy'[e] = approvedBy[e]
          \/ execStatus[e] = "WAITING_APPROVAL" /\ execStatus'[e] \in {"RUNNING", "CANCELLED"}
        BY <1>6 DEF Expire, Claim, RejectExecution, TypeOK
    <2>3. execStatus[e] = "WAITING_APPROVAL" => approvedBy[e] = NoUser /\ e \in Requests
        BY DEF ExecutionRows, ExecutionRow, Requests
    <2>. QED BY <2>1, <2>2, <2>3 DEF Verdict, Requests
<1>7. ASSUME NEW o \in Operators, CallApproved(o)  PROVE Move /\ (Same \/ Call)
    <2>1. PICK n \in 0 .. 1 : sent' = [sent EXCEPT ![opExec[o]] = @ + n]
        BY <1>7 DEF CallApproved
    <2>2. /\ opExec[o] \in Execs /\ execTool[opExec[o]] \in NeedsApproval
          /\ sent[opExec[o]] = 0 /\ execStatus[opExec[o]] = "RUNNING"
        BY <1>7 DEF CallApproved, OperatorStates, OperatorState
    <2>3. UNCHANGED execRow
        BY <1>7 DEF CallApproved
    <2>4. sent'[e] = sent[e] \/ (e = opExec[o] /\ sent'[e] = 1)
        BY <2>1, <2>2 DEF TypeOK
    <2>. QED BY <2>2, <2>3, <2>4 DEF Verdict, Requests
<1>8. ASSUME NEW o \in Operators, SucceedApproved(o) \/ FailApproved(o)  PROVE Move /\ Same
    <2>1. UNCHANGED <<execTool, approvedBy, sent>>
        BY <1>8 DEF SucceedApproved, FailApproved
    <2>2. \/ execStatus'[e] = execStatus[e]
          \/ execStatus[e] = "RUNNING" /\ execStatus'[e] \in {"SUCCEEDED", "FAILED"}
        BY <1>8 DEF SucceedApproved, FailApproved, TypeOK
    <2>. QED BY <2>1, <2>2 DEF Verdict, Requests
<1>9. ASSUME NEW r \in Runs,
             \/ Prepare(r) \/ ClientAbort(r) \/ Crash(r) \/ ModelReply(r) \/ ModelError(r)
             \/ RecordUsage(r) \/ BadCall(r) \/ Park(r) \/ NextRound(r) \/ Complete(r) \/ Fail(r)
      PROVE  Still
    BY <1>9 DEF Prepare, ClientAbort, Crash, ModelReply, ModelError, RecordUsage, BadCall,
                Park, NextRound, Complete, Fail
<1>10. ASSUME NEW o \in Operators, Approve(o) \/ Reject(o) \/ CancelRun(o) \/ OperatorCrash(o)
       PROVE  Still
    BY <1>10 DEF Approve, Reject, CancelRun, OperatorCrash
<1>11. UNCHANGED vars => Still
    BY DEF vars
<1> HIDE DEF Move, Same, Call, Still
<1>12. Move /\ (Same \/ Call)
    BY <1>1, <1>2, <1>3, <1>4, <1>5, <1>6, <1>7, <1>8, <1>9, <1>10, <1>11
       DEF Next, ExecutorStep, OperatorStep
<1>. QED BY <1>12 DEF Move, Same, Call, Calls, Contract!RequestStep, Contract!Ask, Contract!Rule,
                      Contract!Keep

\* The first operator to reach an execution decides it for good.
THEOREM FirstDecisionStands == Spec => DecisionStands
<1>1. IInv /\ [Next]_vars =>
        [\A e \in Execs : approvedBy[e] # NoUser => approvedBy'[e] = approvedBy[e]]_vars
    BY RequestMoves
<1>. QED BY Inductive, <1>1, PTL DEF Spec, DecisionStands

\* Every step moves a run along its statuses: a closed run is never reopened.
LEMMA RunMoves ==
    ASSUME IInv, [Next]_vars, NEW q \in Runs
    PROVE  Contract!RunStep(q)
<1> USE LifecycleConstants DEF IInv, Contract!RunStep, Contract!After, Contract!Terminal
<1>1. ASSUME NEW r \in Runs, Prepare(r) \/ Park(r) \/ Complete(r) \/ Fail(r)
      PROVE  Contract!RunStep(q)
    <2>1. CASE Prepare(r)
        BY <2>1 DEF Prepare, TypeOK, ExecutorStates, ExecutorState
    <2>2. CASE Park(r) \/ Complete(r)
        <3>1. runStatus[r] = "RUNNING"
            BY <2>2 DEF Park, Complete, ExecutorStates, ExecutorState, Working
        <3>. QED BY <2>2, <3>1 DEF Park, Complete, TypeOK
    <2>3. CASE Fail(r)
        BY <2>3 DEF Fail, TypeOK
    <2>. QED BY <1>1, <2>1, <2>2, <2>3
<1>2. ASSUME NEW o \in Operators, Expire(o) \/ SucceedApproved(o) \/ FailApproved(o) \/ CancelRun(o)
      PROVE  Contract!RunStep(q)
    BY <1>2 DEF Expire, SucceedApproved, FailApproved, CancelRun, TypeOK
<1>3. UNCHANGED runStatus => Contract!RunStep(q)
    OBVIOUS
<1>4. ASSUME NEW r \in Runs,
             \/ ClientAbort(r) \/ Crash(r) \/ ModelReply(r) \/ ModelError(r) \/ RecordUsage(r)
             \/ BadCall(r) \/ CreateExecution(r) \/ CallTool(r) \/ SucceedCall(r) \/ FailCall(r)
             \/ NextRound(r)
      PROVE  UNCHANGED runStatus
    BY <1>4 DEF ClientAbort, Crash, ModelReply, ModelError, RecordUsage, BadCall, CreateExecution,
                CallTool, SucceedCall, FailCall, NextRound
<1>5. ASSUME NEW o \in Operators,
             \/ Approve(o) \/ Claim(o) \/ CallApproved(o) \/ Reject(o) \/ RejectExecution(o)
             \/ OperatorCrash(o)
      PROVE  UNCHANGED runStatus
    BY <1>5 DEF Approve, Claim, CallApproved, Reject, RejectExecution, OperatorCrash
<1>6. ASSUME NEW e \in Execs, Age(e)  PROVE UNCHANGED runStatus
    BY <1>6 DEF Age
<1>7. UNCHANGED vars => UNCHANGED runStatus
    BY DEF vars
<1>. QED BY <1>1, <1>2, <1>3, <1>4, <1>5, <1>6, <1>7 DEF Next, ExecutorStep, OperatorStep

\* The executor and the operators together implement the contract.
THEOREM Implementation == Spec => ImplementsContract
<1>1. Init => Contract!Init
    BY LifecycleConstants DEF Init, Contract!Init, Verdict, Requests
<1>2. IInv /\ [Next]_vars =>
        [Contract!Next]_<<runStatus, [e \in Execs |-> Verdict(e)],
                          [e \in Execs |-> IF e \in Requests THEN sent[e] ELSE 0]>>
    BY RequestMoves, RunMoves DEF Contract!Next
<1>. QED BY Inductive, <1>1, <1>2, PTL DEF Spec, ImplementsContract, Contract!Spec

-----------------------------------------------------------------------------
(* Usage records and answers.                                              *)

\* Replies, usage rows and answers stay in step.
LEMMA AccountsStep == IInv /\ Accounts /\ [Next]_vars => Accounts'
<1> SUFFICES ASSUME IInv, Accounts, [Next]_vars, NEW q \in Runs  PROVE Account(q)'
    BY DEF Accounts
<1> Account(q) /\ ExecutorState(q)
    BY DEF Accounts, IInv, ExecutorStates
<1> USE LifecycleConstants DEF Account, Working
<1> DEFINE Ledger == UNCHANGED <<usageRows, answers, round>>
           Kept == \A e \in Execs :
                      execRun[e] = q /\ execTool[e] \in NeedsApproval /\ execStatus[e] = "SUCCEEDED" =>
                         UNCHANGED <<execRun[e], execTool[e], execStatus[e]>>
<1>1. Kept
    <2>1. ASSUME NEW e \in Execs, e \in Requests, execStatus[e] = "SUCCEEDED"
          PROVE  UNCHANGED <<execRun[e], execTool[e], execStatus[e]>>
        <3> USE DEF IInv
        <3>1. ASSUME NEW r \in Runs, CreateExecution(r)
              PROVE  UNCHANGED <<execRun[e], execTool[e], execStatus[e]>>
            BY <2>1, <3>1 DEF CreateExecution, TypeOK
        <3>2. ASSUME NEW r \in Runs, SucceedCall(r) \/ FailCall(r)
              PROVE  UNCHANGED <<execRun[e], execTool[e], execStatus[e]>>
            <4>1. execTool[current[r]] \notin NeedsApproval
                BY <3>2 DEF SucceedCall, FailCall, ExecutorStates, ExecutorState, InCall
            <4>. QED BY <2>1, <3>2, <4>1 DEF SucceedCall, FailCall, TypeOK, Requests
        <3>3. ASSUME NEW o \in Operators,
                     Expire(o) \/ Claim(o) \/ SucceedApproved(o) \/ FailApproved(o)
                     \/ RejectExecution(o)
              PROVE  UNCHANGED <<execRun[e], execTool[e], execStatus[e]>>
            BY <2>1, <3>3 DEF Expire, Claim, SucceedApproved, FailApproved, RejectExecution, TypeOK
        <3>4. ASSUME NEW r \in Runs,
                     \/ Prepare(r) \/ ClientAbort(r) \/ Crash(r) \/ ModelReply(r) \/ ModelError(r)
                     \/ RecordUsage(r) \/ BadCall(r) \/ Park(r) \/ CallTool(r) \/ NextRound(r)
                     \/ Complete(r) \/ Fail(r)
              PROVE  UNCHANGED execRow
            BY <3>4 DEF Prepare, ClientAbort, Crash, ModelReply, ModelError, RecordUsage, BadCall,
                        Park, CallTool, NextRound, Complete, Fail
        <3>5. ASSUME NEW o \in Operators,
                     Approve(o) \/ Reject(o) \/ CallApproved(o) \/ CancelRun(o) \/ OperatorCrash(o)
              PROVE  UNCHANGED execRow
            BY <3>5 DEF Approve, Reject, CallApproved, CancelRun, OperatorCrash
        <3>6. ASSUME NEW f \in Execs, Age(f)  PROVE UNCHANGED <<execRun, execTool, execStatus>>
            BY <3>6 DEF Age
        <3>7. UNCHANGED vars => UNCHANGED execRow
            BY DEF vars
        <3>. QED BY <3>1, <3>2, <3>3, <3>4, <3>5, <3>6, <3>7 DEF Next, ExecutorStep, OperatorStep
    <2>. QED BY <2>1 DEF Requests
<1>2. ASSUME NEW r \in Runs,
             \/ Prepare(r) \/ ClientAbort(r) \/ Crash(r) \/ ModelReply(r) \/ ModelError(r)
             \/ BadCall(r) \/ Park(r) \/ Fail(r) \/ CreateExecution(r) \/ CallTool(r)
             \/ SucceedCall(r) \/ FailCall(r)
      PROVE  Account(q)'
    <2>1. Ledger
        BY <1>2 DEF Prepare, ClientAbort, Crash, ModelReply, ModelError, BadCall, Park, Fail,
                    CreateExecution, CallTool, SucceedCall, FailCall
    <2>2. \/ UNCHANGED <<pc[q], runStatus[q]>>
          \/ pc[q] = "idle" /\ pc'[q] \in {"model", "done"} /\ runStatus'[q] \in {"NONE", "RUNNING"}
          \/ pc[q] = "model" /\ pc'[q] = "record" /\ runStatus'[q] = runStatus[q]
          \/ /\ pc[q] \in Working \ {"model", "record"}
             /\ pc'[q] \in (Working \ {"model", "record"}) \cup {"fail", "done"}
             /\ runStatus'[q] \in {runStatus[q], "WAITING_APPROVAL"}
          \/ pc'[q] \in {"fail", "done"} /\ runStatus'[q] = runStatus[q]
          \/ pc[q] = "fail" /\ pc'[q] = "done" /\ runStatus[q] = "RUNNING"
               /\ runStatus'[q] \in {"CANCELLED", "FAILED"}
        <3>1. CASE q = r
            <4>1. CASE Prepare(r)
                BY <3>1, <4>1 DEF Prepare, IInv, TypeOK, ExecutorState
            <4>2. CASE ClientAbort(r) \/ Crash(r) \/ ModelReply(r) \/ ModelError(r) \/ BadCall(r)
                BY <3>1, <4>2 DEF ClientAbort, Crash, ModelReply, ModelError, BadCall, IInv, TypeOK
            <4>3. CASE Park(r) \/ Fail(r)
                BY <3>1, <4>3 DEF Park, Fail, IInv, TypeOK
            <4>4. CASE CreateExecution(r) \/ SucceedCall(r) \/ FailCall(r)
                BY <3>1, <4>4 DEF CreateExecution, SucceedCall, FailCall, IInv, TypeOK
            <4>5. CASE CallTool(r)
                BY <3>1, <4>5 DEF CallTool, IInv, TypeOK
            <4>. QED BY <1>2, <4>1, <4>2, <4>3, <4>4, <4>5
        <3>2. CASE q # r
            <4>1. CASE Prepare(r) \/ ClientAbort(r) \/ Crash(r) \/ ModelReply(r) \/ ModelError(r)
                       \/ BadCall(r)
                BY <3>2, <4>1 DEF Prepare, ClientAbort, Crash, ModelReply, ModelError, BadCall,
                                  IInv, TypeOK
            <4>2. CASE Park(r) \/ Fail(r) \/ CreateExecution(r) \/ CallTool(r) \/ SucceedCall(r)
                       \/ FailCall(r)
                BY <3>2, <4>2 DEF Park, Fail, CreateExecution, CallTool, SucceedCall, FailCall,
                                  IInv, TypeOK
            <4>. QED BY <1>2, <4>1, <4>2
        <3>. QED BY <3>1, <3>2
    <2>. QED BY <1>1, <2>1, <2>2 DEF ExecutorState, InCall
<1>3. ASSUME NEW r \in Runs, RecordUsage(r)  PROVE Account(q)'
    BY <1>1, <1>3 DEF RecordUsage, IInv, TypeOK, ExecutorState
<1>4. ASSUME NEW r \in Runs, NextRound(r)  PROVE Account(q)'
    BY <1>1, <1>4 DEF NextRound, IInv, TypeOK, ExecutorState
<1>5. ASSUME NEW r \in Runs, Complete(r)  PROVE Account(q)'
    BY <1>1, <1>5 DEF Complete, IInv, TypeOK, ExecutorState
<1>6. ASSUME NEW o \in Operators,
             Expire(o) \/ FailApproved(o) \/ CancelRun(o)
      PROVE  Account(q)'
    BY <1>1, <1>6 DEF Expire, FailApproved, CancelRun, IInv, TypeOK
<1>7. ASSUME NEW o \in Operators, SucceedApproved(o)  PROVE Account(q)'
    <2>1. UNCHANGED <<usageRows, answers, round, pc, execRun, execTool>>
        BY <1>7 DEF SucceedApproved
    <2>2. /\ opExec[o] \in Execs /\ execTool[opExec[o]] \in NeedsApproval
          /\ execStatus[opExec[o]] = "RUNNING"
        BY <1>7 DEF SucceedApproved, IInv, OperatorStates, OperatorState
    <2>3. \/ runStatus'[q] = runStatus[q]
          \/ /\ runStatus[q] = "WAITING_APPROVAL" /\ runStatus'[q] = "SUCCEEDED"
             /\ q = execRun[opExec[o]] /\ execStatus'[opExec[o]] = "SUCCEEDED"
        BY <1>7, <2>2 DEF SucceedApproved, IInv, TypeOK
    <2>. QED BY <1>1, <2>1, <2>2, <2>3
<1>8. ASSUME NEW o \in Operators,
             \/ Approve(o) \/ Reject(o) \/ Claim(o) \/ CallApproved(o) \/ RejectExecution(o)
             \/ OperatorCrash(o)
      PROVE  Account(q)'
    <2>1. Ledger /\ UNCHANGED <<pc, runStatus>>
        BY <1>8 DEF Approve, Reject, Claim, CallApproved, RejectExecution, OperatorCrash
    <2>. QED BY <1>1, <2>1
<1>9. ASSUME NEW f \in Execs, Age(f)  PROVE Account(q)'
    BY <1>1, <1>9 DEF Age
<1>10. CASE UNCHANGED vars
    BY <1>10 DEF vars
<1>. QED BY <1>2, <1>3, <1>4, <1>5, <1>6, <1>7, <1>8, <1>9, <1>10 DEF Next, ExecutorStep, OperatorStep

\* Replies of the model, usage records and the answer of a run agree at each of its stages.
THEOREM Accounting == Spec => []Accounts
<1>1. Init => Accounts
    <2> SUFFICES ASSUME Init, NEW r \in Runs  PROVE Account(r)
        BY DEF Accounts
    <2>1. pc[r] = "idle" /\ runStatus[r] = "NONE" /\ usageRows[r] = 0 /\ round[r] = 0
          /\ answers[r] = 0
        BY DEF Init
    <2>. QED BY <2>1 DEF Account, Working
<1>. QED BY <1>1, AccountsStep, Inductive, PTL DEF Spec

\* An assistant message is written with SUCCEEDED or not at all.
THEOREM AnswersMatch == Spec => []AnswerMatchesOutcome
<1>1. Accounts /\ IInv => AnswerMatchesOutcome
    <2> SUFFICES ASSUME Accounts, IInv, NEW r \in Runs
                 PROVE  /\ answers[r] <= 1
                        /\ answers[r] = 1 => runStatus[r] = "SUCCEEDED"
                        /\ runStatus[r] = "SUCCEEDED" /\ answers[r] = 0 =>
                              \E e \in Execs : execRun[e] = r /\ execTool[e] \in NeedsApproval
                                                /\ execStatus[e] = "SUCCEEDED"
        BY DEF AnswerMatchesOutcome
    <2>1. Account(r)
        BY DEF Accounts
    <2>. QED BY <2>1 DEF Account
<1>. QED BY <1>1, Accounting, Inductive, PTL

\* Every reply that is acted on has its UsageRecord.
THEOREM BilledFirst == Spec => []ActsOnBilledReplies
<1>1. Accounts => ActsOnBilledReplies
    BY DEF Accounts, Account, ActsOnBilledReplies
<1>. QED BY <1>1, Accounting, PTL
=============================================================================
