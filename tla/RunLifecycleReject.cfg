SPECIFICATION FairSpec
CONSTANTS
    Runs = {r1}
    Streams = {r1}
    Execs = {e1, e2}
    Operators = {o1, o2}
    Tools <- MCTools
    NeedsApproval <- MCNeedsApproval
    Idempotent <- MCIdempotent
    Retries <- MCRetries
    MaxRounds = 2
    MaxCalls = 1
    Faulty = FALSE
    NoRun = NoRun
    NoExec = NoExec
    NoTool = NoTool
    NoUser = NoUser
    o1 = o1
    o2 = o2
    e1 = e1
    e2 = e2
CHECK_DEADLOCK FALSE
PROPERTY
    RejectedRunIsCancelled
