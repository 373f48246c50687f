--------------------------- MODULE ProviderCalls ---------------------------
(***************************************************************************)
(* The model calls of one run (modules/agents/agent-execution.service.ts): *)
(* rounds, each of them a call that is retried until its deadline, over    *)
(* one of the four adapters (ProviderAdapters), and the vendor behind it,  *)
(* which answers, streams, breaks off or says nothing.                     *)
(*                                                                         *)
(* Time is counted from the start of the call, in steps of 250 ms, the     *)
(* first delay of the retry loop.  A timer that is due fires before time   *)
(* passes.                                                                 *)
(***************************************************************************)
EXTENDS ProviderAdapters, FiniteSets

CONSTANTS
    RetryCount,   \* version.retryCount
    Timeout,      \* version.timeoutMs
    MinTimeout,   \* the 1 000 ms no adapter goes below
    Rounds,       \* rounds of one run, 4 in the code
    MaxEvents     \* bound on the events of one reply

ASSUME CallAssumption ==
    /\ {RetryCount, MaxEvents} \subseteq Nat
    /\ {Timeout, MinTimeout, Rounds} \subseteq Nat \ {0}

VARIABLES
    vendor, streaming, request,      \* fixed for the run
    round, history,                  \* rounds begun, arguments already answered
    phase, cause,                    \* where the call is, its last failure
    attempt, clock, limit, aborted,  \* the retry loop, its timers, the client's signal
    sent, pending,                   \* the vendor's reply, calls the adapter holds back
    emitted, delivered,              \* chunks of the attempt, of the call, handed on
    usage                            \* attempt whose usage will be recorded, 0 for none

fixed == <<vendor, streaming, request>>
loop == <<attempt, clock, limit>>
reply == <<sent, pending>>
handed == <<emitted, delivered, usage>>
vars == <<fixed, round, history, phase, cause, loop, aborted, reply, handed>>

Settled == {"completed", "waiting", "failed", "cancelled"}
Phases == {"loop", "open", "reading", "ended", "delay", "round"} \cup Settled
CallIds == 1 .. 2
NoReply == [tokens |-> 0, calls |-> <<>>, usage |-> FALSE, events |-> 0]
Nothing == [tokens |-> 0, calls |-> <<>>, from |-> {}]

Least(a, b) == IF a < b THEN a ELSE b
Most(a, b) == IF a > b THEN a ELSE b
Left == IF clock < Timeout THEN Timeout - clock ELSE 0

Init ==
    /\ vendor \in Vendors
    /\ streaming \in BOOLEAN
    /\ request \in {r \in ChatRequests : Admitted(vendor, r)}
    /\ round = 1 /\ history = {}
    /\ phase = "loop" /\ cause = "none"
    /\ attempt = 0 /\ clock = 0 /\ limit = 0 /\ aborted = FALSE
    /\ sent = NoReply /\ pending = <<>>
    /\ emitted = FALSE /\ delivered = Nothing /\ usage = 0

----------------------------------------------------------------------------
(* How a call fails: the catch of stream() tells a disconnected client     *)
(* (CANCELLED) from the other failures.                                    *)
GiveUp(f) ==
    /\ phase' = IF aborted THEN "cancelled" ELSE "failed"
    /\ cause' = f
    /\ UNCHANGED <<fixed, round, history, loop, aborted, reply, handed>>

(***************************************************************************)
(* The catch of chatWithRetry and of streamWithRetry: no further attempt   *)
(* when a chunk was handed on, when the failure is not retryable, after    *)
(* the last attempt, or when the client is gone; otherwise a delay that    *)
(* doubles, and ends with the deadline.                                    *)
(***************************************************************************)
MayRetry(f) ==
    /\ ~emitted
    /\ Retryable(vendor, f)
    /\ attempt < RetryCount
    /\ ~aborted

Raise(f) ==
    IF MayRetry(f)
    THEN /\ phase' = "delay" /\ cause' = f
         /\ limit' = clock + Least(2 ^ attempt, Left)
         /\ sent' = NoReply /\ pending' = <<>>
         /\ UNCHANGED <<fixed, round, history, attempt, clock, aborted, handed>>
    ELSE GiveUp(f)

(* Back from the delay.                                                    *)
Resume ==
    /\ phase = "delay" /\ clock = limit
    /\ phase' = "loop" /\ attempt' = attempt + 1 /\ emitted' = FALSE
    /\ UNCHANGED <<fixed, round, history, cause, clock, limit, aborted, reply,
                   delivered, usage>>

(* The loop ends without an attempt when no time is left.                  *)
OutOfTime ==
    /\ phase = "loop" /\ Left = 0
    /\ GiveUp(IF cause = "none" THEN "timeout" ELSE cause)

(***************************************************************************)
(* An attempt: request() builds the request, the adapter checks the        *)
(* destination and its own rules, and asks the vendor.  streamWithRetry    *)
(* cuts the attempt at the deadline, chatWithRetry leaves that to the      *)
(* adapter, which waits a second at least.  A client that left during the  *)
(* delay is noticed by the attempt, not before it.                         *)
(***************************************************************************)
Begin ==
    /\ phase = "loop" /\ Left > 0
    /\ \/ /\ AcceptsRequest(vendor, request, history)
          /\ phase' = "open"
          /\ limit' = IF streaming THEN Timeout ELSE clock + Most(MinTimeout, Left)
          /\ UNCHANGED <<fixed, round, history, cause, attempt, clock, aborted, reply, handed>>
       \/ AcceptsRequest(vendor, request, history) /\ Raise("destination")
       \/ ~AcceptsRequest(vendor, request, history) /\ Raise("request")

(* The vendor refuses, or the connection to it fails.                      *)
Refuse ==
    /\ phase = "open"
    /\ \E f \in Refusals \cup (IF streaming THEN {} ELSE BadBodies) : Raise(f)

(* Mutant of TimesOut: the signal only guards the wait for the headers.    *)
TimesOutBeforeHeaders ==
    phase = "open" /\ clock = limit /\ Raise("timeout")

(* The signal of the attempt fires, at its limit or with the client's.     *)
TimesOut ==
    /\ phase \in {"open", "reading"} /\ clock = limit
    /\ Raise(Signal(vendor, phase = "open"))

Aborts ==
    /\ phase \in {"open", "reading"} /\ aborted
    /\ Raise("abort")

(* The client of a stream disconnects.                                     *)
ClientLeaves ==
    /\ streaming /\ ~aborted /\ phase \notin Settled
    /\ aborted' = TRUE
    /\ UNCHANGED <<fixed, round, history, phase, cause, loop, reply, handed>>

Tick ==
    /\ phase \in {"open", "reading", "delay"} /\ clock < limit
    /\ clock' = clock + 1
    /\ UNCHANGED <<fixed, round, history, phase, cause, attempt, limit, aborted, reply, handed>>

----------------------------------------------------------------------------
(* A reply in one piece.                                                   *)

Hand(tokens, calls) ==
    /\ emitted' = TRUE
    /\ delivered' = [tokens |-> delivered.tokens + tokens,
                     calls  |-> delivered.calls \o calls,
                     from   |-> delivered.from \cup {attempt + 1}]

FinalCall(c) == [c EXCEPT !.args = Final(vendor, @)]
FinalCalls(cs) == [k \in DOMAIN cs |-> FinalCall(cs[k])]

WholeArguments == IF vendor = "compatible" THEN Arguments ELSE Arguments \ {"broken"}

Answer ==
    /\ phase = "open" /\ ~streaming
    /\ \E tokens \in 0 .. 1, n \in 0 .. (IF request.tools THEN Cardinality(CallIds) ELSE 0) :
         \E args \in [1 .. n -> WholeArguments] :
            LET calls == [k \in 1 .. n |-> [id |-> k, args |-> args[k]]]
            IN /\ sent' = [tokens |-> tokens, calls |-> calls, usage |-> TRUE, events |-> 0]
               /\ Hand(tokens, WholeReply(vendor, calls))
    /\ phase' = "round" /\ usage' = attempt + 1
    /\ UNCHANGED <<fixed, round, history, cause, loop, aborted, pending>>

----------------------------------------------------------------------------
(* A reply as a stream: the vendor sends an event and the adapter's        *)
(* streamChat handles it.                                                  *)

Opens == /\ phase = "open" /\ streaming
         /\ phase' = "reading"
         /\ UNCHANGED <<fixed, round, history, cause, loop, aborted, reply, handed>>

Receives == phase = "reading" /\ sent.events < MaxEvents

Took == UNCHANGED <<fixed, round, history, phase, cause, loop, aborted>>

(* A piece of text is handed on at once, by all four.                      *)
Token ==
    /\ sent' = [sent EXCEPT !.tokens = @ + 1, !.events = @ + 1]
    /\ Hand(1, <<>>)
    /\ UNCHANGED <<pending, usage>>

(* A call begins; its arguments follow, or are there as a.                 *)
CallBegins(a) ==
    LET c == [id |-> Len(sent.calls) + 1, args |-> a]
    IN /\ request.tools /\ c.id \in CallIds
       /\ sent' = [sent EXCEPT !.calls = Append(@, c), !.events = @ + 1]
       /\ pending' = Append(pending, c)
       /\ UNCHANGED handed

(* More of the arguments of the last call, which now read as a.            *)
CallGrows(a) ==
    /\ pending # <<>>
    /\ sent' = [sent EXCEPT !.calls[Len(sent.calls)].args = a, !.events = @ + 1]
    /\ pending' = [pending EXCEPT ![Len(pending)].args = a]
    /\ UNCHANGED handed

(* Mutant of CallCloses: the call stays among those held back.             *)
CallClosesOnly ==
    /\ pending # <<>> /\ FinalCall(Head(pending)).args # "none"
    /\ sent' = [sent EXCEPT !.events = @ + 1]
    /\ Hand(0, <<FinalCall(Head(pending))>>)
    /\ UNCHANGED <<pending, usage>>

(* The block of the call is closed: Anthropic and Bedrock hand it on.      *)
CallCloses ==
    /\ pending # <<>> /\ FinalCall(Head(pending)).args # "none"
    /\ sent' = [sent EXCEPT !.events = @ + 1]
    /\ Hand(0, <<FinalCall(Head(pending))>>)
    /\ pending' = Tail(pending)
    /\ UNCHANGED usage

(* A report of the usage, handed on at once.                               *)
UsageReport ==
    /\ sent' = [sent EXCEPT !.usage = TRUE, !.events = @ + 1]
    /\ usage' = attempt + 1
    /\ UNCHANGED <<pending, emitted, delivered>>

CompatibleEvent ==
    /\ vendor = "compatible" /\ Receives /\ Took
    /\ \/ Token
       \/ CallBegins("empty")
       \/ \E a \in Arguments \ {"empty"} : CallGrows(a)
       \/ UsageReport

(* Usage is merged, and reported at the end.                               *)
AnthropicEvent ==
    /\ vendor = "anthropic" /\ Receives /\ Took
    /\ \/ Token
       \/ pending = <<>> /\ CallBegins("empty")
       \/ \E a \in Arguments \ {"empty"} : CallGrows(a)
       \/ CallCloses
       \/ /\ sent' = [sent EXCEPT !.usage = TRUE, !.events = @ + 1]
          /\ UNCHANGED <<pending, handed>>

(* A call comes whole, or in parts of the same id that are merged.         *)
GeminiEvent ==
    /\ vendor = "gemini" /\ Receives /\ Took
    /\ \/ Token
       \/ \E a \in Arguments : CallBegins(GeminiFinal(a))
       \/ \E a \in Arguments :
            /\ pending # <<>>
            /\ CallGrows(GeminiMerge(pending[Len(pending)].args, GeminiFinal(a)))
       \/ UsageReport

BedrockEvent ==
    /\ vendor = "bedrock" /\ Receives /\ Took
    /\ \/ Token
       \/ pending = <<>> /\ CallBegins("empty")
       \/ \E a \in Arguments \ {"empty"} : CallGrows(a)
       \/ CallCloses
       \/ UsageReport

(* finalizeStreamToolCall refuses the arguments of the call that closes.   *)
CallRefused ==
    /\ Receives /\ vendor = "anthropic"
    /\ pending # <<>> /\ FinalCall(Head(pending)).args = "none"
    /\ Raise("unusable")

Interrupt ==
    /\ phase = "reading"
    /\ \E f \in Interruptions(vendor) : Raise(f)

(***************************************************************************)
(* The iteration ends, because the vendor ended its reply, or cut it       *)
(* short: the calls still held back are handed on, finished or not.        *)
(* External: the Anthropic client also ends an aborted iteration this way. *)
(***************************************************************************)
StreamEnds ==
    /\ phase = "reading"
    /\ \A k \in DOMAIN pending : FinalCall(pending[k]).args # "none"
    /\ phase' = "ended" /\ pending' = <<>>
    /\ IF pending = <<>> THEN UNCHANGED <<emitted, delivered>>
                         ELSE Hand(0, FinalCalls(pending))
    /\ UNCHANGED <<fixed, round, history, cause, loop, aborted, sent, usage>>

HeldCallRefused ==
    /\ phase = "reading"
    /\ \E k \in DOMAIN pending : FinalCall(pending[k]).args = "none"
    /\ Raise("unusable")

(* Mutant of Done: the merged usage is not reported.                       *)
DoneUnreported ==
    /\ phase = "ended"
    /\ IF vendor = "bedrock" /\ ~sent.usage
       THEN Raise("protocol")
       ELSE /\ phase' = "round"
            /\ UNCHANGED <<fixed, round, history, cause, loop, aborted, reply, handed>>

(* The "done" chunk.  Anthropic reports the usage before it; Bedrock asks  *)
(* that there was a report.                                                *)
Done ==
    /\ phase = "ended"
    /\ IF vendor = "bedrock" /\ ~sent.usage
       THEN Raise("protocol")
       ELSE /\ phase' = "round"
            /\ usage' = IF vendor = "anthropic" /\ sent.usage THEN attempt + 1 ELSE usage
            /\ UNCHANGED <<fixed, round, history, cause, loop, aborted, reply,
                           emitted, delivered>>

----------------------------------------------------------------------------
(***************************************************************************)
(* The rest of the round (chat, stream, executeToolCalls): the usage is    *)
(* recorded, the answer completes the run, or its calls are executed in    *)
(* order.  What becomes of the run there is the subject of RunLifecycle;   *)
(* here only the way to the next request matters.                          *)
(***************************************************************************)
(* Mutant of ExecutorParses: any JSON will do.                             *)
ExecutorParsesJson(a) == a # "broken"

ExecutorParses(a) == a \in {"object", "empty"}

Answered == {delivered.calls[k].args : k \in DOMAIN delivered.calls}

OverBudget == phase = "round" /\ GiveUp("budget")

Complete ==
    /\ phase = "round" /\ delivered.calls = <<>>
    /\ phase' = "completed"
    /\ UNCHANGED <<fixed, round, history, cause, loop, aborted, reply, handed>>

(* The first call that needs approval parks the run.                       *)
Parks ==
    /\ phase = "round" /\ delivered.calls # <<>>
    /\ ExecutorParses(delivered.calls[1].args)
    /\ phase' = "waiting"
    /\ UNCHANGED <<fixed, round, history, cause, loop, aborted, reply, handed>>

(* A call that does not parse, an unknown tool, a tool that fails.         *)
CallFails == phase = "round" /\ delivered.calls # <<>> /\ GiveUp("tool")

NextRound ==
    /\ phase = "round" /\ delivered.calls # <<>>
    /\ \A a \in Answered : ExecutorParses(a)
    /\ IF round < Rounds
       THEN /\ round' = round + 1 /\ history' = history \cup Answered
            /\ phase' = "loop" /\ cause' = "none"
            /\ attempt' = 0 /\ clock' = 0 /\ limit' = 0
            /\ sent' = NoReply /\ pending' = <<>>
            /\ emitted' = FALSE /\ delivered' = Nothing /\ usage' = 0
            /\ UNCHANGED <<fixed, aborted>>
       ELSE GiveUp("rounds")

----------------------------------------------------------------------------
Executor == Resume \/ OutOfTime \/ Begin \/ TimesOut \/ Aborts \/ Tick \/ Done
            \/ OverBudget \/ Complete \/ Parks \/ CallFails \/ NextRound

VendorSteps == \/ Refuse \/ Answer \/ Opens
               \/ CompatibleEvent \/ AnthropicEvent \/ GeminiEvent \/ BedrockEvent
               \/ CallRefused \/ Interrupt \/ StreamEnds \/ HeldCallRefused

Finished == phase \in Settled /\ UNCHANGED vars

Next == Executor \/ VendorSteps \/ ClientLeaves \/ Finished

Spec == Init /\ [][Next]_vars

(***************************************************************************)
(* Timers fire and the process goes on; nothing is asked of the vendor or  *)
(* of the client.                                                          *)
(***************************************************************************)
FairSpec == Spec /\ WF_vars(Executor)

----------------------------------------------------------------------------
Causes == Failures \cup {"budget", "tool", "rounds"}
ToolCall == [id : CallIds, args : Arguments]

\* The types but those of the clock.
AnswerTypeOK ==
    /\ vendor \in Vendors /\ streaming \in BOOLEAN /\ request \in ChatRequests
    /\ round \in 1 .. Rounds /\ history \subseteq Arguments
    /\ phase \in Phases /\ cause \in Causes
    /\ attempt \in 0 .. RetryCount /\ aborted \in BOOLEAN
    /\ sent \in [tokens : Nat, calls : Seq(ToolCall), usage : BOOLEAN, events : Nat]
    /\ pending \in Seq(ToolCall)
    /\ emitted \in BOOLEAN
    /\ delivered \in [tokens : Nat, calls : Seq(ToolCall), from : SUBSET (1 .. RetryCount + 1)]
    /\ usage \in 0 .. RetryCount + 1
TypeOK == AnswerTypeOK /\ clock \in Nat /\ limit \in Nat

(***************************************************************************)
(* What the reader of one answer sees comes from one attempt: a retry      *)
(* never appends to text or tool calls another attempt handed on, whether  *)
(* the call ends well or not (streamWithRetry's "emitted").  And a round   *)
(* that comes to its end has handed on what the vendor sent in its last    *)
(* attempt: every piece of text, and every tool call once and in order,    *)
(* those of which the adapter waits for the end included.                  *)
(***************************************************************************)
IdsOf(calls) == [k \in DOMAIN calls |-> calls[k].id]

OneWholeAnswer ==
    /\ Cardinality(delivered.from) <= 1
    /\ phase \in {"round", "completed", "waiting"} =>
           /\ delivered.tokens = sent.tokens
           /\ IdsOf(delivered.calls) = IdsOf(sent.calls)
           /\ delivered.from \subseteq {attempt + 1}

(***************************************************************************)
(* The usage recorded for a round is that of the attempt that answered, if *)
(* the vendor reported it there, and never one that the call has not had.  *)
(* (A reply without a report is billed the one of an attempt that failed   *)
(* after reporting and before any text, because usage is kept over a       *)
(* retry.)                                                                 *)
(***************************************************************************)
UsageOfTheAnswer ==
    phase = "round" => /\ sent.usage => usage = attempt + 1
                       /\ usage <= attempt + 1

(***************************************************************************)
(* A call does not outlast timeoutMs: its attempts and delays share one    *)
(* deadline.  Without a stream the last attempt may pass it by less than   *)
(* the second the adapters wait at least.                                  *)
(***************************************************************************)
WithinTime ==
    clock <= IF streaming THEN Timeout ELSE Timeout + MinTimeout - 1

(***************************************************************************)
(* The calls one round was answered with never make the adapter refuse the *)
(* request of the next: what an adapter lets through and the executor      *)
(* parses can be sent back to the same vendor (mapMessages,                *)
(* convertMessages, toGeminiContents).                                     *)
(***************************************************************************)
NextRoundAccepted == round > 1 => cause # "request"

(***************************************************************************)
(* What the three rest on.  Nothing is handed on before the first chunk,   *)
(* and only of this attempt; what was handed on and what is held back make *)
(* up what the vendor sent, the calls in their order.                      *)
(***************************************************************************)
Numbered(calls, n) == \A k \in DOMAIN calls : calls[k].id = n + k

AnswerSound ==
    /\ ~emitted => delivered = Nothing
    /\ delivered.from \subseteq {attempt + 1}
    /\ phase \in {"loop", "open", "delay"} => ~emitted /\ sent = NoReply /\ pending = <<>>
    /\ phase \in {"reading", "ended", "round", "completed", "waiting"} =>
           /\ delivered.tokens = sent.tokens
           /\ Len(sent.calls) = Len(delivered.calls) + Len(pending)
           /\ Numbered(sent.calls, 0) /\ Numbered(delivered.calls, 0)
           /\ Numbered(pending, Len(delivered.calls))
    /\ phase \in {"ended", "round", "completed", "waiting"} => pending = <<>>
    /\ phase = "delay" => attempt < RetryCount

\* All but Anthropic's adapter report the usage when it comes.
UsageSound ==
    /\ usage <= attempt + 1
    /\ phase \in {"reading", "ended"} /\ vendor # "anthropic" /\ sent.usage => usage = attempt + 1

\* What was once accepted stays so: the calls that were executed read as an object.
RequestSound ==
    /\ history \subseteq {"object", "empty"}
    /\ \/ phase \notin {"loop", "failed", "cancelled"} \/ attempt > 0 \/ round > 1
       => AcceptsRequest(vendor, request, history)

IInv ==
    /\ AnswerTypeOK
    /\ AnswerSound /\ OneWholeAnswer
    /\ UsageSound /\ UsageOfTheAnswer
    /\ RequestSound /\ NextRoundAccepted

(***************************************************************************)
(* Whatever the vendor does, also nothing at all, the run comes out of its *)
(* model calls.                                                            *)
(***************************************************************************)
RunSettles == <>(phase \in Settled)
=============================================================================
