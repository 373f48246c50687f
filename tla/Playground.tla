---------------------------- MODULE Playground ----------------------------
(***************************************************************************)
(* The console's playground (app/(console)/agents/[id]/playground/page.tsx *)
(* over streamAgentChat in lib/api.ts): messages are sent one at a time,   *)
(* their answer arrives as events of a stream that the user may stop, and  *)
(* clearing starts a new conversation.  The panels beside them show the    *)
(* run, its usage and a trace of its events.  Texts and figures are left   *)
(* out; the server names its conversations 1, 2, ...                       *)
(***************************************************************************)
EXTENDS Naturals, Sequences

CONSTANTS MaxTurns,    \* bounds the messages sent on one page
          Nobody       \* no conversation, no stream

Streams(named) == [turn : Nat, in : named, step : {"fetch", "again", "refresh", "meta", "events",
                                                   "ended", "failed"}, aborted : BOOLEAN]

ASSUME PlaygroundConstants ==
    MaxTurns \in Nat /\ Nobody \notin Nat /\ Nobody \notin Streams(Nat \cup {Nobody})

VARIABLES
    open,         \* whether the playground is shown
    messages,     \* the answers shown: the turn of each, whether pending, whether it has text
    streaming, failure,
    conversation, \* conversationId
    run, usage,   \* the turn of the run shown (runId), whether any usage is
    trace,        \* the kinds of entries in the trace
    stream,       \* what send() awaits: its turn, conversation, step and whether aborted
    made,         \* conversations the server has made
    turns,        \* messages sent
    cleared       \* not in the code: nothing was sent since the last clear()

panels == <<run, usage, trace>>
playVars == <<open, messages, streaming, failure, conversation, panels, stream, made, turns, cleared>>

\* Of an event of the run, and of a send() that was aborted or failed.
Entries == {"event", "cancelled", "failed"}

Emptied(shown) ==
    /\ run' = Nobody /\ usage' = FALSE /\ trace' = {}
    /\ open' = shown /\ messages' = <<>> /\ streaming' = FALSE /\ failure' = FALSE
    /\ conversation' = Nobody /\ stream' = Nobody /\ made' = 0 /\ turns' = 0 /\ cleared' = FALSE
NoPlayground ==
    /\ run = Nobody /\ usage = FALSE /\ trace = {}
    /\ open = FALSE /\ messages = <<>> /\ streaming = FALSE /\ failure = FALSE
    /\ conversation = Nobody /\ stream = Nobody /\ made = 0 /\ turns = 0 /\ cleared = FALSE
---------------------------------------------------------------------------
(* updateAssistant: the answer of this turn, if it is still shown.         *)
UpdateAssistant(turn, text, pending) ==
    [n \in DOMAIN messages |->
        IF messages[n].turn = turn
        THEN [messages[n] EXCEPT !.text = @ \/ text, !.pending = pending] ELSE messages[n]]

Send ==
    /\ open /\ ~streaming /\ turns < MaxTurns
    /\ turns' = turns + 1
    /\ messages' = Append(messages, [turn |-> turns + 1, pending |-> TRUE, text |-> FALSE])
    /\ failure' = FALSE /\ streaming' = TRUE /\ cleared' = FALSE
    /\ usage' = FALSE /\ trace' = {}
    /\ stream' = [turn |-> turns + 1, in |-> conversation, step |-> "fetch", aborted |-> FALSE]
    /\ UNCHANGED <<open, conversation, run, made>>

(* The answer to fetch(): a stream, a refused token that is renewed once,   *)
(* or an error.                                                             *)
Fetched ==
    /\ stream # Nobody /\ stream.step \in {"fetch", "again"} /\ ~stream.aborted
    /\ \/ /\ stream' = [stream EXCEPT !.step = "meta", !.in = IF @ = Nobody THEN made + 1 ELSE @]
          /\ made' = IF stream.in = Nobody THEN made + 1 ELSE made
       \/ stream.step = "fetch" /\ stream' = [stream EXCEPT !.step = "refresh"] /\ UNCHANGED made
       \/ /\ stream' = [stream EXCEPT !.step = "failed"]   \* perhaps after it was made
          /\ made' \in {made, IF stream.in = Nobody THEN made + 1 ELSE made}
    /\ UNCHANGED <<open, messages, streaming, failure, conversation, panels, turns, cleared>>
Refreshed ==
    /\ stream # Nobody /\ stream.step = "refresh"
    /\ \E s \in {"again", "failed"} : stream' = [stream EXCEPT !.step = s]
    /\ UNCHANGED <<open, messages, streaming, failure, conversation, panels, made, turns, cleared>>

(* One event of the stream: meta first, tokens, tool calls and usage, then  *)
(* done or error, or the end without either.  handleEvent throws on error.  *)
HandleEvent ==
    /\ stream # Nobody /\ stream.step \in {"meta", "events"} /\ ~stream.aborted
    /\ \/ /\ stream.step = "meta" /\ conversation' = stream.in /\ run' = stream.turn
          /\ trace' = trace \cup {"event"}
          /\ stream' = [stream EXCEPT !.step = "events"]
          /\ UNCHANGED <<messages, usage>>
       \/ /\ stream.step = "events"     \* token
          /\ messages' = UpdateAssistant(stream.turn, TRUE, TRUE)
          /\ UNCHANGED <<conversation, panels, stream>>
       \/ /\ stream.step = "events"     \* tool_call, usage or done
          /\ trace' = trace \cup {"event"}
          /\ \/ UNCHANGED <<messages, usage>>
             \/ usage' = TRUE /\ messages' \in {messages, UpdateAssistant(stream.turn, FALSE, FALSE)}
          /\ UNCHANGED <<conversation, run, stream>>
       \/ /\ \E s \in {"ended", "failed"} : stream' = [stream EXCEPT !.step = s]
          /\ UNCHANGED <<messages, conversation, panels>>
    /\ UNCHANGED <<open, streaming, failure, made, turns, cleared>>

(* The end of send(): its await ends well, with an error, or rejects        *)
(* because it was aborted, a token being renewed first; then its finally.   *)
(* What rejected leaves an entry in the trace, also in one cleared by now.  *)
Ends ==
    /\ stream # Nobody
    /\ stream.step \in {"ended", "failed"} \/ (stream.aborted /\ stream.step # "refresh")
Settled ==
    /\ Ends
    /\ messages' = UpdateAssistant(stream.turn, FALSE, FALSE)
    /\ failure' = (stream.step = "failed" /\ ~stream.aborted)
    /\ trace' = trace \cup CASE stream.step = "ended" -> {}
                             [] stream.step # "ended" /\ stream.aborted -> {"cancelled"}
                             [] stream.step # "ended" /\ ~stream.aborted -> {"failed"}
    /\ streaming' = FALSE /\ stream' = Nobody
    /\ UNCHANGED <<open, conversation, run, usage, made, turns, cleared>>

Abort(s) == IF s = Nobody THEN s ELSE [s EXCEPT !.aborted = TRUE]
Stop ==
    /\ streaming /\ stream' = Abort(stream)
    /\ UNCHANGED <<open, messages, streaming, failure, conversation, panels, made, turns, cleared>>
Blanked ==
    /\ messages' = <<>> /\ conversation' = Nobody /\ failure' = FALSE
    /\ run' = Nobody /\ usage' = FALSE /\ trace' = {}
    /\ cleared' = TRUE
\* Mutant of Clear: the stream goes on.
ClearOnly ==
    /\ open /\ Blanked
    /\ UNCHANGED <<open, streaming, stream, made, turns>>
Clear ==
    /\ open /\ Blanked
    /\ stream' = IF streaming THEN Abort(stream) ELSE stream
    /\ UNCHANGED <<open, streaming, made, turns>>

PlayStep == Send \/ Fetched \/ Refreshed \/ HandleEvent \/ Settled \/ Stop \/ Clear
---------------------------------------------------------------------------
(* After clear() nothing of the former conversation comes back before the   *)
(* next message, whatever was under way: no answer, error, run or usage, no *)
(* conversation that the next message would go on with, and no event in the *)
(* trace.  All that may come up is the entry that the message under way was *)
(* cancelled, which its send() adds once it has been aborted.               *)
ClearedStaysCleared ==
    cleared => /\ messages = <<>> /\ conversation = Nobody /\ ~failure
               /\ run = Nobody /\ ~usage /\ trace \subseteq {"cancelled"}

(* The field is disabled, and an answer pending, only while send() awaits a *)
(* stream, and that answer is the stream's.                                 *)
PlaygroundWaits ==
    /\ streaming => stream # Nobody
    /\ \A n \in DOMAIN messages :
          messages[n].pending => stream # Nobody /\ stream.turn = messages[n].turn

PlayTypeOK ==
    /\ open \in BOOLEAN /\ streaming \in BOOLEAN /\ failure \in BOOLEAN /\ cleared \in BOOLEAN
    /\ messages \in Seq([turn : Nat, pending : BOOLEAN, text : BOOLEAN])
    /\ conversation \in Nat \cup {Nobody} /\ stream \in Streams(Nat \cup {Nobody}) \cup {Nobody}
    /\ run \in Nat \cup {Nobody} /\ usage \in BOOLEAN /\ trace \subseteq Entries
    /\ made \in Nat /\ turns \in Nat

\* What is under way when the conversation is cleared has been aborted, and is not listened to.
PlayInv ==
    /\ PlayTypeOK /\ ClearedStaysCleared /\ PlaygroundWaits
    /\ stream # Nobody => streaming
    /\ cleared /\ stream # Nobody => stream.aborted
=============================================================================
