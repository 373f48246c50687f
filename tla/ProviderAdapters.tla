-------------------------- MODULE ProviderAdapters --------------------------
(***************************************************************************)
(* What the four model adapters do to a request and to a reply             *)
(* (modules/providers/*.adapter.ts), as functions of the few facts that    *)
(* the retry loop and the next round of a run can tell apart.              *)
(*                                                                         *)
(* A request is [model, tools, schema, hot]: the family of the model,      *)
(* whether tools and a response schema are sent, and whether the           *)
(* temperature is above 1.  The arguments of a tool call are a class of    *)
(* text: a JSON object, other JSON, no JSON at all, or nothing.  Byte and  *)
(* count limits are left out: their errors are the failure "limit".        *)
(***************************************************************************)
EXTENDS Naturals, Sequences

Vendors == {"compatible", "anthropic", "gemini", "bedrock"}
ModelFamilies == {"full", "legacy", "embedding"}
Arguments == {"object", "other", "broken", "empty"}
ChatRequests == [model : ModelFamilies, tools : BOOLEAN, schema : BOOLEAN, hot : BOOLEAN]

(***************************************************************************)
(* Failures a call can raise: from the connection, from the vendor's HTTP  *)
(* status, from the vendor's stream, and from the adapter's own checks.    *)
(***************************************************************************)
Refusals == {"connection", "rate", "server", "conflict", "auth", "client"}
(* readJsonLimited and its like: a whole body that is no JSON, or too long.*)
BadBodies == {"protocol", "limit"}
Failures == Refusals \cup
            {"timeout", "bodyTimeout", "abort", "protocol", "limit",
             "unusable", "request", "destination", "none"}

----------------------------------------------------------------------------
(* capabilityDetection: what the adapter says of a model.                  *)

CompatibleCapabilities(m) ==
    [chat |-> TRUE, tools |-> m # "legacy", schema |-> m # "legacy"]

AnthropicCapabilities(m) ==
    [chat |-> TRUE, tools |-> m # "legacy", schema |-> m # "legacy"]

GeminiCapabilities(m) ==
    [chat |-> m # "embedding", tools |-> m = "full", schema |-> m = "full"]

BedrockCapabilities(m) ==
    [chat |-> m # "embedding", tools |-> m = "full", schema |-> m = "full"]

Capabilities(v, m) ==
    CASE v = "compatible" -> CompatibleCapabilities(m)
      [] v = "anthropic"  -> AnthropicCapabilities(m)
      [] v = "gemini"     -> GeminiCapabilities(m)
      [] v = "bedrock"    -> BedrockCapabilities(m)

(***************************************************************************)
(* prepare(): the capabilities are asked for tools and for a schema, the   *)
(* capability to chat is not.                                              *)
(***************************************************************************)
Admitted(v, r) ==
    /\ r.tools => Capabilities(v, r.model).tools
    /\ r.schema => Capabilities(v, r.model).schema

----------------------------------------------------------------------------
(* Building the vendor's request.  "history" holds the argument classes of *)
(* the tool calls the run has already answered.                            *)

(* parseToolArguments of Anthropic and of Bedrock: text || '{}', an object.*)
AnthropicParses(a) == a \in {"object", "empty"}
BedrockParses(a) == a \in {"object", "empty"}

(* mapMessages, convertMessages: each earlier call is parsed again.        *)
AnthropicMessages(history) == \A a \in history : AnthropicParses(a)
BedrockMessages(history) == \A a \in history : BedrockParses(a)

(* toGeminiContents wraps whatever does not parse to an object.            *)
GeminiMessages(history) == history \subseteq Arguments

(* chatBody of the compatible adapter sends the calls as they came.        *)
CompatibleAccepts(r, history) == history \subseteq Arguments

(* validateChatRequest: a temperature of at most 1, where an agent may     *)
(* have one of up to 2.                                                    *)
AnthropicRequest(r) == ~r.hot
AnthropicAccepts(r, history) == AnthropicRequest(r) /\ AnthropicMessages(history)

(* buildGenerateParams: temperature clamped, capabilities asked again.     *)
GeminiAccepts(r, history) ==
    /\ GeminiMessages(history)
    /\ r.tools => GeminiCapabilities(r.model).tools
    /\ r.schema => GeminiCapabilities(r.model).schema

(* converseInput: a model that cannot chat is refused here.                *)
BedrockAccepts(r, history) ==
    /\ BedrockCapabilities(r.model).chat
    /\ BedrockMessages(history)
    /\ r.tools => BedrockCapabilities(r.model).tools
    /\ r.schema => BedrockCapabilities(r.model).schema

AcceptsRequest(v, r, history) ==
    CASE v = "compatible" -> CompatibleAccepts(r, history)
      [] v = "anthropic"  -> AnthropicAccepts(r, history)
      [] v = "gemini"     -> GeminiAccepts(r, history)
      [] v = "bedrock"    -> BedrockAccepts(r, history)

----------------------------------------------------------------------------
(* normalizeError: the failures each adapter calls retryable.              *)

(* HTTP 429 and 5xx (ProviderHttpError), and the AbortError into which     *)
(* request() turns a timeout or an abort before the headers.  A timeout    *)
(* while the body is read stays a TimeoutError, which is not one.          *)
CompatibleRetryable == {"rate", "server", "timeout", "abort"}

(* normalizeApiError: 429, 408, 409 and 5xx.                               *)
AnthropicApiRetryable == {"rate", "conflict", "server"}
(* The client's timeout and connection errors as well, its abort not.      *)
AnthropicRetryable == AnthropicApiRetryable \cup {"timeout", "connection"}

(* Every DOMException, an abort among them, and 429, 5xx, 408, 409.        *)
GeminiRetryable == {"timeout", "bodyTimeout", "abort", "rate", "server", "conflict"}

(* normalizeAwsError, while the client's error is at hand: 429, 5xx,       *)
(* timeouts and aborts.                                                    *)
BedrockAwsRetryable == {"timeout", "bodyTimeout", "abort", "rate", "server"}
(* normalizeError keeps what that found; its own errors are not retried.   *)
BedrockRetryable == BedrockAwsRetryable

Retryable(v, f) ==
    f \in CASE v = "compatible" -> CompatibleRetryable
            [] v = "anthropic"  -> AnthropicRetryable
            [] v = "gemini"     -> GeminiRetryable
            [] v = "bedrock"    -> BedrockRetryable

(***************************************************************************)
(* What an attempt raises when its signal fires: its own timeout, or the   *)
(* client's abort.  Before the headers the compatible adapter makes one    *)
(* error of both, afterwards its readers see the signal's own reason.      *)
(* Anthropic's client raises its timeout only while it waits for headers.  *)
(***************************************************************************)
CompatibleSignal(open) == IF open THEN "timeout" ELSE "bodyTimeout"
AnthropicSignal(open) == IF open THEN "timeout" ELSE "abort"
GeminiSignal(open) == IF open THEN "timeout" ELSE "bodyTimeout"
BedrockSignal(open) == IF open THEN "timeout" ELSE "bodyTimeout"

Signal(v, open) ==
    CASE v = "compatible" -> CompatibleSignal(open)
      [] v = "anthropic"  -> AnthropicSignal(open)
      [] v = "gemini"     -> GeminiSignal(open)
      [] v = "bedrock"    -> BedrockSignal(open)

(***************************************************************************)
(* What can interrupt a stream under way.  The compatible adapter reads    *)
(* the socket itself: a cut connection, an event that is not JSON.         *)
(* streamErrorEvent: Bedrock's exception events throttling,                *)
(* serviceUnavailable, internalServer and modelStreamError are retryable,  *)
(* as "server"; the others are not, as "protocol".                         *)
(***************************************************************************)
CompatibleInterruptions == {"connection", "protocol", "limit"}
AnthropicInterruptions == {"protocol", "limit"}
GeminiInterruptions == {"server", "protocol", "limit"}
BedrockExceptionEvents == {"server", "protocol"}
BedrockInterruptions == BedrockExceptionEvents \cup {"limit"}

Interruptions(v) ==
    CASE v = "compatible" -> CompatibleInterruptions
      [] v = "anthropic"  -> AnthropicInterruptions
      [] v = "gemini"     -> GeminiInterruptions
      [] v = "bedrock"    -> BedrockInterruptions

----------------------------------------------------------------------------
(* The arguments handed to the executor, from the arguments received;      *)
(* "none" is a reply the adapter refuses.                                  *)

(* finalizeStreamToolCall parses them, and writes the object again.        *)
AnthropicFinal(a) == IF AnthropicParses(a) THEN "object" ELSE "none"

(* toProviderToolCall writes the JSON value the client parsed (?? {}).     *)
AnthropicValue(a) == IF a = "empty" THEN "object" ELSE a

(* normalizeFunctionCall: text that is not an object is wrapped in one, an *)
(* array stays an array.                                                   *)
GeminiFinal(a) == IF a = "other" THEN "other" ELSE "object"

(* normalizeToolArguments: nothing or other JSON becomes {}, text that is  *)
(* not JSON is kept for the executor to reject.                            *)
BedrockFinal(a) == IF a = "broken" THEN "broken" ELSE "object"

(* As they came, '' and half-written ones included.                        *)
CompatibleFinal(a) == a

Final(v, a) ==
    CASE v = "compatible" -> CompatibleFinal(a)
      [] v = "anthropic"  -> AnthropicFinal(a)
      [] v = "gemini"     -> GeminiFinal(a)
      [] v = "bedrock"    -> BedrockFinal(a)

(* chat: every block of a reply in one piece, in order; the calls keep     *)
(* their ids.  Only the compatible adapter gets the arguments as text.     *)
WithArguments(calls, F(_)) == [k \in DOMAIN calls |-> [calls[k] EXCEPT !.args = F(@)]]

CompatibleWhole(calls) == calls
AnthropicWhole(calls) == WithArguments(calls, AnthropicValue)
GeminiWhole(calls) == WithArguments(calls, GeminiFinal)
BedrockWhole(calls) == WithArguments(calls, BedrockFinal)

WholeReply(v, calls) ==
    CASE v = "compatible" -> CompatibleWhole(calls)
      [] v = "anthropic"  -> AnthropicWhole(calls)
      [] v = "gemini"     -> GeminiWhole(calls)
      [] v = "bedrock"    -> BedrockWhole(calls)

(* mergeFunctionCall: two parts of one call of the Gemini stream, after    *)
(* normalizeFunctionCall; two arrays are taken to be the same one.         *)
GeminiMerge(a, b) == IF a = "other" /\ b = "other" THEN "other" ELSE "object"
=============================================================================
