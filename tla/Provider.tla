------------------------------ MODULE Provider ------------------------------
(***************************************************************************)
(* What the OpenAI-compatible adapter (internal/provider/openai/openai.go) *)
(* makes of an HTTP answer: the error code of a status or of a broken      *)
(* connection, and the tool calls of a completion.  Both the stream        *)
(* (ProviderStream) and the bounded worker (WorkerLoop) rest on it.        *)
(***************************************************************************)
EXTENDS Naturals, Sequences, FiniteSets

(* The outcomes of the round trip, classed as the adapter tells them apart. *)
Statuses ==
  {"ok", "unauthorized", "too_many_requests", "request_timeout",
   "bad_request", "bad_request_context", "not_found", "unavailable", "other"}

StatusError(status) ==
  CASE status = "unauthorized"          -> "AUTHENTICATION_FAILED"
    [] status = "too_many_requests"     -> "RATE_LIMITED"
    [] status = "request_timeout"       -> "REQUEST_TIMEOUT"
    [] status = "bad_request_context"   -> "CONTEXT_OVERFLOW"
    [] status = "bad_request"           -> "INVALID_INPUT"
    [] status \in {"not_found", "unavailable"} -> "MODEL_UNAVAILABLE"
    [] OTHER                            -> "PROVIDER_INTERNAL"

(* the state of the caller's context *)
Contexts == {"live", "expired", "cancelled"}

(* why reading or connecting failed, besides the context *)
Failures == {"client_timeout", "reset", "garbled"}

(* a context that is over decides the code before the failure does *)
ContextError(context) ==
  IF context = "cancelled" THEN "REQUEST_CANCELLED" ELSE "REQUEST_TIMEOUT"

TransportError(context, failure) ==
  IF context # "live" THEN ContextError(context)
  ELSE IF failure = "client_timeout" THEN "REQUEST_TIMEOUT"
  ELSE "ENDPOINT_UNREACHABLE"

(* the body of an answer that is not streamed: what is no known transport   *)
(* failure is an invalid response                                           *)
ReadError(context, failure) ==
  IF context = "live" /\ failure = "garbled" THEN "INVALID_RESPONSE"
  ELSE TransportError(context, failure)

(* Argument fragments stand for the pieces of a JSON object: the whole is   *)
(* valid JSON exactly when it is one opening and one closing piece.         *)
ValidJSON(fragments) == fragments = <<"open", "close">>

(* Tool calls are collected under the index the provider gave them; the     *)
(* indexes must be 0, 1, ... without a gap, each call named, its arguments  *)
(* valid JSON.                                                              *)
Orderable(calls) ==
  \A index \in 0 .. Cardinality(DOMAIN calls) - 1 :
     /\ index \in DOMAIN calls
     /\ calls[index].name # << >>
     /\ ValidJSON(calls[index].args)

OrderedToolCalls(calls) ==
  [k \in 1 .. Cardinality(DOMAIN calls) |-> calls[k - 1]]

(* the text a caller sees: the answer, or the reasoning when the answer is  *)
(* blank                                                                    *)
Blank(text) == \A k \in DOMAIN text : text[k] = "space"
VisibleText(text, reasoning) == IF Blank(text) THEN reasoning ELSE text
=============================================================================
