------------------------------ MODULE FaultMock ------------------------------
(***************************************************************************)
(* The fault service (faultmock/app.py): one process-wide cursor and one   *)
(* set of counters, shared by whoever sends requests to it.                *)
(***************************************************************************)
EXTENDS Upstream, FiniteSets, Bags

CONSTANTS
  Services,   \* the instances that can run, each with a state of its own
  Sequence    \* FaultMockConfig.sequence

FaultNames ==
  {"ok", "rate_limited_429", "server_500", "timeout", "delayed_ms",
   "malformed_json", "stream_ok", "stream_fail_after_first_chunk",
   "in_band_error", "connection_close"}

ASSUME SequenceAssumption == Sequence \in Seq(FaultNames) /\ Sequence # <<>>

VARIABLES
  cursor,    \* FaultMockState.cursor, for each service
  counts     \* FaultMockState.counts, a Counter

service == <<cursor, counts>>

ServiceInit ==
  /\ cursor = [s \in Services |-> 0]
  /\ counts = [s \in Services |-> EmptyBag]

\* The fault of a request: the one it asks for, or the next of the sequence.
Selected(s, override) ==
  IF override = "none" THEN Sequence[(cursor[s] % Len(Sequence)) + 1] ELSE override

Select(s, override) ==
  /\ cursor' = IF override = "none" THEN [cursor EXCEPT ![s] = @ + 1] ELSE cursor
  /\ counts' = [counts EXCEPT ![s] = @ (+) SetToBag({Selected(s, override)})]

Reset(s) ==
  /\ cursor' = [cursor EXCEPT ![s] = 0]
  /\ counts' = [counts EXCEPT ![s] = EmptyBag]

\* A streamed body, in the events its adapter sees.
OpenAIStream(fault) ==
  IF fault = "stream_fail_after_first_chunk" THEN <<"text", "garbled">>
  ELSE <<"text", "usage", "done">>

AnthropicStream(fault) ==
  CASE fault = "in_band_error" -> <<"error">>
    [] fault = "stream_fail_after_first_chunk" -> <<"start", "blank", "text", "error">>
    [] OTHER -> <<"start", "blank", "text", "blank", "delta", "blank">>

\* The fault streams whatever was asked for.
Streams(format, fault) ==
  \/ fault \in {"stream_ok", "stream_fail_after_first_chunk"}
  \/ format = "anthropic" /\ fault = "in_band_error"

\* The answer to a call.  The timeout lets the caller's own limit pass, and so
\* do not a few milliseconds of delay.  A stream in the place of a body is no
\* JSON, and a body in the place of a stream has no events.
FaultAnswer(call, fault) ==
  CASE fault = "rate_limited_429" -> [head |-> 429, events |-> <<>>]
    [] fault = "server_500" -> [head |-> 500, events |-> <<>>]
    [] fault = "timeout" -> [head |-> 0, events |-> <<>>]
    [] fault = "malformed_json" ->
         [head |-> 200, events |-> IF call.stream THEN <<>> ELSE <<"garbled">>]
    [] fault = "connection_close" -> [head |-> 200, events |-> <<"broken">>]
    [] OTHER ->
         [head |-> 200,
          events |-> CASE call.stream ->
                            IF call.format = "openai" THEN OpenAIStream(fault)
                            ELSE AnthropicStream(fault)
                       [] Streams(call.format, fault) /\ ~call.stream ->
                            IF call.format = "openai" THEN <<"garbled">> ELSE <<"odd">>
                       [] OTHER -> <<"usage">>]
==============================================================================
