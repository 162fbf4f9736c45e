------------------------------- MODULE Upstream -------------------------------
(***************************************************************************)
(* What an upstream can send to the adapters, and how the adapters take    *)
(* each piece of it: models/errors.py normalize_http_error,                *)
(* adapters/openai_compat.py and adapters/anthropic_managed.py.            *)
(*                                                                         *)
(* A call is of one wire format, streaming or not.  Its answer has a head  *)
(* (a status, if it comes) and events, each named after what the adapter   *)
(* sees in it.  An answer that is not streamed is one event, its whole     *)
(* body.  The body of a refusal is read before its status is looked at,    *)
(* and what it says is not: it has an event only where it does not come    *)
(* whole.                                                                  *)
(***************************************************************************)
EXTENDS Integers, Sequences

Formats == {"openai", "anthropic"}
Calls == [format : Formats, stream : BOOLEAN]

\* Statuses, and 0 for none: no answer in time, or no connection.  302 is a
\* redirection that the HTTP client does not follow, 600 a status that is none.
Heads == {0, 200, 302, 400, 401, 403, 408, 429, 500, 600}

\* The same two, in the middle of the answer.
Losses == {"timeout", "broken"}

\* How the body of a refusal can fail to come: lost, or an exception like that
\* of the last of the events below.
Interruptions == Losses \cup {"foreign"}

\* The events: a piece of text; nothing of interest; a complete usage report;
\* one that lacks a count; the input or the output count alone; a count that
\* NormalizedUsage refuses; the end marker; a line or body that is not the JSON
\* object it should be; an error object; content that is not text; an exception
\* of a library that is not among those the adapter's client documents.
Kinds(call) ==
  {"text", "garbled", "error", "unsound"} \cup Interruptions \cup
  (IF call.format = "openai" THEN {"usage", "half"} ELSE {"start"}) \cup
  (CASE call.stream /\ call.format = "openai" -> {"blank", "done"}
     [] call.stream /\ call.format = "anthropic" -> {"blank", "delta"}
     [] OTHER -> {"usage", "odd"})

\* normalize_http_error.
StatusClass(status) ==
  CASE status = 408 -> "timeout"
    [] status = 429 -> "rate_limited"
    [] status \in {401, 403} -> "auth"
    [] status \in 400..499 \ {401, 403, 408, 429} -> "invalid_request"
    [] status \in 500..599 -> "provider_5xx"
    [] OTHER -> "crashed"

\* Whether an answer is read for what it says.  The OpenAI adapter takes
\* everything below 400 for an answer.
Accepted(call, head) ==
  head \in 200..299 \/ (call.format = "openai" /\ head \in 300..399)

\* The class of a refusal.  The Anthropic adapter takes a status that is no error
\* for an error of the server.
HeadClass(call, head) ==
  IF call.format = "anthropic" /\ head \notin 400..599
  THEN "provider_5xx"
  ELSE StatusClass(head)

\* The class an event raises.  The error object in a stream of the OpenAI format
\* has no choices and is passed over.  "crashed" stands for an exception that is
\* not a ProviderError.  A refused count shows in the Anthropic stream only when
\* the final chunk is made.
EventClass(call, event) ==
  CASE event \in Losses -> "timeout"
    [] event = "garbled" -> "malformed_response"
    [] event = "foreign" ->
         IF call.format = "anthropic" THEN "malformed_response" ELSE "crashed"
    [] event = "error" /\ call.stream ->
         IF call.format = "anthropic" THEN "provider_5xx" ELSE "none"
    [] event = "error" /\ ~call.stream ->
         IF call.format = "anthropic" THEN "crashed" ELSE "malformed_response"
    [] event = "odd" -> "crashed"
    [] event = "unsound" ->
         IF call.format = "anthropic" /\ call.stream THEN "none" ELSE "crashed"
    [] OTHER -> "none"

\* Whether an event is the last one the adapter looks at.
Ends(call, event) == event = "done" \/ EventClass(call, event) # "none"

\* The usage at hand once event i is read: each count is named by the event that
\* told it, and zero if none did.
NoUsage == [input |-> 0, output |-> 0]

\* Mutant of UsageAfter: a report that lacks a count leaves the one before.
UsageAfterSticky(usage, event, i) ==
  CASE event = "usage" -> [input |-> i, output |-> i]
    [] event = "start" -> [usage EXCEPT !.input = i]
    [] event \in {"delta", "unsound"} -> [usage EXCEPT !.output = i]
    [] OTHER -> usage

UsageAfter(usage, event, i) ==
  CASE event = "usage" -> [input |-> i, output |-> i]
    [] event = "half" -> NoUsage
    [] event = "start" -> [usage EXCEPT !.input = i]
    [] event \in {"delta", "unsound"} -> [usage EXCEPT !.output = i]
    [] OTHER -> usage

\* PricingEngine.price: only with both counts.
Priced(usage) == usage.input # 0 /\ usage.output # 0

\* What the adapter makes of a whole answer: the class it raises, or "final".  An
\* interruption comes before the status of a refusal.
Verdict(call, head, events) ==
  LET ends == {i \in DOMAIN events : Ends(call, events[i])}
      first == CHOOSE i \in ends : \A j \in ends : i <= j
  IN  IF head = 0 THEN "timeout"
      ELSE IF ends # {}
      THEN IF events[first] = "done" THEN "final" ELSE EventClass(call, events[first])
      ELSE IF Accepted(call, head) THEN "final" ELSE HeadClass(call, head)
==============================================================================
