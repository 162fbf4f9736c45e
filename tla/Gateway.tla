-------------------------------- MODULE Gateway --------------------------------
(***************************************************************************)
(* POST /v1/chat/completions (api/routes.py) around the executor: one      *)
(* request from admission to the last thing the handler does for it, with  *)
(* what it writes to the client and what it counts in the metrics.         *)
(*                                                                         *)
(* The module extends Fallback, whose variables are the executor serving   *)
(* the request, and asks Policy for the decision.  The handler drives the  *)
(* executor: it awaits chat(), or primes stream() with one anext and hands *)
(* the generator to the response, which pulls it as the server sends.      *)
(* The executor's argument, request, is fixed beforehand: it is the answer *)
(* of the router to the metadata, and means nothing for a denied request.  *)
(*                                                                         *)
(* The client may leave at any time.  Only a streaming response notices:   *)
(* its task is cancelled where the executor is suspended, or, between two  *)
(* items, its generators are dropped and closed by the event loop's hooks, *)
(* the body first and the executor's behind it.                            *)
(***************************************************************************)
EXTENDS Fallback, Bags

CONSTANTS
  DataClasses, Restricted, Tiers, Workloads, Allowlist, Denied, \* see Policy
  Wildcard,       \* Policy's Any
  Policies,       \* the policy documents the gateway may be configured with
  NoHeader        \* no X-Gateway-Provider and -Fallback-Count header

Router == INSTANCE Policy WITH Any <- Wildcard

\* The decisions the executor is given are those of the router.
ASSUME RouterAssumption ==
  \A p \in Policies : \A m \in Router!Requests :
    LET d == Router!SelectRoute(p, m) IN
    d # Denied => [route |-> p[d.rule].route, kept |-> d.kept] \in Decisions

VARIABLES
  asked,     \* [policy, meta]: the configuration and the metadata headers
  stage,     \* where the handler stands
  client,    \* "there" or "gone"
  status,    \* the HTTP status sent, 0 before
  header,    \* [pos, fallbacks]: X-Gateway-Provider and -Fallback-Count
  written,   \* what has been written to the body
  due,       \* the item last handed over was final and carried usage
  billed,    \* the routes' positions usage and cost were recorded for
  counted,   \* gateway_requests_total: [outcome, pos] of each increment
  errors,    \* gateway_provider_errors_total, by [pos, class]
  fallbacks  \* gateway_fallback_total, by [from, to, reason]

wire == <<status, header, written>>
metrics == <<billed, counted, errors, fallbacks>>
gvars == <<asked, stage, client, wire, due, metrics>>
allvars == <<vars, gvars>>

------------------------------------------------------------------------------
Decision == Router!SelectRoute(asked.policy, asked.meta)

Routed == Decision # Denied

ErrorClasses == AdapterErrors \cup {"stream_started_failure"}

\* _ERROR_STATUS
ErrorStatus(class) ==
  CASE class = "rate_limited" -> 429
    [] class = "timeout" -> 504
    [] OTHER -> 502

\* Admission, before the router is asked.
RefusalStatus ==
  [auth_failed |-> 401, team_mismatch |-> 403, invalid_workload |-> 422,
   missing_metadata |-> 422, invalid_metadata |-> 422, invalid_json |-> 400,
   invalid_request |-> 400]

\* The index of the provider that serves, counted from 0 (FallbackResult and the
\* items of stream()).
FallbackCount == index - 1

\* decision.primary
Primary == CHOOSE p \in request.kept : \A q \in request.kept : p <= q

\* The attempts of a log that failed.
FailedAt(log) == {i \in DOMAIN log : log[i].class # "none"}

\* Mutant of TransitionsAt: a transition is counted where none could be left.
TransitionsAtFirst(log) == {i \in FailedAt(log) : i + 2 \in DOMAIN log}

\* Those behind which another provider was tried.
TransitionsAt(log) == {i \in FailedAt(log) : i + 1 \in DOMAIN log}

\* The labels of the counters' increments.
ErrorLabel(log, i) == [pos |-> log[i].pos, class |-> log[i].class]

TransitionLabel(log, i) ==
  [from |-> log[i].pos, to |-> log[i + 1].pos, reason |-> log[i].class]

\* What a counter gains from increments with these labels: a bag.
Tally(label) ==
  [l \in {label[i] : i \in DOMAIN label} |->
     Cardinality({i \in DOMAIN label : label[i] = l})]

\* _record_attempt_history
RecordHistory(log) ==
  /\ errors' = errors (+) Tally([i \in FailedAt(log) |-> ErrorLabel(log, i)])
  /\ fallbacks' =
       fallbacks (+) Tally([i \in TransitionsAt(log) |-> TransitionLabel(log, i)])

Count(result, p) == counted' = Append(counted, [outcome |-> result, pos |-> p])

LastPos(log) == IF log = <<>> THEN Primary ELSE log[Len(log)].pos

LastWritten == IF written = <<>> THEN "none" ELSE written[Len(written)]

------------------------------------------------------------------------------
GInit ==
  /\ asked \in [policy : Policies, meta : Router!Requests]
  /\ request \in Requests
  /\ Routed =>
       /\ request.restricted = (asked.meta.dataClass = Restricted)
       /\ request.route = asked.policy[Decision.rule].route
       /\ request.kept = Decision.kept
  /\ Idle
  /\ stage = "admit" /\ client = "there"
  /\ status = 0 /\ header = NoHeader /\ written = <<>>
  /\ due = FALSE
  /\ billed = <<>> /\ counted = <<>> /\ errors = EmptyBag /\ fallbacks = EmptyBag

\* Missing or unknown key, wrong team, metadata or body: answered at once.
Refuse(reason) ==
  /\ stage = "admit"
  /\ status' = RefusalStatus[reason]
  /\ stage' = "done"
  /\ UNCHANGED <<vars, asked, client, header, written, due, metrics>>

\* PolicyDenied: answered and counted.
Deny ==
  /\ stage = "admit"
  /\ ~Routed
  /\ status' = 403
  /\ Count("policy_denied", 0)
  /\ stage' = "done"
  /\ UNCHANGED <<vars, asked, client, header, written, due, billed, errors,
                 fallbacks>>

Admit ==
  /\ stage = "admit"
  /\ Routed
  /\ stage' = "serve"
  /\ UNCHANGED <<vars, asked, client, wire, due, metrics>>

\* The executor runs while the handler awaits it, or is being closed.
ExecutorRuns ==
  /\ stage \in {"serve", "leaving"}
  /\ Executor \/ AdapterActs
  /\ UNCHANGED gvars

\* Time passes while the executor is suspended and, between two items, while
\* the server sends.
Clock ==
  /\ pc = "emit" => stage \in {"respond", "sent", "leaving"}
  /\ Tick
  /\ UNCHANGED gvars

\* The client closes the connection.
Leave ==
  /\ stage \notin {"admit", "done"}
  /\ client = "there"
  /\ client' = "gone"
  /\ UNCHANGED <<vars, asked, stage, wire, due, metrics>>

------------------------------------------------------------------------------
\* _non_streamed, and what _streamed does until it has an item.

\* A result: metrics, usage and the answer.
Answered ==
  /\ stage = "serve" /\ ~request.stream
  /\ pc = "end" /\ outcome = "success"
  /\ RecordHistory(attempts)
  /\ Count("success", pos)
  /\ billed' = Append(billed, pos)
  /\ status' = 200
  /\ header' = [pos |-> pos, fallbacks |-> FallbackCount]
  /\ written' = <<"answer">>
  /\ stage' = "done"
  /\ UNCHANGED <<vars, asked, client, due>>

\* Mutant of Fails: the terminal error is attributed to the first provider.
FailsAtPrimary ==
  /\ stage = "serve" /\ status = 0
  /\ pc = "end" /\ outcome \in ErrorClasses
  /\ RecordHistory(attempts)
  /\ Count(outcome, Primary)
  /\ status' = ErrorStatus(outcome)
  /\ header' = [pos |-> Primary, fallbacks |-> 0]
  /\ stage' = "done"
  /\ UNCHANGED <<vars, asked, client, written, due, billed>>

\* A ProviderError before any output: _record_terminal_error, and the status of
\* the error class.
Fails ==
  /\ stage = "serve" /\ status = 0
  /\ pc = "end" /\ outcome \in ErrorClasses
  /\ LET p == LastPos(attempts) IN
     /\ IF attempts = <<>>
        THEN /\ errors' = errors (+) SetToBag({[pos |-> p, class |-> outcome]})
             /\ UNCHANGED fallbacks
        ELSE RecordHistory(attempts)
     /\ Count(outcome, p)
     /\ header' = [pos |-> p, fallbacks |-> IF attempts = <<>> THEN 0
                                            ELSE Len(attempts) - 1]
  /\ status' = ErrorStatus(outcome)
  /\ stage' = "done"
  /\ UNCHANGED <<vars, asked, client, written, due, billed>>

\* Any other exception before any output: the server answers 500, nothing is
\* counted.
Crashes ==
  /\ stage = "serve" /\ status = 0
  /\ pc = "end" /\ outcome = "crashed"
  /\ status' = 500
  /\ stage' = "done"
  /\ UNCHANGED <<vars, asked, client, header, written, due, metrics>>

\* The first anext returned an item, or found the stream empty.
Primed ==
  /\ request.stream
  /\ pc = "emit" \/ (pc = "end" /\ outcome = "success")

\* A StreamingResponse is made; its headers are those of the first item.
Respond ==
  /\ stage = "serve" /\ status = 0
  /\ Primed
  /\ header' = IF chunks = <<>>
               THEN [pos |-> Primary, fallbacks |-> 0]
               ELSE [pos |-> pos, fallbacks |-> FallbackCount]
  /\ stage' = "respond"
  /\ UNCHANGED <<vars, asked, client, status, written, due, metrics>>

------------------------------------------------------------------------------
\* event_stream: the body of a streaming response.

\* An item is written; one without text, unless it is final, is passed over.
WriteItem(text, usage) ==
  IF chunks[Len(chunks)].final
  THEN written' = Append(written, "final") /\ due' = usage /\ stage' = "sent"
  ELSE /\ due' = FALSE
       /\ IF text
          THEN written' = Append(written, "text") /\ stage' = "sent"
          ELSE UNCHANGED written /\ stage' = "skip"

WriteDone ==
  /\ written' = Append(written, "done")
  /\ stage' = "last"
  /\ UNCHANGED due

\* The server sends the head and starts the body, which has the first item.
Start(text, usage) ==
  /\ stage = "respond"
  /\ status' = 200
  /\ IF pc = "emit" THEN WriteItem(text, usage) ELSE WriteDone
  /\ UNCHANGED <<vars, asked, client, header, metrics>>

\* The executor hands over another item.
Item(text, usage) ==
  /\ stage = "serve" /\ status = 200
  /\ pc = "emit"
  /\ WriteItem(text, usage)
  /\ UNCHANGED <<vars, asked, client, status, header, metrics>>

\* Mutant of Bill: usage is recorded for any item.
BillAlways == billed' = Append(billed, pos)

Bill == billed' = IF due THEN Append(billed, pos) ELSE billed

\* The server asks for more: usage of a final item is recorded only now, and the
\* executor is resumed.
Pull ==
  /\ stage \in {"sent", "skip"}
  /\ Bill
  /\ stage' = "serve"
  /\ Resume
  /\ UNCHANGED <<asked, client, wire, due, counted, errors, fallbacks>>

\* The generator is exhausted.
Completes ==
  /\ stage = "serve" /\ status = 200
  /\ pc = "end" /\ outcome = "success"
  /\ WriteDone
  /\ UNCHANGED <<vars, asked, client, status, header, metrics>>

\* Mutant of ErrorEvent: the stream is terminated behind the error.
ErrorEventThenDone == written' = written \o <<"error", "done">>

ErrorEvent == written' = Append(written, "error")

\* The generator raises a ProviderError: it is written as an event.
Breaks ==
  /\ stage = "serve" /\ status = 200
  /\ pc = "end" /\ outcome \in ErrorClasses
  /\ ErrorEvent
  /\ stage' = "last"
  /\ UNCHANGED <<vars, asked, client, status, header, due, metrics>>

\* The finally clause of event_stream.
CountStream(result) ==
  /\ RecordHistory(attempts)
  /\ Count(result, IF chunks = <<>> THEN LastPos(attempts) ELSE pos)

\* Mutant of StreamOutcome: the outcome is not set where the error is caught.
StreamOutcomeInitial == "success"

\* The outcome a body ends with, of its own.
StreamOutcome == IF LastWritten = "error" THEN outcome ELSE "success"

\* The last event was sent, or the client went away at it.
Closes ==
  /\ stage = "last"
  /\ CountStream(StreamOutcome)
  /\ stage' = "done"
  /\ UNCHANGED <<vars, asked, client, wire, due, billed>>

\* Another exception, or the cancellation, leaves the executor: the body is cut
\* off, and counted with the outcome it was given at its start.
CutOff ==
  /\ stage = "serve" /\ status = 200
  /\ pc = "end" /\ outcome \in {"crashed", "cancelled"}
  /\ CountStream("success")
  /\ stage' = "done"
  /\ UNCHANGED <<vars, asked, client, wire, due, billed>>

\* The client left while the executor was suspended: it is cancelled.
CancelUpstream ==
  /\ stage = "serve" /\ status = 200
  /\ client = "gone"
  /\ pc # "emit"
  /\ Cancel
  /\ UNCHANGED gvars

\* The client left at an item: the body is closed there, and counted.
Abandon ==
  /\ stage = "sent"
  /\ client = "gone"
  /\ CountStream("success")
  /\ stage' = "leaving"
  /\ UNCHANGED <<vars, asked, client, wire, due, billed>>

\* The client left before the body was started: it never runs.
Vanish ==
  /\ stage = "respond"
  /\ client = "gone"
  /\ stage' = "leaving"
  /\ UNCHANGED <<vars, asked, client, wire, due, metrics>>

\* Mutant of Collect: the dropped generator is never closed.
CollectNothing ==
  /\ stage = "leaving"
  /\ stage' = "done"
  /\ UNCHANGED <<vars, asked, client, wire, due, metrics>>

\* Behind a dropped body the executor's generator is closed too.
Collect ==
  /\ stage = "leaving"
  /\ \/ /\ pc = "emit"
        /\ Cancel
        /\ UNCHANGED stage
     \/ /\ pc = "end"
        /\ stage' = "done"
        /\ UNCHANGED vars
  /\ UNCHANGED <<asked, client, wire, due, metrics>>

GDone == stage = "done" /\ UNCHANGED allvars

Handler ==
  \/ Admit \/ Deny
  \/ Answered \/ Fails \/ Crashes \/ Respond
  \/ \E text, usage \in BOOLEAN : Start(text, usage) \/ Item(text, usage)
  \/ Pull \/ Completes \/ Breaks \/ Closes \/ CutOff
  \/ CancelUpstream \/ Abandon \/ Vanish \/ Collect

GNext ==
  \/ \E reason \in DOMAIN RefusalStatus : Refuse(reason)
  \/ Handler
  \/ ExecutorRuns \/ Clock \/ Leave \/ GDone

GSpec == GInit /\ [][GNext]_allvars

\* The event loop runs the handler, the executor and the clock; the adapters
\* need not answer, but behind a final chunk an iterator is exhausted at once.
GFairness ==
  /\ WF_allvars(Handler)
  /\ WF_allvars(Clock)
  /\ WF_allvars(ExecutorRuns /\ Executor)
  /\ WF_allvars(ExecutorRuns /\ FinalSent /\ Exhausted)

GFairSpec == GSpec /\ GFairness
------------------------------------------------------------------------------
\* The position of the provider called last.
Server == IF calls = <<>> THEN 0 ELSE calls[Len(calls)].pos

\* The executor's own end: it returned a result or raised a ProviderError.
Ran == outcome \in ErrorClasses \cup {"success"}

\* The request ended under the eyes of its client.
Witnessed == stage = "done" /\ client = "there" /\ Ran

\* gateway_requests_total counts a request once at most, and one that ends with
\* its client there exactly once, as what the executor made of it, for the
\* provider that was called last (_record_terminal_error, event_stream).
CountedTruthfully ==
  /\ Len(counted) <= 1
  /\ Witnessed => counted = <<[outcome |-> outcome, pos |-> Server]>>

\* An adapter's stream that ended without a chunk: the handler has no item to
\* tell the provider from.  The adapters of the repository never end so.
Empty == request.stream /\ outcome = "success" /\ chunks = <<>>

\* The headers name the provider that serves and the transitions to it, though
\* they are sent before the body is there (routes.py, _streamed).
HeaderTellsServer ==
  header # NoHeader /\ ~Empty =>
    header = [pos |-> Server, fallbacks |-> Len(calls) - 1]

\* "Attribute every failed attempt and fallback transition to its provider"
\* (_record_attempt_history): each is counted, once, in every way to end.
FailuresAttributed ==
  Witnessed =>
    /\ errors = SetToBag({[pos |-> calls[i].pos, class |-> attempts[i].class] :
                            i \in {j \in DOMAIN attempts : attempts[j].class # "none"}})
    /\ fallbacks = SetToBag({[from |-> calls[i].pos, to |-> calls[i + 1].pos,
                              reason |-> attempts[i].class] : i \in 1..Len(calls) - 1})

\* "pre-stream provider failures keep their normalized HTTP status instead of
\* being smuggled into a 200 SSE body" (routes.py): behind a 200 a request fails
\* only when output was sent, and behind another status none was.  And the client
\* can tell a complete answer from a broken one: [DONE] and the error event come
\* last, the former only behind all of a successful stream, the latter only behind
\* a failure, and a stream that ends has one of them.
BodyWellFormed ==
  /\ status = 200 /\ outcome \in ErrorClasses => chunks # <<>>
  /\ status \notin {0, 200} => chunks = <<>> /\ written = <<>>
  /\ \A i \in DOMAIN written : written[i] \in {"done", "error"} => i = Len(written)
  /\ \A i, j \in DOMAIN written : written[i] = "final" /\ i < j => written[j] # "text"
  /\ LastWritten = "done" =>
       outcome = "success" /\ (FinalSent <=> \E i \in DOMAIN written : written[i] = "final")
  /\ LastWritten = "error" => outcome \in ErrorClasses
  /\ Witnessed /\ status = 200 => LastWritten \in {"answer", "done", "error"}

\* Usage and managed cost are recorded once at most, for the provider that
\* served, behind its final item, and not lost while the client stays.
UsageRecordedOnce ==
  /\ billed \in {<<>>, <<Server>>}
  /\ billed # <<>> /\ request.stream => \E i \in DOMAIN written : written[i] = "final"
  /\ Witnessed /\ due => billed # <<>>

\* When the handler is done with a request nothing of it runs upstream.
UpstreamReleased == stage = "done" => ~iterator

\* Restricted requests stay on private providers by the router alone, with the
\* executor's own stripping switched off (never_cross_data_policy = false).
RestrictedStaysInside ==
  asked.meta.dataClass = Restricted =>
    \A i \in DOMAIN calls : request.route[calls[i].pos] \notin External

\* The handler is done with every request, as long as its server goes on sending
\* or cancels, whatever the adapters do.
GTermination == <>(stage = "done")

------------------------------------------------------------------------------
\* What the repository says of the gateway and the code does not do.

\* "Attribute every failed attempt and fallback transition to its provider"
\* (routes.py, _record_attempt_history): when a request was counted, so were the
\* transitions its own header told.
TransitionsCounted ==
  stage = "done" /\ counted # <<>> /\ header # NoHeader /\ ~Empty =>
    BagCardinality(fallbacks) = header.fallbacks
==============================================================================
