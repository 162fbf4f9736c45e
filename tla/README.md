# TLA+ models of the inference gateway

This directory holds a model of the routing gateway in `src/src/inference_gateway`
(paths below are relative to that package unless they start with `src/`), the TLC
runs that check it and the TLAPS proofs about it. `PROJECT.json` lists the components,
runs, mutants, hazards and theorems, and maps every definition to the lines it models.

## 1. The system

A team evaluates what it costs to serve a workload with a private model server (vLLM) or
a managed API. Three programs do that:

* a **gateway**, an OpenAI-compatible HTTP service that authenticates a request, decides
  from its data class where it may be served, runs it with bounded fallback and counts it;
* a **benchmark harness** that sends scenarios through the gateway and writes evidence
  (records, manifest, report, comparison), and a **publisher** that assembles what may be
  shown;
* a **cost engine** that prices what was measured.

### Components

| Component | Code | State it keeps | Operations | Hard behaviour |
|---|---|---|---|---|
| Policy router | `routing/policy.py`, `config/schema.py` | the policy document | validate a document; `select_route` | two layers state one policy; overlapping rules; wildcards |
| Fallback executor | `routing/fallback.py`, `models/errors.py` | per request: attempt, timers, adapter iterator, attempt log | `chat`, `stream` | timeouts race answers; Retry-After against the deadline; cancellation; output already handed over |
| Gateway API | `api/routes.py`, `api/schemas.py`, `telemetry/metrics.py`, `security/auth.py` | per request: response, body generator, what was counted | `chat_completions`, `_streamed`, `_non_streamed`, health, metrics | status before the outcome is known; clients that leave; counting in every way to end |
| Provider adapters | `adapters/*.py`, `config/pricing.py` | an HTTP client; per stream the usage at hand and the next number | `chat`, `stream`, `health`, `price` | truncated streams, errors in the middle of an answer, usage in several pieces, a consumer that gives up |
| Configuration, start-up | `config/loader.py`, `api/app.py`, `main.py` | the loaded configuration | load, build adapters, shut down | a refused document must not serve |
| Benchmark harness | `benchmark/harness.py`, `local.py`, `models.py`, `__main__.py` | run directory, in-memory records, semaphore | `run`, `_request` | one failed request among concurrent ones; crash between two files |
| Manifest | `benchmark/manifest.py` | `manifest.yaml` | `build_manifest`, `write_manifest`, `complete_manifest`, publishability | rewritten in place; judged before completion; three gates for one promise |
| Report, comparison | `benchmark/report.py`, `comparison.py`, `statistics.py`, `slo.py` | the artifacts of a run directory, comparisons beside it | `build_report`, `_comparison_for_run`, `build_comparison`, claimability | artifacts written before a refusal; stale comparisons; two reports rebuilt one after the other; costs from the environment of the day |
| Publisher | `src/scripts/publish-run.py` | the published tree | `publish_run` | check, copy and rename; concurrent publishers |
| Cost engine | `costing/*.py` | none | views A and B, scenario grid, break-even | requests without usage, zero divisors |
| Fault mock, fault evidence | `faultmock/app.py`, `fault_evidence.py` | a cursor over a fault sequence, counters; a child process and its port | `select`, `reset`, both wire formats; the evidence command | one cursor and one set of counters for whoever sends requests; a random port; orphans |
| Datasets, generators, evaluators | `benchmark/datasets.py`, `generators.py`, `evaluators.py` | none | pure functions over texts | string handling |
| Cloud scripts | `src/scripts/*.sh` | AWS resources | up, deploy, down, verify | order of the spend guards |
| Smoke tests, charts | `local_smoke.py`, `src/scripts/decision-brief-charts.py` | none | sequential checks, drawing | none a model would reach |

### How they interact

The gateway's handler asks the router for a `RouteDecision` and gives it to the executor.
For a non-streaming request it awaits `executor.chat`. For a streaming one it creates the
generator `executor.stream`, *primes* it with one `anext` so that failures before output
keep their HTTP status, and hands it to a `StreamingResponse`, whose body generator
(`event_stream`) pulls it as the server sends. The executor calls adapters one after the
other; adapters talk to the providers. The attempt log is one list shared by executor and
handler. The handler writes the metrics; the benchmark harness is an HTTP client of the
gateway; report, comparison and publisher communicate through files of a run directory
only. The evidence command starts a fault service of its own and runs each of its cases
through a gateway with the real adapters; nothing but a port number tells it whose service it
talks to.

Everything in the gateway runs on one asyncio event loop, so that interleaving happens
only at suspensions: an `await` of an adapter, the Retry-After sleep, a `yield`, an
`aclose`. There an answer, a timeout, a cancellation and a client that leaves race.

### What makes each part correct

* Router: restricted data gets private providers only, validated document or not; the
  first matching rule decides; on accepted documents there is nothing to strip.
* Executor: no provider is called once output was handed over; attempts follow the route
  within `max_attempts` and the deadline; Retry-After is respected; the log tells what
  happened; every adapter iterator is closed; every request ends.
* Gateway: every request is counted once and truthfully, in metrics, headers, status and
  body; usage is billed once; upstream work is released when the client leaves.
* Adapters: whatever the upstream sends, chunks count from zero and end with the final one,
  the first failure decides what is raised, and what is billed was reported last.
* Fault evidence: what is written down as injected was injected, and a command that is left
  alone meets its own table.
* Harness, manifest, report, publisher: what looks complete is complete; what is published
  was measured, on a clean commit, and agrees with its own records.
* Comparison, cost engine: a supported claim is true of the records it is about, does not depend
  on which run is named first, and is about runs that may be published.

## 2. The modules

| Module | What it is | Source |
|---|---|---|
| `Policy` | rules, matching, `SelectRoute`, the validators, as operators | `routing/policy.py`, `config/schema.py` |
| `Routing` | `Policy` as a state machine: a document is read, validated or not, and asked | the same |
| `FallbackContract` | what the executor promises, without clocks, classes or adapters | abstract |
| `Fallback` | the executor, `chat` and `stream`, with its environment | `routing/fallback.py` |
| `Gateway` | the handler around the executor and the router | `api/routes.py` |
| `LoadRun` | the load of a benchmark run: semaphore, gather, repeats, interrupt | `benchmark/harness.py`, `__main__.py` |
| `Evidence` | a run's directory with the harness, builds of the report and publishers | `benchmark/manifest.py`, `report.py`, `src/scripts/publish-run.py` |
| `Upstream` | what an upstream can send, and what an adapter makes of a whole answer, as operators | `adapters/openai_compat.py`, `anthropic_managed.py`, `models/errors.py` |
| `Adapter` | one call of an adapter, event by event | the same |
| `FaultMock` | the fault service: cursor, counters, answers | `faultmock/app.py` |
| `FaultEvidence` | the commands that make the fault evidence | `fault_evidence.py` |
| `Manifest` | the three gates of a publishable run, as operators | `benchmark/manifest.py`, `comparison.py`, `src/scripts/publish-run.py` |
| `Costing` | the cost of a run for each correct task, as operators | `costing/engine.py`, `benchmark/report.py`, `statistics.py` |
| `Comparison` | report and compare commands over a set of runs | `benchmark/__main__.py`, `comparison.py`, `report.py` |
| `MCRouting`, `MCFallback`, `MCGateway`, `MCFaultEvidence`, `MCComparison`, `MCEvidence` | instances for TLC (`LoadRun` and `Adapter` need none) | |
| `RoutingProofs`, `FallbackProofs`, `GatewayProofs`, `AdapterProofs`, `FaultEvidenceProofs`, `LoadRunProofs`, `EvidenceProofs`, `ComparisonProofs` | the proofs | |

`Gateway` EXTENDS `Fallback` (the executor's variables are the handler's executor) and
instantiates `Policy` for the decision, whose `Any` is its `Wildcard` (the name would else be
taken by a library that the proofs need). `Fallback` instantiates `FallbackContract` under a
refinement mapping. `Adapter` and `FaultMock` EXTEND `Upstream`, so that the machine of the
adapters and the answers of the fault service speak of the same events; `FaultEvidence` EXTENDS
`FaultMock`; `Comparison` EXTENDS `Manifest` and `Costing`.

### `Policy` and `Routing`

A rule is a record of three match fields and a route. A match field is `Any` (the
code's `None`) or a set, which may be empty: `[]` matches nothing in the code and `{}` here.
`SelectRoute` returns the rule's number and the *positions* of its route that are kept
rather than a new list, because removing providers keeps the order of the others;
`primary` is the least kept position. `Denied` stands for `PolicyDenied`.
`ValidPolicy` is the two model validators. The regular expression of workload
identifiers is not modelled: whether an identifier is listed is what the rest depends on.

`Routing` also asks the router on documents that the validators refuse.
The docstring of `routing/policy.py` promises an invariant "independent of the load-time
validation", and the repository's tests build such policies with `model_copy`.

### `Fallback`

One request is run from the creation of its context to its end. `pc` is where the
coroutine stands:

| `pc` | in `stream()` | in `chat()` |
|---|---|---|
| `loop` | head of `for` | head of `for` |
| `await` | in `anext(iterator)` under `asyncio.timeout` | in `adapter.chat` under `asyncio.timeout` |
| `emit` | at its own `yield`: the consumer holds it | |
| `close` | in `await aclose()` of the `finally` clause | |
| `judge` | behind the `try`, with an error in hand | the same |
| `sleep` | in `_wait_for_retry_after` | the same |
| `end` | returned or raised | returned or raised |

`judge` and `loop` are not suspensions: the clock stands there and nothing else can
step, and `Judge` and `BeginAttempt` are the code from there to the next suspension. The two
modes share their actions because the code is the same apart from the loop over chunks; where
they differ `request.stream` tells them apart.

`Judge` is the whole tail of the loop body: log the attempt, then raise (output was handed
over, last provider, class not eligible, or Retry-After leaves no time) or go on, at once
or after the sleep. `TimerFires` is enabled from the moment the timer is due; an adapter's
answer stays enabled until the loop runs the timer, so that either may win; a timer is run
at most `Lag` ticks late. `Resume` takes the budget anew, and with none left the attempt
fails without asking the adapter. `Cancel` is the consumer that goes away, at each
suspension, with the `finally` clause on its way out.

Adapters are the environment: they return a result, yield chunks, are exhausted, raise one
of the six normalized classes with or without a hint, raise something else, or do nothing
at all. One thing is taken from the adapters' code: behind the final chunk their `stream`
returns at once.

Of a chunk only its provider and whether it is final are kept. `attempts` is the attempt
log; its time stamps, and `calls` and `chunks`, are history that no guard reads except
the mode of the environment above. The log is written to `error.attempts` by `_with_attempts`
wherever it is raised, so one variable stands for both.

### `FallbackContract`

Three variables: how many providers were tried, whether output was handed over, and a
verdict (`success`, `failed`, `partial`, `aborted`). A provider may be tried only while no
output was handed over and fewer than `Limit` were tried; a failure is `partial` exactly if
output was handed over; the verdict is given once, and eventually.
`ImplementsContract` maps `tried` to `Len(calls)`, `committed` to `chunks # <<>>` and
the verdict to the outcome.

### `Gateway`

`stage` is where the handler stands: `admit` (checks and routing), `serve` (awaiting the
executor), `respond` (a `StreamingResponse` was made, its body not started), `sent`
(an item is with the server), `skip` (an item without text, passed over), `last` (the
terminal event is with the server), `leaving` (dropped; generators still open) and `done`.
The executor steps only while the handler awaits it or its generator is being closed.

The admission checks are their outcomes (`Refuse`). `Fails` is the `except ProviderError`
of both modes: history, terminal count, headers and the status of the error class.
`RecordHistory` is `_record_attempt_history`; the metrics of errors and transitions are bags,
a number for each label as in the code, and `counted` and `billed` are sequences of increments, so
that "once" can be said of them. A final item with usage is billed only when the server asks for
the next one (the code's statement behind its `yield`), hence `due`.

A client that leaves is noticed by streaming responses only. Starlette cancels the task
that iterates the body: where the executor is suspended in an adapter the cancellation
arrives there (`CancelUpstream`, then `CutOff`); where an item is with the server the body
is dropped, its `finally` clause counts (`Abandon`), and the executor's generator is
closed by the event loop's asyncgen hooks behind it (`Collect`); before the body was
started it never runs (`Vanish`). These three, and the disconnect itself, model the web framework
and are marked external in the map.

### `Upstream` and `Adapter`

An answer is a head (a status, or none at all) and a sequence of events, each named after what
an adapter sees in it: text, a usage report, a report that lacks a count or has one that is
refused, one of the two counts alone, an error object, something that cannot be read, a
connection lost, an exception of a library, the end marker. A plain answer is one event.
The body of a refusal is read before its status is looked at (`post` reads it whole, `stream`
awaits `aread`), and what it says is not: it has an event only where it does not come whole
(`Interruptions`). There the interruption decides and not the status: `Verdict` has it first.
302 and 600 stand for the statuses beside the usual ones: the OpenAI adapter reads everything below
400 as an answer (`Accepted`), and a status from 600 on is a `ValueError` of
`normalize_http_error` there, `crashed`; the Anthropic adapter takes both for an error of the server.
A connection that the SDK of the Anthropic adapter reports itself is one of `Losses`; where the
exception of the library below reaches the adapter it is `foreign`.
`EventClass` is the class an event raises, in each format and mode; `crashed` stands for an
exception that is not a `ProviderError`. `Verdict` is what the adapter makes of a whole answer;
it is the statement `FirstFailureDecides` is checked against and what `FaultEvidence` calls.

`Adapter` is the code between two suspensions at a time: `start` is a wait for the head, `await` one
for the next event or the body of a refusal, `yield` a chunk that the consumer holds. `Refused`
raises a status behind its body. `StreamEvent` is one turn of the loop, with the usage it
leaves; `LastEvent` the `break` and the failures; `EndOfAnswer` what lies behind the loop, which
is reached without `[DONE]` as well; `Deliver` the final chunk or the result, whose usage may be
refused. `Abandon` is the consumer that closes the generator or cancels the call, at each of the
suspensions, the body of a refusal included.
A count is named by the event that told it, so that the properties can say which report was
billed.

### `FaultMock` and `FaultEvidence`

`FaultMock` keeps the cursor and the counters of each service that can run; `FaultAnswer` is the
answer to a call as events of `Upstream`, of both endpoints. A stream in the place of a plain
body, and a plain body in the place of a stream, are answered as the code answers them.

`FaultEvidence` runs several commands at once. `stage` is where a command stands: it draws a
port, polls for its service, and for each case resets the service (`ResetService`), lets the
gateway call one provider after the other (`CallProvider`), reads the counters and judges
(`ReadState`). `process` is its child, which binds the port or ends (`Boot`), is orphaned when
its command is killed (`Killed`), and is ended by the `finally` clause (`Stop`). `Reached` is
whoever answers on the port. The gateway is cut down to which provider is called next; that it
does so rightly is the subject of `Fallback` and `Gateway`. `Stray` is a request of somebody
else. `Stretches` are the parts of the table that are run: a case shares no state with another
but the service, which it resets.

### `Manifest`, `Costing` and `Comparison`

`Manifest` has one operator for each gate: `Admitted` is everything `build_manifest` refuses by,
`NonLocal` what a comparison asks of a placement, `Publishable` what the publisher asks. Texts
are told apart as far as the gates do: the very local default, the same word spelled otherwise,
blanks, nothing, something real.

`Costing` has costs as integers in a `Unit` of which the instance's quotients are whole; nothing
is rounded that the code does not round. A run is a sequence of repeats. `Interval` is the least
and the greatest ratio of a repeat: with at most three repeats these are the 2.5th and 97.5th
percentile of the resampled ratios, because drawing one repeat three times has a chance of more
than 2.5%. The bounds that a random sample yields lie within them. A managed or hybrid run whose
records name no managed (or no private) provider has no interval (`Shown`).

`CostsOf`, `Judged` and `Claimable` are what `build_comparison` makes of two runs: their costs, the
direction by the intervals, and `_claimability`; `Compared` puts them together. Only the costs depend
on what the summaries were billed by.

`Comparison` keeps what is on disk: for each run the basis of its private cost and the
comparison its summary embeds, for each pair its comparison file with the order it was written in
(the modification time). `Report` and `Compare` are the commands up to their first read,
`ReadSecond` and `WriteComparison` are `build_comparison`, `Build` and `Save` are
`build_report`, once for `report` and twice for `compare`. `Bases` is what
`BENCHMARK_PRIVATE_BILLED_HOURS` may be when a command is started: unset, or the measurement of
one of its runs. Quality is given: an interval for each pair, or records that do not pair.
`MCComparison` varies one thing at a time around runs that are sound.

### `LoadRun`

`main` is where `run()` and the command around it stand; `task[i]` where the i-th
`_bounded_request` of the current `gather` stands: `new` (not yet run by the loop),
`queued` at the semaphore, `woken` (it holds a permit and has not sent), `sending`, `stopping`
(cancelled behind the semaphore and not yet out of it), and its end. `Release` is the exit of
`async with semaphore` in each way a request may end, cancelled ones by `Unwind`: the permit goes
to the first waiter. `GatherRaises` leaves the other tasks running, as `gather` does, so that the
client may be closed under them.

`owner` is who made the HTTP client: the harness (a `base_url` of a gateway) or the command, which
hands it over (the in-process mock). `HarnessCloses` is the `finally` clause of `run()`,
`CommandCloses` that of `_run`; each closes the client only if its own side made it.
`InterruptGather` is an interrupt while tasks are at work: it cancels them (`CancelTasks`), and
`gather` raises when one of them has unwound; `InterruptRun` is one elsewhere, or when the end of
the gather is already on its way. `CancelRest` and `End` are the end of `asyncio.run`, which
cancels what is left and waits for it. `CancelTasks` is asyncio's, and external in the map: it
takes waiters out of the queue, but gives no permit back.

An answer of any status, an error included, makes a record: only transport errors, and answers that
cannot be read, raise. The report that the command builds itself is one of the builds of `Evidence`.

### `Evidence`

`files` says what each file holds: nothing, a torn content (emptied by an open and not yet
closed, or garbled), the manifest of a started or of a completed run, whole records, or the
report of a build, named by the build. A manifest that is completed may be `cut`: YAML that is cut
off may still parse as a mapping, and `completed_at` and the sections a publisher asks for (`git`,
`scenario`, `harness`) come before those with what was measured; a build may read it or fail. The first manifest needs no such content: nobody gets
past the records that are missing beside it. `write_text` is two steps, opening and writing; between
them the command may be killed and others may read. A build that reads the records while they are
written gets a prefix of them or fails. Two builds that have one file open at a time may leave
a mixture. A publisher keeps what it read (`readme` and `reference` are made from the
summary and the records it read first) and copies file after file; the rename is one step,
and fails on an existing destination because a directory with files in it is not replaced. Left out: the
scenario grid, which no command reads, the comparison, which has a module of its own, and runs
that are not publishable, which the publisher refuses.

## 3. The runs

All numbers are distinct states.

| Run | Configuration | What it asks |
|---|---|---|
| `routing` | `MCRouting.cfg`, 90,630 | every document of one or two rules over five data-class fields, three workload fields, two tier fields and five routes, one with an unknown provider: `RestrictedFailsClosed`, `ValidationMakesStrippingIdle`, `FirstMatchWins` |
| `fallback` | `MCFallback.cfg`, 222,032 | both modes on three routes, late timers, hints of 0, 2 and 5 ticks: no replay, partial output told, attempts follow the route, the deadline spans attempts, Retry-After, the log, releasing the adapter, restricted data; `Termination` and `ImplementsContract` (the contract with its liveness) |
| `gateway` | `MCGateway.cfg`, 186,613 | what is counted, told, written and billed against what the executor did; restricted data by the router alone; `GTermination` |
| `adapters` | `MCAdapter.cfg`, 252,810 | both formats and modes, every kind of status, refusals whose body is lost, and every answer of up to four events: `StreamWellFormed`, `FirstFailureDecides`, `BilledAsReported` |
| `faults` | `MCFaultEvidence.cfg`, 683,102 | two commands on two ports, one of which may be killed, with a stray request: `EvidenceTellsFaults`, `TableHolds` |
| `comparison` | `MCComparison.cfg`, 1,098,520 | two commands at a time, two or three in all, over three runs in two directories: `WinnerIsBetter`, `OrderOfNamingIsFree`, `ClaimsArePublishable`, `NewestEmbedded` |
| `load` | `MCLoadRun.cfg`, 12,262 | two permits for four requests, two repeats with a warm-up: the permits, the repeats and the records, with a client of the harness or one handed to it, in every way requests may end, cancelled at each place included: `PermitsConserved`, `RepeatsApart`, `RecordsComplete`, `ClientReleased`; `CommandEnds` |
| `evidence` | `MCEvidence.cfg`, 127,953 | a harness, a build and two publishers, each killed anywhere: `CompletedMeansMeasured`, `PublishedAtOnce`, `PublishedOnce`, `FinalManifestKept` |
| `evidence_orderly` | `MCEvidenceOrderly.cfg`, 3,818 | two builds and two publishers that do not overlap: `PublishedIsOneBuild` |
| `gateway_transitions`, `comparison_measured`, `evidence_accepted` | each its `.cfg` | statements of the repository that the code does not meet (section 6) |

The invariants read:

* `RestrictedFailsClosed` and `RestrictedStaysPrivate` are the two layers of the same
  promise, the router's and the executor's. `RestrictedStaysInside` asks whether the
  first is enough: `MCGateway` sets `never_cross_data_policy` to false and includes policies
  the validators would refuse.
* `ValidationMakesStrippingIdle` relates the validator and the router, which state the same
  policy in different code.
* `NoReplayAfterOutput` is an action property; `PartialOutputIsTold` says that the caller can
  tell a failure behind output from one before any.
* `LogTellsAttempts` relates log, calls and outcome; the metrics of the gateway are only as
  good as that relation.
* `DeadlineSpansAttempts`, `RetryAfterRespected` relate the timers of one attempt to the
  earlier ones and to the global deadline.
* `AdapterReleased`, `UpstreamReleased`: nothing is left open in any way to end.
* `CountedTruthfully`, `FailuresAttributed`: the counters of a request whose client stays are
  a function of what the executor did, in both modes and in every way to end.
* `HeaderTellsServer`: headers are sent with the first item and must still be right at the end.
* `BodyWellFormed`: behind a 200 a request fails only after output; `[DONE]` and the
  error event are last, exclude each other, and tell the truth.
* `UsageRecordedOnce`: usage is recorded once at most, for the server, and is not lost while the
  client stays.
* `StreamWellFormed` is what the executor and the gateway rely on: numbers without a gap, one final
  chunk, last, and none behind a failure. `FirstFailureDecides` relates the steps of a call to
  `Verdict`, which looks at the whole answer: nothing behind the first failure or the end marker counts,
  no text before it is lost, and a refusal is its status only if its body came. `BilledAsReported`: a
  count is the newest of its kind, a report of the OpenAI format that lacks a count takes the one before
  back (an Anthropic delta without one leaves it), and an answer cut off before its closing report has no
  price.
* `EvidenceTellsFaults` is what a reader of the evidence believes: each case met its fault once,
  from some service, and then, where the table says so, a provider that was in order. It holds with
  foreign services, orphans and strays; in the timeout case it may have been nobody who kept
  the caller waiting. `TableHolds` says that table, service, adapters and executor agree.
* `WinnerIsBetter`: the winner of a supported claim cost less for each correct task by its own
  records and was not worse. It allows by name a winner with requests that told no usage.
  `OrderOfNamingIsFree` compares the two ways to name a pair, for comparisons of any age.
  `ClaimsArePublishable` relates the three gates. `NewestEmbedded` is what commands that come one
  after the other and end well leave behind.
* `PermitsConserved`, `RepeatsApart`: the manifest's load shape, also while requests
  outlive their `gather` or are cancelled and have yet to unwind. `RecordsComplete`: a written run is
  whole. `ClientReleased`: whoever made the client closes it, in every way out, and nobody before.
* `CompletedMeansMeasured` is about crashes: `completed_at` is never there without all records, not in
  a manifest that a crash cut off either. `FinalManifestKept`: a manifest that is complete is not written
  again.
* `PublishedAtOnce` and `PublishedOnce` are about publishers that race and are killed.
* `PublishedIsOneBuild` says what an operator gets who lets builds and publishers not overlap
  (`OrderlySpec`). The code does not enforce that: without it a publication may mix two builds.

### Bounds, and why they are enough

* Providers: one private, one external. Nothing depends on a provider but its `external`
  flag and its position.
* Routes of up to three positions with `MaxAttempts = 2`: one longer than `max_attempts`, one
  that a restricted request finds empty, one with an external provider between.
* Time in ticks with timeouts ordered as in the defaults (idle and header below
  attempt, attempt below deadline); the deadline cuts the second attempt, and
  the attempt's end cuts a stream that is being read slowly. Hints: none, within
  the time left, beyond it, and zero.
* `MaxChunks = 3` in the executor (a first, a middle and a final one), 2 in the gateway;
  `Lag = 1` tick of lateness of the loop in the executor, 0 in the gateway.
* `Horizon` caps how long a consumer may hold the generator and how long `aclose` may take.
  It is behind the deadline, and behind the deadline nothing of the executor depends on
  how far.
* Documents of two rules: `FirstMatchWins` speaks of pairs of rules.

* Four requests for two permits: two wait at a time, so that a release wakes one and leaves
  one; two repeats: one behind another.
* Answers of up to four events: the longest chains the properties speak of are a report, another
  report, a text and an end. Every kind of event occurs at every place.
* Two commands and two ports: the same port or another one. Two polls, so that one may find
  nobody and the next one somebody. The cases are run in two stretches of three; one stray request.
* Three runs give two pairs that share a run and a run that lies in another directory. Two commands
  are a race, three let one follow a race. `MinRepeats` is the code's 3, `MinSuccesses` 6
  where the code has 200, with runs on either side of it. Costs are small, with equal ones among them.
* One build is enough for the publishers' race, two
  for what a rebuild leaves; two publishers are a race.

`MCRouting.cfg`, `MCAdapter.cfg` and the configurations of `MCEvidence` and `MCComparison` do not
check for deadlock: a router that has decided stops, and so do calls and commands that have ended. The other specifications end in an explicit stuttering step and are checked for deadlock.

### Fairness

* The event loop runs what is ready: weak fairness of every step of the coroutine
  (`BeginAttempt`, `DeadlineError`, `TimerFires`, `Close`, `Judge`, `Wake`), and of the
  clock. `Close` includes that an adapter's `aclose` returns, which for the repository's
  adapters is the closing of an HTTP response.
* `Resume`: the server goes on reading the generator, or cancels it. In `Gateway` this is
  part of the handler's own fairness: uvicorn either sends the item or reports the
  disconnect.
* Nothing is assumed of the adapters' answers. The one exception is exhaustion behind the
  final chunk, where their code has nothing left to await.

* `LoadRun`: weak fairness of `run()` and of each task. A request ends because the
  gateway answers or the HTTP client's timeout (`httpx.AsyncClient(timeout=120)`) expires.

Strong fairness is not used anywhere.

## 4. The proofs

All theorems hold for every value of the constants that satisfies the named ASSUMEs.

* `RoutingProofs`: `RoutingTypeCorrect`, `RestrictedDataFailsClosed`, `FirstMatchDecides`,
  `ValidatorsCoverRouter`. The inductive invariant `RInv` says that a decision is
  `SelectRoute` of the document and the request, and that an accepted document is valid; the
  rest is about the operator. `FirstExists` (the least matching rule exists) uses the
  well-foundedness of the naturals, so documents may have any number of rules.
* `FallbackProofs`: `TypeCorrect`, `RestrictedNeverLeaves`, `NoReplay`, `PartialOutputTold`,
  `ExecutorImplementsContract`. The invariants are not inductive: that no provider is
  called behind output needs that the coroutine is never at `loop` or `sleep` with output
  handed over, which needs that `started` and `chunks # <<>>` agree, which needs that an
  attempt begins without output. `IInv` adds this (`OutputState`), how the program counter
  and the calls go together (`CallState`) and the bounds of the timers, without which the
  clock's type is not preserved (`TimerBounds`). There is one lemma per action.
  `ExecutorImplementsContract` proves the safety part of the refinement: the initial state
  maps to the contract's, and every step to one of the contract's or to a stutter.

  `RouteIsFollowed`, `DeadlineSpans`, `RetryAfterHolds`, `LogIsTrue` and `AdapterIsReleased` are
  about the history of a request and rest on `HInv`, which is proved on top of `IInv`.
  `RouteState`: the positions called are increasing and leave none of the permitted ones out.
  `LogState`: the log is behind the calls by the attempt under way, which the program counter tells
  (`Unlogged`), and each entry behind which a call was made has an eligible class. `TimeState`: when
  the coroutine stands before a call, the last failure's hint has passed; while it sleeps, it will
  have passed when the sleep ends, and that is before the deadline.
* `GatewayProofs`: `GatewayRunsExecutor` proves `GSpec => Spec`: no step of the handler, no
  disconnect and no collection does to the executor what `Fallback` does not allow. So
  each theorem about the executor holds in the gateway (`GatewayNeverReplays`).
  `RestrictedInside` proves that the router alone keeps restricted data inside, from
  `RouterInv` (the executor's argument is the router's answer, and a denied request has
  no calls) and the executor's invariant (every call is of a kept position).

  `RequestsCounted`, `HeaderIsTrue`, `FailuresAreAttributed`, `BodyIsWellFormed`, `UsageRecorded` and
  `UpstreamIsReleased` are the gateway's accounting. Each says what holds when a request is done,
  and none is inductive, for what is counted then follows from where the handler stood. `GInv` says
  where handler and executor can stand together (`StageState`: an item with the server means that
  the executor is held at its `yield`), what a status, a header and the items written say about
  the output so far (`HeadState`, `BodyState`), which usage is recorded and which still due
  (`UsageState`), and that nothing is counted before the end (`MetricState`). It uses `IInv` and `HInv`
  of the executor, which hold here by `GatewayRunsExecutor`: that failures are attributed needs that
  the log tells the calls.
* `AdapterProofs`: `StreamWellFormedHolds`, `BilledAsReportedHolds` and `FirstFailureDecidesHolds`, for
  answers of any length. The invariant adds to `StreamWellFormed` what the usage at hand is made of
  (`AtHand`: the newest report of each kind among the events read); a count that is delivered is then
  the newest one because the last event of an answer never changes it. `Progress` says that a call
  that has not ended has met nothing that ends it and has handed over a chunk for each text.
* `FaultEvidenceProofs`: `EvidenceTellsFaultsHolds` and `TableHoldsAlone`, for any number of commands,
  ports and stray requests and any part of the table. The first follows a case from its
  first call to its judgement: how many calls were answered, by whom, with what, and what
  the counters read back can be (`TellsSoFar`); it does not matter whose service it was. The second
  says of a command that is alone on its port that its service lives while a case is
  at it and that cursor and counters are the case's own (`AloneGoesWell`). The table enters by a lemma
  about its rows (`RowIsStated`), the adapters by lemmas about `Verdict`.
* `ComparisonProofs`: `ClaimsArePublishableHolds`, `WinnerIsBetterHolds`, `OrderOfNamingIsFreeHolds`,
  `NewestEmbeddedHolds`, for any number of runs, directories and commands. The first three rest on
  `CInv`: whatever a draft, a file or a summary holds says what the records of its pair say, by the
  bases it names (`FromRecords`). `WinnerIsBetterHolds` then needs that the cost of a run lies in the
  interval that is told with it (`CostWithinInterval`: a total of numerators over a total of
  denominators lies between the least and the greatest ratio, rounded as they are), so that intervals
  that lie apart mean costs that do (`ApartIsCheaper`). `OrderOfNamingIsFreeHolds` needs that naming
  the runs the other way round mirrors the interval of the difference and with it the
  direction (`NamingMirrors`), and that what is billed never decides whether there is a cost
  (`CostsKnown`). `NewestEmbeddedHolds` needs that while commands do not overlap the one that is at work
  accounts for every report that is not current (`CurrentOrDue`).

  Costs are totals over repeats, folds of the library. Its own induction theorems cannot be
  instantiated here; instead `SubsetInduction` states induction over the subsets of a finite set with
  a *set* of those that are good, and proves it from the least size of one that is not. From it follow
  that the fold is a sum (`SumExists`, `TotalIsSum`) and that totals add, scale and compare.
* `LoadRunProofs`: `LoadIsBounded`, `PermitsAreConserved`, `RepeatsAreApart`,
  `RecordsAreComplete`, `ClientIsReleased`, for every scenario. That a release keeps the count of
  permits needs that the head of the queue is a queued task and occurs there once
  (`QueueHolds`), for else the permit would be handed to a task that holds one already.
  `RecordsAreComplete` has an invariant of its own (`RecordsInv`: behind n repeats the records are
  those of the first n) and a lemma about positions in a sequence of blocks.
* `EvidenceProofs`: `CompletedIsMeasured`, `PublicationIsAtomic`, `PublicationIsFinal`,
  `ManifestIsFinal`, for any number of builds and publishers. `HarnessHolds` says what is on disk
  by where the harness stands, `Gathered` what a publisher has by where it stands, which needs
  that files do not go away; that builds write report files only (`ReportsAre`) keeps both apart.
  `PublicationIsOneBuild` is about `OrderlySpec`; its invariant `OInv` says that while a publisher is at
  work the reports on disk are of one build that has read the run, that what it has read and copied
  so far is that build's, and that what is published is of one build and stays so.

The invariants `HInv`, `GInv`, `Progress`, `TInv`, `AInv`, `OInv` and `CInv` were checked by TLC, as
invariants of the runs above, before they were proved.

What attempts to prove showed of the models: the guards of `Verdict`'s `CASE` overlapped (an answer
with a failing status and events met two of them), which TLC resolves by their order and TLA+ does not,
so it is an `IF` now. That the same pair of runs has mirrored quality intervals is not free: it
holds because the resampling takes its seed from the first run's scenario and all scenarios of the
repository have the same one. With different seeds a claim could depend on the order.

Assumptions: `External` is a subset of `Providers`; routes are sequences of providers;
timeouts are positive and at most the deadline (`deadline_covers_each_timeout`);
`fallback.on` names only eligible classes (`AllowedFallbackError`); the horizon leaves room
for the deadline and the lag; `Denied`, `NoHint` and the like are not values of the
sets they are added to. A command's part of the fault table has a case at least, and its ports are
real ones (drawn from 20000 on). A measured run has a repeat at least, its counts are naturals, and
the quality intervals of a pair named both ways mirror each other. TLC evaluates all of them in the runs.

Type correctness is proved where a later proof needs it (`RoutingTypeCorrect`, `TypeCorrect`, and inside the
other modules) and not checked by runs of its own.

Every safety property of the passing runs is proved. Two caveats are the model's, not the proofs': with
more than three repeats the code's intervals are percentiles of resampled ratios and no longer the
extremes that `Costing` takes, and `PublicationIsOneBuild` assumes an order the code does not enforce.

Only model-checked: all liveness (`Termination`, `GTermination`, `CommandEnds`, and that of the contract
in `ImplementsContract`), which the prover does not reach, and the runs that show
a property violated, which are counterexamples.

## 5. What is left out

* One clock. The code measures the deadline on the wall clock and the end of an attempt on the
  monotonic one; a stepped wall clock is outside the model.
* In `Fallback` the adapters may do anything `ProviderAdapter` allows. Two consequences:
  a chunk without text that is not final is modelled, though
  the repository's adapters do not yield one; and a stream that ends without any chunk is
  modelled but left out of `HeaderTellsServer` by name, for its header is the primary's whoever
  served, which `StreamWellFormed` says the repository's adapters never let happen.
* In `Adapter` the requests that are built, finish reasons, `Retry-After`, and what the SDK does with
  a stream that is dropped without being closed.
* In `FaultEvidence` the elapsed time of the timeout case (under 600 ms) and the clients that are not
  closed when a case raises: the process ends.
* In `Comparison` latencies, the Markdown file, `comparison.json` files put in place by hand, and torn
  files, which are the subject of `Evidence`. In `Costing` the rates one by one, costs per request
  and per token, the scenario grid (a pure table of products and quotients) and the size of
  the bootstrap's sample.
* SLO cells, quality scores, datasets, generators and evaluators: functions over texts and numbers
  without state, which a model would only repeat.
* Loading configuration and start-up: sequential checks of input. The cloud scripts: their order is a
  straight line of shell commands, whose failures the shell itself handles by stopping.
* The mock provider's own use of `STREAM_STARTED_FAILURE`: behind a chunk it is
  mapped to the same class by the executor.
* Shutdown of the server while a request is being primed: a non-streaming request, and the
  priming of a stream, are cancelled by nothing else.
* The fraction of `Retry-After` that `int()` cuts off, latency histograms, the access log, the
  health and metrics endpoints.
* In `LoadRun`, what a record holds; in `Evidence`, what the numbers of a report are. An
  interrupt while the client is being closed, and a second interrupt.

## 6. Where the repository says something else

Three runs show a statement of the repository that the code does not meet:

1. `_record_attempt_history` promises to attribute every fallback transition; a stream served by
   a fallback provider and cut off is counted without the transition that its own
   `X-Gateway-Fallback-Count` told (`gateway_transitions`).
2. The status page says that reports with provider-identity mismatches are rejected for publishable
   runs; `build_report` raises behind its last write, and the artifacts it leaves are published
   like any others (`evidence_accepted`).
3. The runbook has the operator give the measured hours to the report command and then run `compare`,
   which "refreshes both summaries"; the refresh takes the hours from the environment of the compare
   command, so that without the variable a finished report falls back to the request span
   (`comparison_measured`).

What else the modelling met, with no run of its own:

* `stream()`'s docstring promises one log record per attempt; a cancelled attempt, and one that ends
  with an exception other than `ProviderError`, have none.
* A provider that delivered its final chunk in time is reported with `STREAM_STARTED_FAILURE` when its
  consumer held the generator past the attempt's budget.
* A stream that an adapter's unexpected exception cuts off under its client's eyes is counted as
  `outcome="success"`.
* The body of a refusal is read for nothing and can cost the refusal: where it is lost a 401, which no
  other provider is asked to make good, is a timeout, for which one is.
* A final chunk behind which its client leaves is never billed.
* The publisher does not look at `completed_at`; the comparison does.
* `openai_compat.py` says "Never exposes upstream errors unnormalized"; a negative count, a content
  that is not text and an exception that is not httpx's leave it as they are, and an error object in a
  stream is passed over.
* Requests that told no usage are free in `aggregate_managed`, and no gate asks for them.
* The intervals a claim rests on are taken from request spans even where the stated costs are of
  measured hours, so that a claim may name a winner whose stated cost is the higher one.
* The README and the technical specification ask for 200 responses in each repeat; the comparison
  counts those of all repeats together.
* The comparison takes any location but the very local default and any network path; the publisher also
  refuses blanks and other spellings.

## 7. Plan

Done: (1) `Policy`, `Routing`; (2) `FallbackContract`, `Fallback`; (3) `Gateway` composing them;
(4) `LoadRun` and `Evidence`; (5) `Upstream` and `Adapter`; (6) `FaultMock` and `FaultEvidence`;
(7) `Manifest`, `Costing` and `Comparison`; with the proofs of section 4.

(8) the executor's history; (9) the gateway's accounting; (10) `PublishedIsOneBuild`,
`FirstFailureDecides`, the fault evidence and the comparison, all proved.

Next, to prove:

11. An abstract load (repeats in order, at most `concurrency` at a time, all records or none) that
    `LoadRun` implements, step by step.
12. An abstract publication (absent or one of the builds) that `Evidence` under `OrderlySpec` implements.

To model, if anything: the sections of a report that are only copied here (SLO cells), and the
spend guards of the cloud scripts.
