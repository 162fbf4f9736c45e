------------------------------- MODULE Fallback -------------------------------
(***************************************************************************)
(* FallbackExecutor (routing/fallback.py): one request run against the     *)
(* providers of its route, as chat() or as the stream() generator.         *)
(*                                                                         *)
(* The executor is a coroutine; a step of the module is what it does from  *)
(* one suspension to the next, or a part of that at which nothing else can *)
(* happen.  Time is counted in ticks from the creation of the request      *)
(* context and passes only while the coroutine is suspended: in the call   *)
(* of an adapter ("await"), in asyncio.sleep ("sleep"), at its own yield   *)
(* ("emit") and in the aclose of an adapter's iterator ("close").          *)
(* Adapters are the environment; so is the consumer of the stream.         *)
(***************************************************************************)
EXTENDS Naturals, Sequences, FiniteSets

CONSTANTS
  Providers,      \* provider names
  External,       \* RoutingProviderConfig.external
  Decisions,      \* the route decisions a request may come with
  NeverCross,     \* FallbackConfig.never_cross_data_policy
  MaxAttempts,    \* FallbackConfig.max_attempts
  FallbackOn,     \* FallbackConfig.on
  HeaderTimeout,  \* TimeoutConfig.response_header_timeout, in ticks
  IdleTimeout,    \* TimeoutConfig.stream_idle_timeout
  AttemptTimeout, \* TimeoutConfig.per_attempt_timeout
  Deadline,       \* TimeoutConfig.global_request_deadline
  Hints,          \* bound: the Retry-After values adapters report
  NoHint,         \* retry_after_seconds is None
  MaxChunks,      \* bound: the chunks one request streams
  Lag,            \* bound: how late the event loop may run a due timer
  Horizon         \* bound: the last tick of the clock

\* The classes an adapter raises (models/errors.py normalize_http_error and the
\* adapters' own TIMEOUT and MALFORMED_RESPONSE).
AdapterErrors ==
  {"invalid_request", "auth", "rate_limited", "timeout", "provider_5xx",
   "malformed_response"}

\* Those whose _ELIGIBILITY entry allows fallback.
Eligible == {"rate_limited", "timeout", "provider_5xx"}

\* A decision: the route of its rule, and the positions of it that are kept.
IsDecision(d) ==
  /\ d.route \in Seq(Providers)
  /\ d.kept \in SUBSET DOMAIN d.route

ASSUME ProviderAssumption == External \subseteq Providers
ASSUME DecisionAssumption == \A d \in Decisions : IsDecision(d)
ASSUME PolicyAssumption ==
  /\ NeverCross \in BOOLEAN
  /\ MaxAttempts \in Nat \ {0}
  /\ FallbackOn \subseteq Eligible
ASSUME TimeoutAssumption ==
  /\ Deadline \in Nat \ {0}
  /\ {HeaderTimeout, IdleTimeout, AttemptTimeout} \subseteq 1..Deadline
ASSUME HintAssumption == Hints \subseteq Nat /\ \A h \in Hints : h # NoHint
ASSUME BoundAssumption ==
  /\ MaxChunks \in Nat
  /\ Lag \in Nat
  /\ Horizon \in Nat
  /\ Deadline + Lag <= Horizon

VARIABLES
  request,    \* [stream, restricted, route, kept]: fixed for the run
  now,        \* the clock
  pc,         \* where the coroutine stands
  index,      \* the number of attempts begun
  pos,        \* the position in the route of the current attempt
  started,    \* whether the current attempt has yielded a chunk
  fault,      \* how the current attempt ended: [class, hint]
  timer,      \* when the asyncio.timeout around the adapter call expires
  attemptEnd, \* attempt_deadline of stream()
  wake,       \* when the Retry-After sleep ends
  iterator,   \* whether an adapter iterator or call is open
  attempts,   \* the attempt log: [pos, class, hint] and, as history, its time
  outcome,    \* "running", "success", the class raised, or how it was cut short
  calls,      \* history: [pos, at] of every adapter call
  chunks      \* history: [pos, final] of every chunk yielded

control == <<pc, index, pos, started, fault>>
clocks == <<timer, attemptEnd, wake>>
history == <<attempts, outcome, calls, chunks>>
vars == <<request, now, control, clocks, iterator, history>>

------------------------------------------------------------------------------
\* Helpers of the executor.

Least(a, b) == IF a <= b THEN a ELSE b

\* _remaining_seconds, where what matters is whether any is left.
Remaining == IF now < Deadline THEN Deadline - now ELSE 0

\* Mutant of Permitted: the executor trusts the decision.
PermittedByDecision(p) == p \in request.kept

\* _permitted_providers: external providers are stripped for restricted data...
Permitted(p) ==
  /\ p \in request.kept
  /\ ~(NeverCross /\ request.restricted /\ request.route[p] \in External)

\* Mutant of Following: the provider that failed is tried again.
FollowingAgain == {p \in request.kept : Permitted(p) /\ p >= pos}

\* ... and the first max_attempts of what is left are tried, in route order.
Following == {p \in request.kept : Permitted(p) /\ p > pos}

HasNext == index < MaxAttempts /\ Following # {}

IsNext(p) == p \in Following /\ \A q \in Following : p <= q

FallbackEligible(class) == class \in Eligible /\ class \in FallbackOn

NoFault == [class |-> "none", hint |-> NoHint]
Fault(c) == [class |-> c, hint |-> NoHint]
Faults == [class : AdapterErrors \cup {"none", "cancelled", "crashed"},
           hint : Hints \cup {NoHint}]

\* Mutant of Delay: the hint is cut to one tick.
DelayOfOneTick(hint) == Least(hint, 1)

\* _wait_for_retry_after: the delay, and whether time is left behind it.
Delay(hint) == Least(hint, Remaining)

\* Mutant of LeavesTime: sleeping up to the deadline is allowed.
LeavesNoTime(hint) == Remaining - Delay(hint) >= 0

LeavesTime(hint) == Remaining - Delay(hint) > 0

\* An AttemptOutcome is appended to the log; class "none" is a success.
Log(f) ==
  attempts' = Append(attempts,
                     [pos |-> pos, class |-> f.class, hint |-> f.hint, at |-> now])

Finish(result) == pc' = "end" /\ outcome' = result

\* The budget of one anext: response header timeout before the first chunk of
\* the attempt, idle timeout after it, capped by the deadline and the attempt.
StreamBudget(idle, end) ==
  Least(idle, Least(Remaining, IF now < end THEN end - now ELSE 0))

------------------------------------------------------------------------------
Requests ==
  {r \in [stream : BOOLEAN, restricted : BOOLEAN,
          route : {d.route : d \in Decisions}, kept : {d.kept : d \in Decisions}] :
     [route |-> r.route, kept |-> r.kept] \in Decisions}

\* No attempt has begun.
Idle ==
  /\ now = 0
  /\ pc = "loop" /\ index = 0 /\ pos = 0 /\ started = FALSE /\ fault = NoFault
  /\ timer = 0 /\ attemptEnd = 0 /\ wake = 0
  /\ iterator = FALSE
  /\ attempts = <<>> /\ outcome = "running" /\ calls = <<>> /\ chunks = <<>>

Init == request \in Requests /\ Idle

\* The head of the for loop, providers left and time left: the next adapter is
\* called, with its budget.
BeginAttempt ==
  /\ pc = "loop"
  /\ HasNext
  /\ now < Deadline
  /\ \E p \in Following :
       /\ IsNext(p)
       /\ pos' = p
       /\ calls' = Append(calls, [pos |-> p, at |-> now])
  /\ index' = index + 1
  /\ started' = FALSE
  /\ fault' = NoFault
  /\ attemptEnd' = now + AttemptTimeout
  /\ timer' = now + IF request.stream
                    THEN StreamBudget(HeaderTimeout, now + AttemptTimeout)
                    ELSE Least(AttemptTimeout, Remaining)
  /\ iterator' = TRUE
  /\ pc' = "await"
  /\ UNCHANGED <<request, now, wake, attempts, outcome, chunks>>

\* The head of the loop with the deadline passed, or the loop exhausted: the
\* deadline error is raised with the attempts made so far.
DeadlineError ==
  /\ pc = "loop"
  /\ ~HasNext \/ now >= Deadline
  /\ Finish("timeout")
  /\ UNCHANGED <<request, now, index, pos, started, fault, clocks, iterator,
                 attempts, calls, chunks>>

\* The adapter call ends: chat() is done with it, stream() closes the iterator.
AttemptOver(f) ==
  /\ fault' = f
  /\ IF request.stream
     THEN pc' = "close" /\ UNCHANGED <<iterator, outcome>>
     ELSE /\ iterator' = FALSE
          /\ IF f.class \in {"cancelled", "crashed"}
             THEN Finish(f.class)
             ELSE pc' = "judge" /\ UNCHANGED outcome

\* chat: the adapter returns a result.
Answer ==
  /\ pc = "await" /\ ~request.stream
  /\ Log(NoFault)
  /\ iterator' = FALSE
  /\ Finish("success")
  /\ UNCHANGED <<request, now, index, pos, started, fault, clocks, calls, chunks>>

\* An adapter returns right behind its final chunk: it neither yields nor raises
\* nor waits any more.
FinalSent == \E i \in DOMAIN chunks : chunks[i].final

\* stream: the adapter yields a chunk, and the generator yields it in turn.
Chunk(final) ==
  /\ pc = "await" /\ request.stream
  /\ Len(chunks) < MaxChunks
  /\ ~FinalSent
  /\ started' = TRUE
  /\ chunks' = Append(chunks, [pos |-> pos, final |-> final])
  /\ pc' = "emit"
  /\ UNCHANGED <<request, now, index, pos, fault, clocks, iterator, attempts,
                 outcome, calls>>

\* stream: the adapter's iterator is exhausted; the attempt is a success.
Exhausted ==
  /\ pc = "await" /\ request.stream
  /\ Log(NoFault)
  /\ AttemptOver(NoFault)
  /\ UNCHANGED <<request, now, index, pos, started, clocks, calls, chunks>>

\* The adapter raises a normalized ProviderError.
ProviderFails(f) ==
  /\ pc = "await"
  /\ ~FinalSent
  /\ AttemptOver(f)
  /\ UNCHANGED <<request, now, index, pos, started, clocks, attempts, calls,
                 chunks>>

\* The adapter raises anything else, such as a ValidationError of the result
\* models: the executor does not catch it.
AdapterCrashes ==
  /\ pc = "await"
  /\ ~FinalSent
  /\ AttemptOver(Fault("crashed"))
  /\ UNCHANGED <<request, now, index, pos, started, clocks, attempts, calls,
                 chunks>>

\* Mutant of TimerFires: only the response header timeout is enforced.
TimerFiresBeforeOutput ==
  /\ pc = "await"
  /\ ~started
  /\ now >= timer
  /\ AttemptOver(Fault("timeout"))
  /\ UNCHANGED <<request, now, index, pos, started, clocks, attempts, calls,
                 chunks>>

\* asyncio.timeout expires; an answer may be there and lose the race.
TimerFires ==
  /\ pc = "await"
  /\ ~FinalSent
  /\ now >= timer
  /\ AttemptOver(Fault("timeout"))
  /\ UNCHANGED <<request, now, index, pos, started, clocks, attempts, calls,
                 chunks>>

\* stream: the consumer asks for the next item; the budget is taken anew.
Resume ==
  /\ pc = "emit"
  /\ LET budget == StreamBudget(IdleTimeout, attemptEnd) IN
     IF budget = 0
     THEN fault' = Fault("timeout") /\ pc' = "close" /\ UNCHANGED timer
     ELSE timer' = now + budget /\ pc' = "await" /\ UNCHANGED fault
  /\ UNCHANGED <<request, now, index, pos, started, attemptEnd, wake, iterator,
                 history>>

\* Mutant of Cancel: a cancelled executor forgets the iterator it holds.
CancelWithoutClosing ==
  /\ pc \in {"await", "emit", "sleep", "close"}
  /\ Finish("cancelled")
  /\ UNCHANGED <<request, now, index, pos, started, fault, clocks, iterator,
                 attempts, calls, chunks>>

\* The consumer goes away: CancelledError at an await, GeneratorExit at the
\* yield of stream().  The finally clause still closes the iterator.
Cancel ==
  /\ \/ /\ pc \in {"await", "emit"}
        /\ AttemptOver(Fault("cancelled"))
     \/ /\ pc \in {"sleep", "close"}
        /\ iterator' = FALSE
        /\ Finish("cancelled")
        /\ UNCHANGED fault
  /\ UNCHANGED <<request, now, index, pos, started, clocks, attempts, calls,
                 chunks>>

\* stream: aclose returns; what ended the attempt decides how to go on.
Close ==
  /\ pc = "close"
  /\ iterator' = FALSE
  /\ CASE fault.class = "none" -> Finish("success")
       [] fault.class \in {"cancelled", "crashed"} -> Finish(fault.class)
       [] OTHER -> pc' = "judge" /\ UNCHANGED outcome
  /\ UNCHANGED <<request, now, index, pos, started, fault, clocks, attempts,
                 calls, chunks>>

\* Mutant of MustRaise: a failure after output is retried on the next provider.
MustRaiseUnlessReplayable ==
  \/ ~HasNext
  \/ ~FallbackEligible(fault.class)
  \/ fault.hint # NoHint /\ ~LeavesTime(fault.hint)

\* Mutant of MustRaise: any error class falls back.
MustRaiseUnlessLast ==
  \/ started
  \/ ~HasNext
  \/ fault.hint # NoHint /\ ~LeavesTime(fault.hint)

\* A failed attempt is the end of the request behind output, on the last
\* provider, for a class that is not to fall back, and when the Retry-After
\* delay would use up the time left.
MustRaise ==
  \/ started
  \/ ~HasNext
  \/ ~FallbackEligible(fault.class)
  \/ fault.hint # NoHint /\ ~LeavesTime(fault.hint)

\* Mutant of RaisedClass: the provider's own class is raised behind output.
RaisedClassOfFault == fault.class

RaisedClass == IF started THEN "stream_started_failure" ELSE fault.class

\* A failed attempt is logged; then it is raised, or the next provider tried,
\* at once or after the Retry-After delay.
Judge ==
  /\ pc = "judge"
  /\ Log(fault)
  /\ IF MustRaise
     THEN Finish(RaisedClass) /\ UNCHANGED wake
     ELSE /\ UNCHANGED outcome
          /\ IF fault.hint = NoHint
             THEN pc' = "loop" /\ UNCHANGED wake
             ELSE pc' = "sleep" /\ wake' = now + Delay(fault.hint)
  /\ UNCHANGED <<request, now, index, pos, started, fault, timer, attemptEnd,
                 iterator, calls, chunks>>

Wake ==
  /\ pc = "sleep"
  /\ now >= wake
  /\ pc' = "loop"
  /\ UNCHANGED <<request, now, index, pos, started, fault, clocks, iterator,
                 history>>

\* Time passes while the coroutine is suspended.  A due timer is run at most Lag
\* ticks late; nothing bounds how long the consumer holds the generator at its
\* yield or how long aclose takes.
Tick ==
  /\ \/ pc = "await" /\ ~FinalSent /\ now < timer + Lag
     \/ pc = "sleep" /\ now < wake + Lag
     \/ pc \in {"emit", "close"} /\ now < Horizon
  /\ now' = now + 1
  /\ UNCHANGED <<request, control, clocks, iterator, history>>

AdapterActs ==
  \/ Answer
  \/ \E final \in BOOLEAN : Chunk(final)
  \/ Exhausted
  \/ \E c \in AdapterErrors, h \in Hints \cup {NoHint} :
       ProviderFails([class |-> c, hint |-> h])
  \/ AdapterCrashes

Executor ==
  BeginAttempt \/ DeadlineError \/ TimerFires \/ Close \/ Judge \/ Wake

Ended == pc = "end" /\ UNCHANGED vars

Next == Executor \/ AdapterActs \/ Resume \/ Cancel \/ Tick \/ Ended

Spec == Init /\ [][Next]_vars

\* What runs for sure: the event loop runs the coroutine, its timers and the
\* clock; the server goes on reading the generator (or cancels it); aclose of an
\* adapter returns.  Nothing is assumed of the adapters' answers, except that
\* behind its final chunk an adapter's iterator is exhausted at once.
Fairness ==
  /\ WF_vars(Tick)
  /\ WF_vars(BeginAttempt) /\ WF_vars(DeadlineError) /\ WF_vars(TimerFires)
  /\ WF_vars(Close) /\ WF_vars(Judge) /\ WF_vars(Wake)
  /\ WF_vars(Resume)
  /\ WF_vars(FinalSent /\ Exhausted)

FairSpec == Spec /\ Fairness

------------------------------------------------------------------------------
Outcomes ==
  AdapterErrors \cup
  {"running", "success", "stream_started_failure", "cancelled", "crashed"}

\* Types of the executor's state.
TypeOK ==
  /\ request \in Requests
  /\ now \in 0..Horizon
  /\ pc \in {"loop", "await", "emit", "close", "judge", "sleep", "end"}
  /\ index \in 0..MaxAttempts
  /\ pos \in Nat
  /\ started \in BOOLEAN
  /\ fault \in Faults
  /\ timer \in Nat /\ attemptEnd \in Nat /\ wake \in Nat
  /\ iterator \in BOOLEAN
  /\ attempts \in Seq([pos : Nat, class : AdapterErrors \cup {"none"},
                       hint : Hints \cup {NoHint}, at : Nat])
  /\ outcome \in Outcomes
  /\ calls \in Seq([pos : Nat, at : Nat])
  /\ chunks \in Seq([pos : Nat, final : BOOLEAN])

\* Restricted data never reaches an external provider, even when the decision
\* is mis-built (fallback.py module docstring; _permitted_providers).  The
\* policy must not have switched the executor's own stripping off.
RestrictedStaysPrivate ==
  NeverCross /\ request.restricted =>
    \A i \in DOMAIN calls : request.route[calls[i].pos] \notin External

\* No silent replay: once a chunk has been yielded no provider is called again.
NoReplayAfterOutput == [][chunks # <<>> => calls' = calls]_vars

\* The caller can tell a failure behind partial output from one before any: the
\* former is always raised as STREAM_STARTED_FAILURE, the latter never, and all
\* the output it holds is of one provider, the last one called.
PartialOutputIsTold ==
  /\ outcome \in AdapterErrors => chunks = <<>>
  /\ outcome = "stream_started_failure" => chunks # <<>>
  /\ \A i \in DOMAIN chunks : chunks[i].pos = calls[Len(calls)].pos

\* The providers called are the first permitted ones of the route, in order,
\* each once, and at most max_attempts of them.
AttemptsFollowRoute ==
  /\ Len(calls) <= MaxAttempts
  /\ \A i, j \in DOMAIN calls : i < j => calls[i].pos < calls[j].pos
  /\ \A i \in DOMAIN calls : \A p \in request.kept :
       Permitted(p) /\ p <= calls[i].pos => \E j \in 1..i : calls[j].pos = p

\* The global deadline spans all attempts (TECHNICAL_SPEC 8.7): none begins
\* behind it, none is given time behind it or more than its own timeout, and a
\* Retry-After sleep ends while time is left for another attempt.
DeadlineSpansAttempts ==
  /\ \A i \in DOMAIN calls : calls[i].at < Deadline
  /\ pc = "await" =>
       /\ timer <= Deadline
       /\ timer <= calls[Len(calls)].at + AttemptTimeout
  /\ pc = "sleep" => wake < Deadline

\* Respect Retry-After for future attempts (TECHNICAL_SPEC 8.4): the provider
\* called after a failure with a hint is called no sooner than the hint says.
RetryAfterRespected ==
  \A i \in DOMAIN attempts :
    attempts[i].hint # NoHint /\ i + 1 \in DOMAIN calls =>
      calls[i + 1].at >= attempts[i].at + attempts[i].hint

\* The attempt log tells what happened: it lists the calls in order, at most the
\* running one missing; only an eligible failure is followed by another call;
\* and how the request ended is how its last attempt ended, except that the
\* deadline may end it between two attempts and output makes a failure partial.
LogTellsAttempts ==
  /\ Len(calls) - Len(attempts) \in {0, 1}
  /\ \A i \in DOMAIN attempts : attempts[i].pos = calls[i].pos
  /\ \A i \in DOMAIN attempts :
       i < Len(calls) => FallbackEligible(attempts[i].class)
  /\ LET last == attempts[Len(attempts)].class IN
     /\ outcome = "success" => attempts # <<>> /\ last = "none"
     /\ outcome = "stream_started_failure" => attempts # <<>> /\ last # "none"
     /\ outcome \in AdapterErrors \ {"timeout"} => attempts # <<>> /\ last = outcome
     /\ outcome \in AdapterErrors \cup {"success", "stream_started_failure"} =>
          Len(attempts) = Len(calls)

\* One upstream call at a time, and none left open: whenever the executor is not
\* in a call or closing one, cancelled or not, nothing is open.
AdapterReleased == iterator => pc \in {"await", "emit", "close"}

\* Every request ends, whatever the adapters do (hang, stall between chunks,
\* answer late), as long as the stream is read or cancelled.
Termination == <>(pc = "end")

------------------------------------------------------------------------------
\* The executor implements its contract.
Verdict ==
  CASE outcome = "running" -> "open"
    [] outcome = "success" -> "success"
    [] outcome \in {"cancelled", "crashed"} -> "aborted"
    [] outcome = "stream_started_failure" -> "partial"
    [] OTHER -> "failed"

Contract == INSTANCE FallbackContract
              WITH Limit <- MaxAttempts, tried <- Len(calls),
                   committed <- chunks # <<>>, verdict <- Verdict

\* Every behaviour of the executor is one FallbackContract allows.
ImplementsContract == Contract!Spec
=============================================================================
