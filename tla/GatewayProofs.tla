---------------------------- MODULE GatewayProofs ----------------------------
(***************************************************************************)
(* Proofs about the gateway.  The handler only ever lets the executor take *)
(* steps of its own, so every behaviour of the gateway is one of the       *)
(* executor, and what is proved of the executor holds inside the gateway.  *)
(* With the router's answer fixed, RouterInv, restricted requests stay     *)
(* inside for every policy document, by the router alone.                  *)
(*                                                                         *)
(* What the handler sends, writes, records and counts rests on one more    *)
(* inductive invariant, GInv, which relates the place where it stands to   *)
(* the executor's; it is inductive once IInv, HInv and RouterInv hold.     *)
(***************************************************************************)
EXTENDS Gateway, FallbackProofs, FiniteSetTheorems

LEMMA GatewayStep == [GNext]_allvars => [Next]_vars
<1> SUFFICES ASSUME [GNext]_allvars PROVE [Next]_vars
  OBVIOUS
<1>1. ASSUME NEW reason \in DOMAIN RefusalStatus, Refuse(reason)
      PROVE  UNCHANGED vars
  BY <1>1 DEF Refuse
<1>2. CASE Admit \/ Deny
  BY <1>2 DEF Admit, Deny
<1>3. CASE Answered \/ Fails \/ Crashes \/ Respond
  BY <1>3 DEF Answered, Fails, Crashes, Respond
<1>4. ASSUME NEW text \in BOOLEAN, NEW usage \in BOOLEAN,
             Start(text, usage) \/ Item(text, usage)
      PROVE  UNCHANGED vars
  BY <1>4 DEF Start, Item
<1>5. CASE Pull
  BY <1>5 DEF Pull, Next
<1>6. CASE Completes \/ Breaks \/ Closes \/ CutOff
  BY <1>6 DEF Completes, Breaks, Closes, CutOff
<1>7. CASE CancelUpstream
  BY <1>7 DEF CancelUpstream, Next
<1>8. CASE Abandon \/ Vanish
  BY <1>8 DEF Abandon, Vanish
<1>9. CASE Collect
  BY <1>9 DEF Collect, Next
<1>10. CASE ExecutorRuns
  BY <1>10 DEF ExecutorRuns, Next
<1>11. CASE Clock
  BY <1>11 DEF Clock, Next
<1>12. CASE Leave \/ GDone \/ UNCHANGED allvars
  BY <1>12 DEF Leave, GDone, allvars
<1> QED
  BY <1>1, <1>2, <1>3, <1>4, <1>5, <1>6, <1>7, <1>8, <1>9, <1>10, <1>11, <1>12
     DEF GNext, Handler

\* The gateway runs the executor as specified: no step of the handler, no
\* disconnect and no collection of a dropped generator does to the executor what
\* Fallback does not allow.
THEOREM GatewayRunsExecutor == GSpec => Spec
<1>1. GInit => Init
  BY DEF GInit, Init
<1> QED BY <1>1, GatewayStep, PTL DEF GSpec, Spec

\* So the invariant of the executor holds inside the gateway.
LEMMA ExecutorInvariant == GSpec => []IInv
BY GatewayRunsExecutor, Invariant, PTL

\* No silent replay, inside the gateway: a client holding output of one provider
\* never gets output of another (routes.py drives the executor's generator).
THEOREM GatewayNeverReplays == GSpec => NoReplayAfterOutput
BY GatewayRunsExecutor, NoReplay, PTL

------------------------------------------------------------------------------
\* The executor's argument is the router's answer, and a denied request never
\* reaches the executor.
RouterInv ==
  /\ Routed =>
       /\ request.restricted = (asked.meta.dataClass = Restricted)
       /\ request.route = asked.policy[Decision.rule].route
       /\ request.kept = Decision.kept
  /\ ~Routed => stage \in {"admit", "done"} /\ calls = <<>>

\* What the router keeps for a restricted request is private.
LEMMA RouterKeepsPrivate ==
  ASSUME Routed, asked.meta.dataClass = Restricted
  PROVE  \A p \in Decision.kept :
           asked.policy[Decision.rule].route[p] \notin External
<1> DEFINE matching == Router!MatchingRules(asked.policy, asked.meta)
           r == CHOOSE i \in matching : Router!IsFirst(i, matching)
           kept == Router!KeptPositions(asked.policy[r].route, asked.meta.dataClass)
<1>1. Decision = Router!Decide(r, kept)
  BY DEF Routed, Decision, Router!SelectRoute
<1>2. Decision = [rule |-> r, kept |-> kept]
  BY <1>1 DEF Routed, Router!Decide
<1>3. \A p \in kept : asked.policy[r].route[p] \notin External
  BY DEF Router!KeptPositions, Router!PrivatePositions
<1> QED BY <1>2, <1>3

LEMMA RequestFixed == [Next]_vars => request' = request
BY DEF Next, vars, control, clocks, history, Executor, BeginAttempt, DeadlineError,
       TimerFires, Close, Judge, Wake, AdapterActs, Answer, Chunk, Exhausted,
       ProviderFails, AdapterCrashes, Resume, Cancel, Tick, Ended

LEMMA AskedFixed == [GNext]_allvars => asked' = asked
BY DEF GNext, allvars, gvars, Handler, Refuse, Admit, Deny, Answered, Fails, Crashes,
       Respond, Start, Item, Pull, Completes, Breaks, Closes, CutOff,
       CancelUpstream, Abandon, Vanish, Collect, ExecutorRuns, Clock, Leave, GDone

\* A request the router denies is only refused, or denied.
LEMMA DeniedStays ==
  ASSUME ~Routed, stage \in {"admit", "done"}, calls = <<>>, [GNext]_allvars
  PROVE  stage' \in {"admit", "done"} /\ calls' = <<>>
<1>1. ASSUME NEW reason \in DOMAIN RefusalStatus, Refuse(reason)
      PROVE  stage' = "done" /\ calls' = calls
  BY <1>1 DEF Refuse, vars, history
<1>2. CASE Deny
  BY <1>2 DEF Deny, vars, history
<1>3. CASE Clock
  BY <1>3 DEF Clock, Tick, gvars, history
<1>4. CASE GDone \/ UNCHANGED allvars
  BY <1>4 DEF GDone, allvars, gvars, vars, history
<1>5. ~Admit /\ ~Answered /\ ~Fails /\ ~Crashes /\ ~Respond
  BY DEF Admit, Answered, Fails, Crashes, Respond
<1>6. \A text, usage \in BOOLEAN : ~Start(text, usage) /\ ~Item(text, usage)
  BY DEF Start, Item
<1>7. ~Pull /\ ~Completes /\ ~Breaks /\ ~Closes /\ ~CutOff
  BY DEF Pull, Completes, Breaks, Closes, CutOff
<1>8. ~CancelUpstream /\ ~Abandon /\ ~Vanish /\ ~Collect /\ ~ExecutorRuns /\ ~Leave
  BY DEF CancelUpstream, Abandon, Vanish, Collect, ExecutorRuns, Leave
<1> QED
  BY <1>1, <1>2, <1>3, <1>4, <1>5, <1>6, <1>7, <1>8 DEF GNext, Handler

LEMMA RouterInvHolds == GSpec => []RouterInv
<1>1. GInit => RouterInv
  BY DEF GInit, RouterInv, Idle
<1>2. RouterInv /\ [GNext]_allvars => RouterInv'
  <2> SUFFICES ASSUME RouterInv, [GNext]_allvars PROVE RouterInv'
    OBVIOUS
  <2>1. asked' = asked /\ request' = request
    BY AskedFixed, RequestFixed, GatewayStep
  <2>2. Decision' = Decision /\ (Routed <=> Routed')
    BY <2>1 DEF Decision, Routed
  <2>3. CASE Routed
    BY <2>1, <2>2, <2>3 DEF RouterInv
  <2>4. CASE ~Routed
    BY <2>2, <2>4, DeniedStays DEF RouterInv
  <2> QED BY <2>3, <2>4
<1> QED BY <1>1, <1>2, PTL DEF GSpec

\* Restricted requests stay inside by the router alone: for every set of policy
\* documents, validated or not, and whatever the executor's own policy says.
THEOREM RestrictedInside == GSpec => []RestrictedStaysInside
<1>1. IInv /\ RouterInv => RestrictedStaysInside
  <2> SUFFICES ASSUME IInv, RouterInv, asked.meta.dataClass = Restricted,
                      NEW i \in DOMAIN calls
               PROVE  request.route[calls[i].pos] \notin External
    BY DEF RestrictedStaysInside
  <2>1. Routed
    BY DEF RouterInv
  <2>2. calls[i].pos \in request.kept
    BY DEF IInv, CallState, Permitted
  <2> QED BY <2>1, <2>2, RouterKeepsPrivate DEF RouterInv
<1> QED BY <1>1, ExecutorInvariant, RouterInvHolds, PTL

------------------------------------------------------------------------------
Events == {"answer", "text", "final", "done", "error"}

HasWritten(event) == \E i \in DOMAIN written : written[i] = event

\* What the handler relies on of the executor.
Handover ==
  /\ \A i \in DOMAIN chunks : chunks[i].final => i = Len(chunks)
  /\ pc = "emit" => chunks # <<>>
  /\ calls = <<>> => pc = "loop" /\ now = 0

\* Where the handler stands, against where the executor does.
StageState ==
  /\ stage \in {"admit", "serve", "respond", "sent", "skip", "last", "leaving", "done"}
  /\ stage = "admit" => calls = <<>> /\ chunks = <<>>
  /\ stage = "serve" /\ status = 0 /\ chunks # <<>> => pc = "emit"
  /\ stage = "respond" =>
       pc = "emit" \/ (pc = "end" /\ outcome = "success" /\ chunks = <<>>)
  /\ stage \in {"sent", "skip"} => pc = "emit"
  /\ stage = "last" => pc = "end"
  /\ stage = "leaving" => client = "gone"
  /\ stage = "done" => pc = "end" \/ calls = <<>>

\* What has been sent, against the output.
HeadState ==
  /\ stage \in {"admit", "respond"} => status = 0
  /\ stage \in {"sent", "skip", "last"} => status = 200
  /\ stage # "done" => status \in {0, 200}
  /\ status = 200 \/ stage = "respond" => request.stream \/ stage = "done"
  /\ status \notin {0, 200} => chunks = <<>>
  /\ status = 200 => chunks # <<>> \/ (pc = "end" /\ outcome = "success")
  /\ status # 200 => written = <<>> /\ billed = <<>>
  /\ header # NoHeader => chunks # <<>> \/ pc = "end"
  /\ HeaderTellsServer

\* What has been written, against the output and the executor's end.
BodyState ==
  /\ written \in Seq(Events)
  /\ \A i \in DOMAIN written : written[i] \in {"done", "error"} =>
       i = Len(written) /\ stage \in {"last", "done"}
  /\ \A i, j \in DOMAIN written : written[i] = "final" /\ i < j => written[j] # "text"
  /\ HasWritten("final") => FinalSent
  /\ HasWritten("final") /\ pc = "emit" => stage \in {"sent", "leaving"}
  /\ FinalSent /\ stage \notin {"leaving", "done"} =>
       HasWritten("final") \/ (pc = "emit" /\ stage \in {"serve", "respond"})
  /\ stage = "last" => LastWritten \in {"done", "error"}
  /\ LastWritten = "done" => outcome = "success" /\ (FinalSent => HasWritten("final"))
  /\ LastWritten = "error" => outcome \in ErrorClasses
  /\ Witnessed /\ status = 200 => LastWritten \in {"answer", "done", "error"}

\* What has been recorded as used, against what has been written.
UsageState ==
  /\ due \in BOOLEAN
  /\ billed \in {<<>>, <<Server>>}
  /\ billed # <<>> /\ request.stream => HasWritten("final")
  /\ billed # <<>> /\ stage # "done" => stage \in {"serve", "last"} /\ HasWritten("final")
  /\ due => HasWritten("final")
  /\ due /\ stage # "sent" => billed # <<>> \/ client = "gone"

\* What has been counted.
MetricState ==
  /\ stage \notin {"leaving", "done"} =>
       counted = <<>> /\ errors = EmptyBag /\ fallbacks = EmptyBag
  /\ CountedTruthfully
  /\ FailuresAttributed

GInv == Handover /\ StageState /\ HeadState /\ BodyState /\ UsageState /\ MetricState

------------------------------------------------------------------------------
\* What a request the router does not deny leaves the executor: positions to try.
LEMMA RoutedIsPermitted ==
  ASSUME IInv, RouterInv, Routed
  PROVE  /\ request.kept # {}
         /\ \A p \in request.kept : Permitted(p)
<1> DEFINE matching == Router!MatchingRules(asked.policy, asked.meta)
           r == CHOOSE i \in matching : Router!IsFirst(i, matching)
           kept == Router!KeptPositions(asked.policy[r].route, asked.meta.dataClass)
<1>1. Decision = Router!Decide(r, kept)
  BY DEF Routed, Decision, Router!SelectRoute
<1>2. kept # {} /\ Decision = [rule |-> r, kept |-> kept]
  BY <1>1 DEF Routed, Router!Decide
<1>3. request.kept # {}
  BY <1>2 DEF RouterInv
<1>4. request.restricted =>
        \A p \in Decision.kept : request.route[p] \notin External
  BY RouterKeepsPrivate DEF RouterInv
<1> QED BY <1>3, <1>4 DEF Permitted, RouterInv

\* The executor runs: it neither stands at an item nor has it ended, it hands over
\* one item at most, none behind a final one, and calls no provider behind one.
LEMMA RunEffect ==
  ASSUME IInv, Executor \/ AdapterActs
  PROVE  /\ pc \notin {"emit", "end"}
         /\ \/ chunks' = chunks /\ pc' # "emit"
            \/ /\ ~FinalSent /\ pc' = "emit" /\ chunks' # <<>>
               /\ \E final \in BOOLEAN :
                    chunks' = Append(chunks, [pos |-> pos, final |-> final])
         /\ chunks # <<>> => calls' = calls
         /\ calls' = calls \/ calls' # <<>>
<1>1. CASE BeginAttempt
  <2>1. chunks = <<>>
    BY <1>1 DEF BeginAttempt, IInv, OutputState
  <2>2. calls' # <<>>
    BY <1>1, BeginAttemptStep DEF BeginAttempt, IInv, TypeOK, CallState
  <2> QED BY <1>1, <2>1, <2>2 DEF BeginAttempt
<1>2. CASE DeadlineError \/ Close \/ Judge \/ Wake
  BY <1>2 DEF DeadlineError, Close, Judge, Wake, Finish, history
<1>3. ASSUME NEW final \in BOOLEAN, Chunk(final)
      PROVE  /\ pc = "await" /\ ~FinalSent /\ pc' = "emit" /\ calls' = calls
             /\ chunks' = Append(chunks, [pos |-> pos, final |-> final])
             /\ chunks' # <<>>
  <2>1. [pos |-> pos, final |-> final] \in [pos : Nat, final : BOOLEAN]
    BY DEF IInv, TypeOK
  <2>2. chunks \in Seq([pos : Nat, final : BOOLEAN])
    BY DEF IInv, TypeOK
  <2>3. Append(chunks, [pos |-> pos, final |-> final]) # <<>>
    BY <2>1, <2>2, AppendFacts
  <2> QED BY <1>3, <2>3 DEF Chunk
<1>4. CASE TimerFires \/ Answer \/ Exhausted \/ AdapterCrashes
  BY <1>4 DEF TimerFires, Answer, Exhausted, AdapterCrashes, AttemptOver, Finish
<1>5. ASSUME NEW c \in AdapterErrors, NEW h \in Hints \cup {NoHint},
             ProviderFails([class |-> c, hint |-> h])
      PROVE  pc = "await" /\ chunks' = chunks /\ calls' = calls /\ pc' # "emit"
  BY <1>5 DEF ProviderFails, AttemptOver, Finish
<1> QED BY <1>1, <1>2, <1>3, <1>4, <1>5 DEF Executor, AdapterActs

\* The consumer asks for more, or goes away, or time passes: nothing is called or
\* handed over, and the executor leaves the item at which it stands.
LEMMA MoveEffect ==
  ASSUME IInv
  PROVE  /\ Resume \/ Cancel \/ Tick =>
              UNCHANGED <<request, calls, chunks>> /\ calls # <<>> /\ pc # "end"
         /\ Resume => pc = "emit" /\ pc' \in {"await", "close"}
         /\ Cancel => pc' \in {"close", "end"}
         /\ Tick => UNCHANGED <<pc, outcome>>
<1>1. ASSUME Resume
      PROVE  /\ UNCHANGED <<request, calls, chunks>> /\ calls # <<>> /\ pc # "end"
             /\ pc = "emit" /\ pc' \in {"await", "close"}
  BY <1>1 DEF Resume, history, IInv, CallState
<1>2. ASSUME Cancel
      PROVE  /\ UNCHANGED <<request, calls, chunks>> /\ calls # <<>> /\ pc # "end"
             /\ pc' \in {"close", "end"}
  BY <1>2 DEF Cancel, AttemptOver, Fault, Finish, IInv, CallState
<1>3. ASSUME Tick
      PROVE  /\ UNCHANGED <<request, calls, chunks>> /\ calls # <<>> /\ pc # "end"
             /\ UNCHANGED <<pc, outcome>>
  BY <1>3 DEF Tick, control, history, IInv, CallState
<1> QED BY <1>1, <1>2, <1>3

\* What the handler's own steps leave alone.
LEMMA HandlerEffect ==
  /\ \A reason \in DOMAIN RefusalStatus : Refuse(reason) => UNCHANGED vars
  /\ Deny \/ Admit \/ Answered \/ Fails \/ Crashes \/ Respond \/ Completes \/ Breaks
       \/ Closes \/ CutOff \/ Abandon \/ Vanish \/ Leave \/ GDone \/ UNCHANGED allvars
     => UNCHANGED vars
  /\ \A text, usage \in BOOLEAN :
       Start(text, usage) \/ Item(text, usage) => UNCHANGED vars
BY DEF Refuse, Deny, Admit, Answered, Fails, Crashes, Respond, Completes, Breaks,
       Closes, CutOff, Abandon, Vanish, Leave, GDone, allvars, Start, Item

\* Every step of the gateway is one of the handler, which leaves the executor where
\* it is, one at which the executor moves on, or one of the executor itself.
LEMMA StepKinds ==
  ASSUME [GNext]_allvars
  PROVE  \/ UNCHANGED vars
         \/ Pull \/ CancelUpstream \/ Collect \/ Clock \/ ExecutorRuns
BY HandlerEffect DEF GNext, Handler

LEMMA HandoverInit == GInit => Handover
BY DEF GInit, Idle, Handover

LEMMA HandoverStep ==
  ASSUME IInv, RouteState, RouterInv, Handover, [GNext]_allvars
  PROVE  Handover'
<1>1. CASE UNCHANGED vars
  BY <1>1 DEF Handover, vars, control, history
<1>2. CASE Pull \/ CancelUpstream \/ Collect \/ Clock
  <2>1. Resume \/ Cancel \/ Tick \/ UNCHANGED vars
    BY <1>2 DEF Pull, CancelUpstream, Collect, Clock
  <2>2. UNCHANGED vars \/
          (UNCHANGED <<calls, chunks>> /\ calls # <<>> /\ (pc' = "emit" => pc = "emit"))
    BY <2>1, MoveEffect
  <2> QED BY <1>1, <2>2 DEF Handover
<1>3. CASE ExecutorRuns
  <2>1. Executor \/ AdapterActs
    BY <1>3 DEF ExecutorRuns
  <2>2. \A i \in DOMAIN chunks' : chunks'[i].final => i = Len(chunks')
    <3>1. CASE chunks' = chunks
      BY <3>1 DEF Handover
    <3>2. ASSUME ~FinalSent, NEW final \in BOOLEAN,
                 chunks' = Append(chunks, [pos |-> pos, final |-> final])
          PROVE  \A i \in DOMAIN chunks' : chunks'[i].final => i = Len(chunks')
      BY <3>2 DEF FinalSent, IInv, TypeOK
    <3> QED BY <2>1, <3>1, <3>2, RunEffect
  <2>3. pc' = "emit" => chunks' # <<>>
    BY <2>1, RunEffect
  <2>4. calls' # <<>>
    <3>1. SUFFICES ASSUME calls = <<>> PROVE calls' # <<>>
      BY <2>1, RunEffect
    <3>2. pc = "loop" /\ now = 0 /\ index = 0 /\ pos = 0
      BY <3>1 DEF Handover, IInv, CallState, RouteState
    <3>3. Routed
      BY <1>3 DEF ExecutorRuns, RouterInv
    <3>4. PICK p \in request.kept : Permitted(p)
      BY <3>3, RoutedIsPermitted
    <3>5. p > pos
      <4>1. request \in Requests
        BY DEF IInv, TypeOK
      <4>2. p \in DOMAIN request.route /\ request.route \in Seq(Providers)
        BY <4>1, RequestType
      <4> QED BY <3>2, <4>2
    <3>6. HasNext
      BY <3>2, <3>4, <3>5, PolicyAssumption DEF HasNext, Following
    <3>7. ~(now >= Deadline)
      BY <3>2, TimeoutAssumption
    <3>8. BeginAttempt
      BY <2>1, <3>2, <3>6, <3>7
         DEF Executor, AdapterActs, DeadlineError, TimerFires, Close, Judge, Wake,
             Answer, Chunk, Exhausted, ProviderFails, AdapterCrashes
    <3> QED BY <3>8 DEF BeginAttempt, IInv, TypeOK
  <2> QED BY <2>2, <2>3, <2>4 DEF Handover
<1> QED BY <1>1, <1>2, <1>3, StepKinds

------------------------------------------------------------------------------
LEMMA StageInit == GInit => StageState
BY DEF GInit, Idle, StageState

LEMMA StageStep ==
  ASSUME IInv, Handover, StageState, HeadState, [GNext]_allvars
  PROVE  StageState'
<1> USE DEF StageState, HeadState
<1>1. ASSUME NEW reason \in DOMAIN RefusalStatus, Refuse(reason)
      PROVE  StageState'
  BY <1>1 DEF Refuse, vars, control, history
<1>2. CASE Deny \/ Admit
  BY <1>2 DEF Deny, Admit, vars, control, history, wire
<1>3. CASE Answered \/ Fails \/ Crashes \/ Closes \/ CutOff
  BY <1>3 DEF Answered, Fails, Crashes, Closes, CutOff, vars, control, history
<1>4. CASE Respond
  BY <1>4 DEF Respond, Primed, vars, control, history
<1>5. ASSUME NEW text \in BOOLEAN, NEW usage \in BOOLEAN,
             Start(text, usage) \/ Item(text, usage)
      PROVE  StageState'
  BY <1>5 DEF Start, Item, WriteItem, WriteDone, vars, control, history
<1>6. CASE Pull
  BY <1>6 DEF Pull, wire
<1>7. CASE Completes \/ Breaks
  BY <1>7 DEF Completes, Breaks, WriteDone, vars, control, history
<1>8. CASE CancelUpstream
  BY <1>8 DEF CancelUpstream, gvars, wire
<1>9. CASE Abandon \/ Vanish
  BY <1>9 DEF Abandon, Vanish, vars, control, history, wire
<1>10. CASE Collect
  BY <1>10 DEF Collect, vars, control, history, wire
<1>11. CASE ExecutorRuns
  BY <1>11, RunEffect DEF ExecutorRuns, gvars, wire
<1>12. CASE Clock
  BY <1>12, MoveEffect DEF Clock, gvars, wire
<1>13. CASE Leave \/ GDone \/ UNCHANGED allvars
  BY <1>13 DEF Leave, GDone, allvars, vars, control, history, wire, gvars
<1> QED
  BY <1>1, <1>2, <1>3, <1>4, <1>5, <1>6, <1>7, <1>8, <1>9, <1>10, <1>11, <1>12, <1>13
     DEF GNext, Handler

------------------------------------------------------------------------------
\* The executor rests where its call is over or its output is out.
LEMMA ServerStays ==
  ASSUME IInv, [GNext]_allvars, chunks # <<>> \/ pc = "end"
  PROVE  /\ calls' = calls /\ Server' = Server
         /\ chunks' # <<>> \/ pc' = "end"
         /\ pc = "end" => UNCHANGED vars
<1>1. CASE UNCHANGED vars
  BY <1>1 DEF vars, control, history, Server
<1>2. CASE Pull \/ CancelUpstream \/ Collect \/ Clock
  BY <1>1, <1>2, MoveEffect DEF Pull, CancelUpstream, Collect, Clock, Server
<1>3. CASE ExecutorRuns
  BY <1>3, RunEffect DEF ExecutorRuns, Server
<1> QED BY <1>1, <1>2, <1>3, StepKinds

\* Where the calls of the log end: at the provider that serves.
LEMMA LastCall ==
  ASSUME IInv, LogState, calls # <<>>
  PROVE  /\ Server = pos /\ index = Len(calls)
         /\ outcome \in ErrorClasses \cup {"success"} =>
              /\ attempts # <<>> /\ Len(attempts) = Len(calls)
              /\ LastPos(attempts) = Server
<1>1. Server = pos /\ index = Len(calls)
  BY DEF Server, IInv, CallState
<1>2. ASSUME outcome \in ErrorClasses \cup {"success"}
      PROVE  /\ attempts # <<>> /\ Len(attempts) = Len(calls)
             /\ LastPos(attempts) = Server
  <2>1. pc = "end"
    BY <1>2 DEF IInv, CallState, ErrorClasses, AdapterErrors
  <2>2. Len(attempts) = Len(calls)
    BY <1>2, <2>1 DEF LogState, EndState, ErrorClasses
  <2>3. Len(calls) \in DOMAIN attempts /\ attempts # <<>>
    BY <2>2 DEF IInv, TypeOK
  <2> QED BY <2>2, <2>3 DEF LogState, LastPos, Server
<1> QED BY <1>1, <1>2

LEMMA HeadInit == GInit => HeadState
BY DEF GInit, Idle, HeadState, HeaderTellsServer

LEMMA ErrorStatusValue ==
  ASSUME NEW class
  PROVE  ErrorStatus(class) \in {429, 504, 502}
BY DEF ErrorStatus

LEMMA HeaderStep ==
  ASSUME IInv, LogState, Handover, StageState, HeadState, [GNext]_allvars
  PROVE  /\ header' # NoHeader => chunks' # <<>> \/ pc' = "end"
         /\ HeaderTellsServer'
<1>1. CASE header' = header
  <2>1. SUFFICES ASSUME header # NoHeader
                 PROVE  (chunks' # <<>> \/ pc' = "end") /\ HeaderTellsServer'
    BY <1>1 DEF HeaderTellsServer
  <2>2. calls' = calls /\ Server' = Server /\ (chunks' # <<>> \/ pc' = "end")
    BY <2>1, ServerStays DEF HeadState
  <2>3. Empty => Empty'
    BY ServerStays DEF Empty, IInv, CallState, vars, history
  <2> QED BY <1>1, <2>1, <2>2, <2>3 DEF HeadState, HeaderTellsServer
<1>2. CASE Answered \/ Fails
  <2>1. /\ pc = "end" /\ UNCHANGED vars /\ calls # <<>>
        /\ outcome \in ErrorClasses \cup {"success"}
    BY <1>2 DEF Answered, Fails, Handover
  <2>2. header' = [pos |-> Server, fallbacks |-> Len(calls) - 1]
    BY <1>2, <2>1, LastCall DEF Answered, Fails, FallbackCount
  <2> QED BY <2>1, <2>2 DEF HeaderTellsServer, Server, vars, control, history
<1>3. CASE Respond
  <2>1. UNCHANGED vars /\ Primed
    BY <1>3 DEF Respond
  <2>2. CASE chunks = <<>>
    <3>1. Empty' /\ pc' = "end"
      BY <2>1, <2>2 DEF Primed, Handover, Empty, vars, control, history
    <3> QED BY <3>1 DEF HeaderTellsServer
  <2>3. CASE chunks # <<>>
    <3>1. header' = [pos |-> Server, fallbacks |-> Len(calls) - 1]
      BY <1>3, <2>3, LastCall DEF Respond, FallbackCount, IInv, OutputState
    <3> QED BY <2>1, <2>3, <3>1 DEF HeaderTellsServer, Server, vars, history
  <2> QED BY <2>2, <2>3
<1> QED
  <2>1. ASSUME NEW reason \in DOMAIN RefusalStatus, Refuse(reason)
        PROVE  header' = header
    BY <2>1 DEF Refuse
  <2>2. ASSUME NEW text \in BOOLEAN, NEW usage \in BOOLEAN,
               Start(text, usage) \/ Item(text, usage)
        PROVE  header' = header
    BY <2>2 DEF Start, Item
  <2> QED
    BY <1>1, <1>2, <1>3, <2>1, <2>2
       DEF GNext, Handler, Admit, Deny, Crashes, Pull, Completes, Breaks, Closes,
           CutOff, CancelUpstream, Abandon, Vanish, Collect, ExecutorRuns, Clock,
           Leave, GDone, allvars, gvars, wire

LEMMA HeadStep ==
  ASSUME IInv, LogState, Handover, StageState, HeadState, [GNext]_allvars
  PROVE  HeadState'
<1> DEFINE Sent ==
      /\ stage' \in {"admit", "respond"} => status' = 0
      /\ stage' \in {"sent", "skip", "last"} => status' = 200
      /\ stage' # "done" => status' \in {0, 200}
      /\ status' = 200 \/ stage' = "respond" => request'.stream \/ stage' = "done"
      /\ status' \notin {0, 200} => chunks' = <<>>
      /\ status' = 200 => chunks' # <<>> \/ (pc' = "end" /\ outcome' = "success")
      /\ status' # 200 => written' = <<>> /\ billed' = <<>>
<1>0. SUFFICES Sent
  BY HeaderStep DEF HeadState
<1>fixed. request' = request
  BY RequestFixed, GatewayStep
<1> USE DEF HeadState
<1>1. ASSUME NEW reason \in DOMAIN RefusalStatus, Refuse(reason)
      PROVE  Sent
  <2>1. status' \notin {0, 200}
    BY <1>fixed, <1>1 DEF Refuse, RefusalStatus
  <2> QED BY <1>fixed, <1>1, <2>1 DEF Refuse, StageState, vars, history, metrics
<1>2. CASE Deny \/ Admit
  BY <1>fixed, <1>2 DEF Deny, Admit, StageState, vars, control, history, wire, metrics
<1>3. CASE Answered
  BY <1>fixed, <1>3 DEF Answered, vars, control, history
<1>4. CASE Fails \/ Crashes
  <2>1. pc = "end" /\ stage = "serve" /\ status = 0 /\ stage' = "done"
    BY <1>fixed, <1>4 DEF Fails, Crashes
  <2>2. status' \notin {0, 200} /\ UNCHANGED <<written, billed, chunks>>
    BY <1>fixed, <1>4, ErrorStatusValue DEF Fails, Crashes, vars, history, metrics
  <2> QED BY <2>1, <2>2 DEF StageState
<1>5. CASE Respond
  BY <1>fixed, <1>5 DEF Respond, Primed, vars, control, history, metrics
<1>6. ASSUME NEW text \in BOOLEAN, NEW usage \in BOOLEAN,
             Start(text, usage) \/ Item(text, usage)
      PROVE  Sent
  <2>1. stage' \in {"sent", "skip", "last"} /\ status' = 200
    BY <1>fixed, <1>6 DEF Start, Item, WriteItem, WriteDone
  <2>2. chunks # <<>> \/ (pc = "end" /\ outcome = "success")
    BY <1>fixed, <1>6 DEF Start, Item, Handover, StageState
  <2> QED BY <1>fixed, <1>6, <2>1, <2>2 DEF Start, Item, vars, control, history
<1>7. CASE Pull
  BY <1>fixed, <1>7, MoveEffect DEF Pull, wire, Handover, StageState
<1>8. CASE Completes \/ Breaks \/ Closes \/ CutOff
  BY <1>fixed, <1>8
     DEF Completes, Breaks, Closes, CutOff, WriteDone, wire, vars, control, history
<1>9. CASE CancelUpstream
  BY <1>fixed, <1>9, MoveEffect DEF CancelUpstream, gvars, wire, metrics, IInv, CallState
<1>10. CASE Abandon \/ Vanish
  BY <1>fixed, <1>10 DEF Abandon, Vanish, vars, control, history, wire, metrics
<1>11. CASE Collect
  BY <1>fixed, <1>11, MoveEffect DEF Collect, vars, control, history, wire, metrics
<1>12. CASE ExecutorRuns
  BY <1>fixed, <1>12, RunEffect DEF ExecutorRuns, gvars, wire, metrics
<1>13. CASE Clock
  BY <1>fixed, <1>13, MoveEffect DEF Clock, gvars, wire, metrics
<1>14. CASE Leave \/ GDone \/ UNCHANGED allvars
  BY <1>fixed, <1>14 DEF Leave, GDone, allvars, vars, control, history, wire, gvars, metrics
<1> QED
  BY <1>1, <1>2, <1>3, <1>4, <1>5, <1>6, <1>7, <1>8, <1>9, <1>10, <1>11, <1>12, <1>13,
     <1>14
     DEF GNext, Handler

------------------------------------------------------------------------------
\* Writing an event behind others.
LEMMA WriteEffect ==
  ASSUME written \in Seq(Events), NEW e \in Events, written' = Append(written, e)
  PROVE  /\ written' \in Seq(Events)
         /\ LastWritten' = e
         /\ \A event : HasWritten(event)' <=> HasWritten(event) \/ event = e
         /\ \A i \in DOMAIN written' :
              \/ i = Len(written') /\ written'[i] = e
              \/ i \in DOMAIN written /\ written'[i] = written[i]
         /\ \A i, j \in DOMAIN written' : i < j => i \in DOMAIN written
<1>1. /\ Len(written') = Len(written) + 1 /\ written' # <<>>
      /\ written' \in Seq(Events) /\ written'[Len(written')] = e
      /\ \A i \in DOMAIN written : i \in DOMAIN written' /\ written'[i] = written[i]
      /\ \A i \in DOMAIN written' : i = Len(written') \/ i \in DOMAIN written
      /\ Len(written') \in DOMAIN written'
  OBVIOUS
<1>2. LastWritten' = e
  BY <1>1 DEF LastWritten
<1>3. ASSUME NEW event PROVE HasWritten(event)' <=> HasWritten(event) \/ event = e
  <2>1. HasWritten(event)' <=> \E i \in DOMAIN written' : written'[i] = event
    BY DEF HasWritten
  <2> QED BY <1>1, <2>1 DEF HasWritten
<1>4. \A i, j \in DOMAIN written' : i < j => i \in DOMAIN written
  BY <1>1
<1> QED BY <1>1, <1>2, <1>3, <1>4

LEMMA BodyInit == GInit => BodyState
BY DEF GInit, Idle, BodyState, HasWritten, FinalSent, LastWritten, Witnessed, Ran,
       ErrorClasses, AdapterErrors

\* Nothing is written: what the body is, it stays.
LEMMA BodyRests ==
  ASSUME BodyState, UNCHANGED <<vars, written>>,
         stage' \notin {"last", "done"} => stage \notin {"last", "done"},
         stage' = "last" => stage = "last",
         stage = "last" => stage' \in {"last", "done"},
         stage = "done" => stage' = "done",
         HasWritten("final") /\ pc = "emit" => stage' \in {"sent", "leaving"},
         FinalSent /\ stage' \notin {"leaving", "done"} =>
           HasWritten("final") \/ (pc = "emit" /\ stage' \in {"serve", "respond"}),
         (Witnessed /\ status = 200)' => LastWritten \in {"answer", "done", "error"}
  PROVE  BodyState'
<1>1. /\ HasWritten("final")' <=> HasWritten("final")
      /\ LastWritten' = LastWritten /\ (FinalSent' <=> FinalSent)
  BY DEF HasWritten, LastWritten, FinalSent, vars, history
<1> QED BY <1>1 DEF BodyState, vars, control, history

\* An item is written, or passed over.
LEMMA BodyItem ==
  ASSUME IInv, Handover, BodyState, UNCHANGED vars, pc = "emit",
         stage \in {"serve", "respond"},
         NEW text \in BOOLEAN, NEW usage \in BOOLEAN, WriteItem(text, usage)
  PROVE  /\ BodyState'
         /\ due' => HasWritten("final")'
         /\ due' => due' = usage /\ stage' = "sent"
         /\ HasWritten("final") => HasWritten("final")'
         /\ stage' \in {"sent", "skip"}
<1>1. chunks # <<>> /\ Len(chunks) \in DOMAIN chunks
  BY DEF Handover, IInv, TypeOK
<1>2. FinalSent <=> chunks[Len(chunks)].final
  BY <1>1 DEF FinalSent, Handover
<1>3. /\ FinalSent' <=> FinalSent
      /\ outcome' = outcome /\ pc' = pc
  BY DEF FinalSent, vars, control, history
<1>4. ~HasWritten("final") /\ ~Witnessed'
  BY DEF BodyState, Witnessed, WriteItem
<1>5. \A i \in DOMAIN written : written[i] \notin {"done", "error"}
  BY DEF BodyState
<1>6. CASE FinalSent
  <2>1. written' = Append(written, "final") /\ stage' = "sent" /\ due' = usage
    BY <1>2, <1>6 DEF WriteItem
  <2> QED
    BY <1>3, <1>4, <1>5, <1>6, <2>1, WriteEffect DEF BodyState, Events, HasWritten
<1>7. CASE ~FinalSent /\ text
  <2>1. written' = Append(written, "text") /\ stage' = "sent" /\ due' = FALSE
    BY <1>2, <1>7 DEF WriteItem
  <2> QED
    BY <1>3, <1>4, <1>5, <1>7, <2>1, WriteEffect DEF BodyState, Events, HasWritten
<1>8. CASE ~FinalSent /\ ~text
  <2>1. written' = written /\ stage' = "skip" /\ due' = FALSE
    BY <1>2, <1>8 DEF WriteItem
  <2>2. LastWritten' = LastWritten /\ (HasWritten("final")' <=> HasWritten("final"))
    BY <2>1 DEF LastWritten, HasWritten
  <2> QED
    BY <1>3, <1>4, <1>5, <1>8, <2>1, <2>2 DEF BodyState, LastWritten, HasWritten
<1> QED BY <1>6, <1>7, <1>8

\* The last event is written.
LEMMA BodyEnds ==
  ASSUME IInv, BodyState, UNCHANGED vars, pc = "end",
         stage \in {"serve", "respond"}, stage' = "last",
         NEW e \in {"done", "error"}, written' = Append(written, e),
         e = "done" => outcome = "success",
         e = "error" => outcome \in ErrorClasses
  PROVE  BodyState'
<1>1. /\ FinalSent' <=> FinalSent
      /\ outcome' = outcome /\ pc' = pc
  BY DEF FinalSent, vars, control, history
<1>2. FinalSent => HasWritten("final")
  BY DEF BodyState
<1>3. e \in Events /\ written \in Seq(Events)
  BY DEF BodyState, Events
<1>4. ~Witnessed'
  BY DEF Witnessed
<1>5. \A i \in DOMAIN written : written[i] \notin {"done", "error"}
  BY DEF BodyState
<1> QED BY <1>1, <1>2, <1>3, <1>4, <1>5, WriteEffect DEF BodyState, Events

\* The executor moves while nothing is written.
LEMMA BodyWaits ==
  ASSUME BodyState, UNCHANGED written,
         stage \in {"serve", "sent", "skip", "leaving"},
         stage' \in {"serve", "sent", "skip", "leaving"},
         FinalSent => FinalSent',
         HasWritten("final") /\ pc' = "emit" => stage' \in {"sent", "leaving"},
         FinalSent' /\ stage' # "leaving" =>
           HasWritten("final") \/ (pc' = "emit" /\ stage' = "serve")
  PROVE  BodyState'
<1>1. /\ HasWritten("final")' <=> HasWritten("final")
      /\ LastWritten' = LastWritten
  BY DEF HasWritten, LastWritten
<1>2. \A i \in DOMAIN written : written[i] \notin {"done", "error"}
  BY DEF BodyState
<1>3. LastWritten \notin {"done", "error"}
  BY <1>2 DEF LastWritten, BodyState
<1>4. ~Witnessed'
  BY DEF Witnessed
<1> QED BY <1>1, <1>2, <1>3, <1>4 DEF BodyState

LEMMA BodyStep ==
  ASSUME IInv, Handover, StageState, HeadState, BodyState, [GNext]_allvars
  PROVE  BodyState'
<1>1. /\ stage = "admit" => outcome = "running" /\ chunks = <<>>
      /\ status # 200 => written = <<>> /\ ~HasWritten("final")
      /\ chunks = <<>> => ~FinalSent
  BY DEF StageState, HeadState, Handover, IInv, CallState, HasWritten, FinalSent
<1>2. ASSUME NEW reason \in DOMAIN RefusalStatus, Refuse(reason)
      PROVE  BodyState'
  <2>1. ~Ran'
    BY <1>1, <1>2 DEF Refuse, Ran, vars, history, ErrorClasses, AdapterErrors
  <2> QED BY <1>1, <1>2, <2>1, BodyRests DEF Refuse, Witnessed, HeadState
<1>3. CASE Deny \/ Admit
  <2>1. ~Ran'
    BY <1>1, <1>3 DEF Deny, Admit, Ran, vars, history, ErrorClasses, AdapterErrors
  <2> QED
    BY <1>1, <1>3, <2>1, BodyRests DEF Deny, Admit, Witnessed, HeadState, wire
<1>4. CASE Answered
  <2>1. written' = <<"answer">> /\ stage' = "done" /\ UNCHANGED vars
    BY <1>4 DEF Answered
  <2>2. LastWritten' = "answer" /\ ~HasWritten("final")'
    BY <2>1 DEF LastWritten, HasWritten
  <2> QED BY <2>1, <2>2 DEF BodyState, Events
<1>5. CASE Fails \/ Crashes
  <2>1. status' # 200
    BY <1>5, ErrorStatusValue DEF Fails, Crashes
  <2> QED BY <1>1, <1>5, <2>1, BodyRests DEF Fails, Crashes
<1>6. CASE Respond
  BY <1>1, <1>6, BodyRests DEF Respond, Witnessed, BodyState
<1>7. ASSUME NEW text \in BOOLEAN, NEW usage \in BOOLEAN,
             Start(text, usage) \/ Item(text, usage), pc = "emit"
      PROVE  BodyState'
  BY <1>7, BodyItem DEF Start, Item
<1>8. ASSUME NEW text \in BOOLEAN, NEW usage \in BOOLEAN, Start(text, usage),
             pc # "emit"
      PROVE  BodyState'
  BY <1>8, BodyEnds DEF Start, WriteDone, StageState
<1>9. CASE Completes
  BY <1>9, BodyEnds DEF Completes, WriteDone
<1>10. CASE Breaks
  BY <1>10, BodyEnds DEF Breaks, ErrorEvent
<1>11. CASE Pull
  <2>1. chunks' = chunks /\ pc = "emit" /\ pc' # "emit"
    BY <1>11, MoveEffect DEF Pull
  <2>2. FinalSent' <=> FinalSent
    BY <2>1 DEF FinalSent
  <2>3. FinalSent => HasWritten("final")
    BY <1>11 DEF Pull, BodyState
  <2> QED BY <1>11, <2>1, <2>2, <2>3, BodyWaits DEF Pull, wire
<1>12. CASE Closes
  BY <1>12, BodyRests DEF Closes, wire, BodyState, StageState
<1>13. CASE CutOff
  <2>1. ~Ran'
    BY <1>13 DEF CutOff, Ran, vars, history, ErrorClasses, AdapterErrors
  <2> QED
    BY <1>13, <2>1, BodyRests DEF CutOff, wire, Witnessed
<1>14. CASE CancelUpstream
  <2>1. chunks' = chunks /\ pc # "emit" /\ pc' # "emit" /\ stage = "serve"
    BY <1>14, MoveEffect DEF CancelUpstream
  <2>2. FinalSent' <=> FinalSent
    BY <2>1 DEF FinalSent
  <2> QED
    BY <1>14, <2>1, <2>2, BodyWaits DEF CancelUpstream, gvars, wire, BodyState
<1>15. CASE Abandon \/ Vanish
  BY <1>15, BodyRests DEF Abandon, Vanish, wire, Witnessed
<1>16. CASE Collect
  <2>1. client = "gone" /\ stage = "leaving"
    BY <1>16 DEF Collect, StageState
  <2>2. CASE Cancel /\ UNCHANGED stage
    <3>1. FinalSent' <=> FinalSent
      BY <2>2, MoveEffect DEF FinalSent
    <3> QED BY <1>16, <2>1, <2>2, <3>1, BodyWaits DEF Collect, wire
  <2>3. CASE pc = "end" /\ stage' = "done" /\ UNCHANGED vars
    BY <1>16, <2>1, <2>3, BodyRests DEF Collect, wire, Witnessed
  <2> QED BY <1>16, <2>2, <2>3 DEF Collect
<1>17. CASE ExecutorRuns
  <2>1. pc # "emit" /\ stage \in {"serve", "leaving"}
    BY <1>17, RunEffect DEF ExecutorRuns
  <2>2. CASE chunks' = chunks /\ pc' # "emit"
    <3>1. FinalSent' <=> FinalSent
      BY <2>2 DEF FinalSent
    <3> QED
      BY <1>17, <2>1, <2>2, <3>1, BodyWaits DEF ExecutorRuns, gvars, wire, BodyState
  <2>3. CASE ~FinalSent /\ pc' = "emit"
    BY <1>17, <2>1, <2>3, BodyWaits DEF ExecutorRuns, gvars, wire, BodyState
  <2> QED BY <1>17, <2>2, <2>3, RunEffect DEF ExecutorRuns
<1>18. CASE Clock
  <2>1. UNCHANGED <<chunks, pc, outcome>>
    BY <1>18, MoveEffect DEF Clock
  <2>2. /\ HasWritten("final")' <=> HasWritten("final")
        /\ LastWritten' = LastWritten
        /\ FinalSent' <=> FinalSent
        /\ UNCHANGED <<written, stage, status, client>>
        /\ Witnessed' <=> Witnessed
    BY <1>18, <2>1
       DEF Clock, gvars, wire, HasWritten, LastWritten, FinalSent, Witnessed, Ran
  <2> QED BY <2>1, <2>2 DEF BodyState
<1>19. CASE Leave
  BY <1>19, BodyRests DEF Leave, wire, Witnessed, BodyState
<1>20. CASE GDone \/ UNCHANGED allvars
  BY <1>20, BodyRests DEF GDone, allvars, gvars, wire, BodyState, Witnessed, Ran,
     vars, history
<1> QED
  BY <1>2, <1>3, <1>4, <1>5, <1>6, <1>7, <1>8, <1>9, <1>10, <1>11, <1>12, <1>13,
     <1>14, <1>15, <1>16, <1>17, <1>18, <1>19, <1>20
     DEF GNext, Handler, Item

------------------------------------------------------------------------------
LEMMA UsageInit == GInit => UsageState
BY DEF GInit, UsageState

\* Nothing is recorded: what was recorded stays the provider's that serves.
LEMMA UsageRests ==
  ASSUME IInv, HeadState, UsageState, [GNext]_allvars,
         UNCHANGED <<billed, due>>,
         HasWritten("final") => HasWritten("final")',
         billed # <<>> => stage' \in {"serve", "last", "done"},
         stage = "sent" /\ stage' # "sent" => client' = "gone",
         client = "gone" => client' = "gone",
         stage = "done" => stage' = "done"
  PROVE  UsageState'
<1>1. request' = request
  BY RequestFixed, GatewayStep
<1>2. billed # <<>> => Server' = Server
  BY ServerStays DEF HeadState
<1> QED BY <1>1, <1>2 DEF UsageState

LEMMA UsageStep ==
  ASSUME IInv, Handover, StageState, HeadState, BodyState, UsageState,
         [GNext]_allvars
  PROVE  UsageState'
<1>0. /\ billed # <<>> /\ stage # "done" => stage \in {"serve", "last"} /\ pc # "emit"
      /\ status # 200 => billed = <<>> /\ ~HasWritten("final")
      /\ UNCHANGED written => HasWritten("final")' = HasWritten("final")
      /\ \A e \in {"done", "error"} :
           written' = Append(written, e) => (HasWritten("final") => HasWritten("final")')
  <2>1. \A e \in {"done", "error"} :
           written' = Append(written, e) => (HasWritten("final") => HasWritten("final")')
    BY WriteEffect DEF BodyState, Events
  <2>2. billed # <<>> /\ stage # "done" => stage \in {"serve", "last"} /\ pc # "emit"
    BY DEF UsageState, BodyState
  <2>3. UNCHANGED written => HasWritten("final")' = HasWritten("final")
    BY DEF HasWritten
  <2> QED BY <2>1, <2>2, <2>3 DEF HeadState, HasWritten
<1>1. ASSUME NEW reason \in DOMAIN RefusalStatus, Refuse(reason)
      PROVE  UsageState'
  BY <1>0, <1>1, UsageRests DEF Refuse, metrics
<1>2. CASE Deny \/ Admit
  BY <1>0, <1>2, UsageRests DEF Deny, Admit, wire, metrics
<1>3. CASE Answered
  <2>1. status # 200 /\ billed = <<>> /\ ~due
    BY <1>0, <1>3 DEF Answered, HeadState, UsageState
  <2>2. billed' = <<pos>> /\ Server = pos
    BY <1>3, <2>1, LastCall DEF Answered, Handover, IInv, CallState, Server
  <2>3. ~request'.stream /\ Server' = Server /\ stage' = "done" /\ due' = due
    BY <1>3 DEF Answered, vars, history, Server
  <2> QED BY <2>1, <2>2, <2>3 DEF UsageState
<1>4. CASE Fails \/ Crashes \/ Respond
  BY <1>0, <1>4, UsageRests DEF Fails, Crashes, Respond, metrics
<1>5. ASSUME NEW text \in BOOLEAN, NEW usage \in BOOLEAN,
             Start(text, usage) \/ Item(text, usage), pc = "emit"
      PROVE  UsageState'
  <2>1. WriteItem(text, usage) /\ UNCHANGED vars /\ billed = <<>> /\ billed' = billed
    BY <1>0, <1>5 DEF Start, Item, metrics
  <2>2. /\ due' => HasWritten("final")'
        /\ due' => due' = usage /\ stage' = "sent"
    BY <1>5, <2>1, BodyItem DEF Start, Item
  <2>3. due' \in BOOLEAN
    BY <2>1 DEF WriteItem
  <2> QED BY <2>1, <2>2, <2>3 DEF UsageState
<1>6. ASSUME NEW text \in BOOLEAN, NEW usage \in BOOLEAN, Start(text, usage),
             pc # "emit"
      PROVE  UsageState'
  BY <1>0, <1>6, UsageRests DEF Start, WriteDone, metrics
<1>7. CASE Pull
  <2>1. stage \in {"sent", "skip"} /\ billed = <<>> /\ calls # <<>> /\ Bill
        /\ stage' = "serve" /\ due' = due /\ pos' = pos
    BY <1>0, <1>7 DEF Pull, Resume, Handover
  <2>2. Server' = Server /\ Server = pos
    BY <1>7, <2>1, MoveEffect DEF Pull, Server, IInv, CallState
  <2>3. HasWritten("final")' = HasWritten("final") /\ client' = client
    BY <1>0, <1>7 DEF Pull, wire
  <2>4. due => billed' = <<pos>>
    BY <2>1 DEF Bill
  <2>5. ~due => billed' = <<>>
    BY <2>1 DEF Bill
  <2> QED BY <2>1, <2>2, <2>3, <2>4, <2>5 DEF UsageState
<1>8. CASE Completes \/ Breaks
  BY <1>0, <1>8, UsageRests DEF Completes, Breaks, WriteDone, ErrorEvent, metrics
<1>9. CASE Closes \/ CutOff
  BY <1>0, <1>9, UsageRests DEF Closes, CutOff, wire
<1>10. CASE CancelUpstream
  BY <1>0, <1>10, UsageRests DEF CancelUpstream, gvars, wire, metrics
<1>11. CASE Abandon \/ Vanish \/ Collect
  BY <1>0, <1>11, UsageRests DEF Abandon, Vanish, Collect, wire, metrics, StageState
<1>12. CASE ExecutorRuns \/ Clock
  BY <1>0, <1>12, UsageRests DEF ExecutorRuns, Clock, gvars, wire, metrics
<1>13. CASE Leave \/ GDone \/ UNCHANGED allvars
  BY <1>0, <1>13, UsageRests DEF Leave, GDone, allvars, gvars, wire, metrics
<1> QED
  BY <1>1, <1>2, <1>3, <1>4, <1>5, <1>6, <1>7, <1>8, <1>9, <1>10, <1>11, <1>12, <1>13
     DEF GNext, Handler, Item

------------------------------------------------------------------------------
\* A family of labels without repetition counts each once.
LEMMA TallyOfDistinct ==
  ASSUME NEW label,
         \A i, j \in DOMAIN label : label[i] = label[j] => i = j
  PROVE  Tally(label) = SetToBag({label[i] : i \in DOMAIN label})
<1>1. ASSUME NEW i \in DOMAIN label
      PROVE  Cardinality({j \in DOMAIN label : label[j] = label[i]}) = 1
  <2>1. {j \in DOMAIN label : label[j] = label[i]} = {i}
    OBVIOUS
  <2> QED BY <2>1, FS_Singleton
<1> QED BY <1>1 DEF Tally, SetToBag

LEMMA FirstGain ==
  ASSUME NEW S
  PROVE  EmptyBag (+) SetToBag(S) = SetToBag(S)
BY DEF EmptyBag, SetToBag, (+)

\* Recording the log of a request that ran counts each failure once, and each
\* transition: their positions differ, and only failures are followed by a call.
LEMMA HistoryRecorded ==
  ASSUME IInv, RouteState, LogState, calls # <<>>, Ran, UNCHANGED vars,
         errors = EmptyBag, fallbacks = EmptyBag, RecordHistory(attempts)
  PROVE  FailuresAttributed'
<1>1. /\ Len(attempts) = Len(calls)
      /\ DOMAIN attempts = 1..Len(calls) /\ DOMAIN calls = 1..Len(calls)
      /\ Len(calls) \in Nat
  BY LastCall DEF Ran, IInv, TypeOK
<1>2. \A i \in DOMAIN attempts : attempts[i].pos = calls[i].pos
  BY DEF LogState
<1>3. \A i, j \in DOMAIN calls : calls[i].pos = calls[j].pos => i = j
  <2> SUFFICES ASSUME NEW i \in DOMAIN calls, NEW j \in DOMAIN calls,
                      calls[i].pos = calls[j].pos, i < j
               PROVE  FALSE
    BY <1>1
  <2>1. calls[i].pos < calls[j].pos /\ calls[i].pos \in Nat
    BY CallTypes DEF RouteState, IInv
  <2> QED BY <2>1
<1>4. \A i \in 1..Len(calls) - 1 : attempts[i].class # "none"
  <2> TAKE i \in 1..Len(calls) - 1
  <2>1. i \in DOMAIN attempts /\ i < Len(calls)
    BY <1>1
  <2> QED BY <2>1 DEF LogState, FallbackEligible, Eligible
<1>5. TransitionsAt(attempts) = 1..Len(calls) - 1
  BY <1>1, <1>4 DEF TransitionsAt, FailedAt
<1> DEFINE
  failed == {j \in DOMAIN attempts : attempts[j].class # "none"}
  told == [i \in FailedAt(attempts) |-> ErrorLabel(attempts, i)]
  left == [i \in TransitionsAt(attempts) |-> TransitionLabel(attempts, i)]
  failures == {[pos |-> calls[i].pos, class |-> attempts[i].class] : i \in failed}
  transitions == {[from |-> calls[i].pos, to |-> calls[i + 1].pos,
                   reason |-> attempts[i].class] : i \in 1..Len(calls) - 1}
<1>6. errors' = SetToBag(failures)
  <2>1. \A i \in FailedAt(attempts) :
          told[i] = [pos |-> calls[i].pos, class |-> attempts[i].class]
    BY <1>2 DEF ErrorLabel, FailedAt
  <2>2. {told[i] : i \in DOMAIN told} = failures
    BY <2>1 DEF FailedAt
  <2>3. ASSUME NEW i \in DOMAIN told, NEW j \in DOMAIN told, told[i] = told[j]
        PROVE  i = j
    <3>1. i \in FailedAt(attempts) /\ j \in FailedAt(attempts)
      OBVIOUS
    <3>2. calls[i].pos = calls[j].pos
      BY <2>1, <2>3, <3>1
    <3> QED BY <1>1, <1>3, <3>1, <3>2 DEF FailedAt
  <2> HIDE DEF told
  <2>4. Tally(told) = SetToBag(failures)
    BY <2>2, <2>3, TallyOfDistinct
  <2>5. errors' = EmptyBag (+) Tally(told)
    BY DEF RecordHistory, told
  <2> QED BY <2>4, <2>5, FirstGain
<1>7. fallbacks' = SetToBag(transitions)
  <2>1. \A i \in TransitionsAt(attempts) :
          left[i] = [from |-> calls[i].pos, to |-> calls[i + 1].pos,
                     reason |-> attempts[i].class]
    BY <1>1, <1>2, <1>5 DEF TransitionLabel
  <2>2. {left[i] : i \in DOMAIN left} = transitions
    BY <1>5, <2>1
  <2>3. \A i, j \in DOMAIN left : left[i] = left[j] => i = j
    BY <1>1, <1>3, <1>5, <2>1
  <2> HIDE DEF left
  <2>4. Tally(left) = SetToBag(transitions)
    BY <2>2, <2>3, TallyOfDistinct
  <2>5. fallbacks' = EmptyBag (+) Tally(left)
    BY DEF RecordHistory, left
  <2> QED BY <2>4, <2>5, FirstGain
<1> QED BY <1>6, <1>7 DEF FailuresAttributed, vars, history

LEMMA MetricInit == GInit => MetricState
BY DEF GInit, Idle, MetricState, CountedTruthfully, FailuresAttributed, Witnessed

\* Nothing is counted: nothing is, before a request ends under its client's eyes.
LEMMA MetricRests ==
  ASSUME MetricState, UNCHANGED <<counted, errors, fallbacks>>, ~Witnessed',
         stage \in {"leaving", "done"} => stage' \in {"leaving", "done"}
  PROVE  MetricState'
BY DEF MetricState, CountedTruthfully, FailuresAttributed

\* The request is counted and its log recorded.
LEMMA MetricRecords ==
  ASSUME IInv, RouteState, LogState, Handover, MetricState, UNCHANGED vars,
         stage \notin {"leaving", "done"}, stage' \in {"leaving", "done"},
         NEW result, NEW p, Count(result, p),
         Witnessed' =>
           /\ calls # <<>> /\ Ran /\ RecordHistory(attempts)
           /\ result = outcome /\ p = Server
  PROVE  MetricState'
<1>1. counted' = <<[outcome |-> result, pos |-> p]>>
  BY DEF MetricState, Count
<1>2. Server' = Server /\ outcome' = outcome
  BY DEF Server, vars, history
<1>3. CountedTruthfully'
  BY <1>1, <1>2 DEF CountedTruthfully
<1>4. FailuresAttributed'
  <2>1. CASE ~Witnessed'
    BY <2>1 DEF FailuresAttributed
  <2>2. CASE Witnessed'
    BY <2>2, HistoryRecorded DEF MetricState
  <2> QED BY <2>1, <2>2
<1> QED BY <1>3, <1>4 DEF MetricState

LEMMA MetricStep ==
  ASSUME IInv, RouteState, LogState, Handover, StageState, BodyState, MetricState,
         [GNext]_allvars
  PROVE  MetricState'
<1>0. /\ pc = "end" => calls # <<>>
      /\ Ran => pc = "end"
      /\ UNCHANGED vars => Ran' = Ran
  BY DEF Handover, Ran, IInv, CallState, ErrorClasses, AdapterErrors, vars, history
<1>1. ASSUME NEW reason \in DOMAIN RefusalStatus, Refuse(reason)
      PROVE  MetricState'
  BY <1>0, <1>1, MetricRests DEF Refuse, metrics, Witnessed, StageState
<1>2. CASE Deny
  BY <1>0, <1>2, MetricRecords DEF Deny, Witnessed, StageState
<1>3. CASE Admit \/ Crashes \/ Respond
  BY <1>0, <1>3, MetricRests
     DEF Admit, Crashes, Respond, metrics, Witnessed, Ran, ErrorClasses, AdapterErrors
<1>4. CASE Answered
  <2>1. pc = "end" /\ outcome = "success" /\ Ran /\ calls # <<>> /\ pos = Server
    BY <1>0, <1>4, LastCall DEF Answered, Ran
  <2> QED BY <1>4, <2>1, MetricRecords DEF Answered
<1>5. CASE Fails
  <2>1. Ran /\ calls # <<>> /\ attempts # <<>> /\ LastPos(attempts) = Server
    BY <1>0, <1>5, LastCall DEF Fails, Ran
  <2>2. RecordHistory(attempts) /\ Count(outcome, Server)
    BY <1>5, <2>1 DEF Fails
  <2> QED BY <1>5, <2>1, <2>2, MetricRecords DEF Fails
<1>6. ASSUME NEW text \in BOOLEAN, NEW usage \in BOOLEAN,
             Start(text, usage) \/ Item(text, usage)
      PROVE  MetricState'
  <2>1. stage \in {"respond", "serve"} /\ stage' \in {"sent", "skip", "last"}
    BY <1>6 DEF Start, Item, WriteItem, WriteDone
  <2> QED BY <1>6, <2>1, MetricRests DEF Start, Item, metrics, Witnessed
<1>7. CASE Pull \/ Completes \/ Breaks \/ Vanish
  BY <1>7, MetricRests
     DEF Pull, Completes, Breaks, Vanish, WriteDone, metrics, Witnessed
<1> DEFINE p == IF chunks = <<>> THEN LastPos(attempts) ELSE pos
<1>8. calls # <<>> /\ Ran => p = Server
  BY LastCall DEF Ran
<1>9. CASE Closes
  <2>1. LastWritten \in {"done", "error"} /\ pc = "end"
    BY <1>9 DEF Closes, BodyState, StageState
  <2>2. Ran /\ StreamOutcome = outcome
    BY <2>1 DEF BodyState, StreamOutcome, Ran
  <2>3. RecordHistory(attempts) /\ Count(StreamOutcome, p)
    BY <1>9 DEF Closes, CountStream
  <2> QED BY <1>0, <1>8, <1>9, <2>1, <2>2, <2>3, MetricRecords DEF Closes
<1>10. CASE CutOff \/ Abandon
  <2>1. ~Witnessed'
    BY <1>0, <1>10
       DEF CutOff, Abandon, Witnessed, Ran, ErrorClasses, AdapterErrors
  <2>2. RecordHistory(attempts) /\ Count("success", p)
    BY <1>10 DEF CutOff, Abandon, CountStream
  <2> QED BY <1>10, <2>1, <2>2, MetricRecords DEF CutOff, Abandon
<1>11. CASE CancelUpstream
  BY <1>11, MetricRests DEF CancelUpstream, gvars, metrics, Witnessed
<1>12. CASE Collect
  BY <1>12, MetricRests DEF Collect, metrics, Witnessed, StageState
<1>13. CASE ExecutorRuns \/ Leave
  BY <1>13, MetricRests DEF ExecutorRuns, Leave, gvars, metrics, Witnessed
<1>14. CASE Clock
  <2>1. pc # "end" /\ calls # <<>>
    BY <1>14, MoveEffect DEF Clock
  <2> QED BY <1>14, <2>1, MetricRests DEF Clock, gvars, metrics, Witnessed, StageState
<1>15. CASE GDone \/ UNCHANGED allvars
  BY <1>15
     DEF GDone, allvars, gvars, metrics, vars, history, MetricState, CountedTruthfully,
         FailuresAttributed, Witnessed, Ran, Server
<1> QED
  BY <1>1, <1>2, <1>3, <1>4, <1>5, <1>6, <1>7, <1>9, <1>10, <1>11, <1>12, <1>13,
     <1>14, <1>15
     DEF GNext, Handler

------------------------------------------------------------------------------
LEMMA HandlerInvariant == GSpec => []GInv
<1>1. GInit => GInv
  BY HandoverInit, StageInit, HeadInit, BodyInit, UsageInit, MetricInit DEF GInv
<1>2. IInv /\ HInv /\ RouterInv /\ GInv /\ [GNext]_allvars => GInv'
  BY HandoverStep, StageStep, HeadStep, BodyStep, UsageStep, MetricStep DEF GInv, HInv
<1>3. GSpec => []HInv
  BY GatewayRunsExecutor, HistoryInvariant, PTL
<1> QED BY <1>1, <1>2, <1>3, ExecutorInvariant, RouterInvHolds, PTL DEF GSpec

\* A request is counted once at most, and one that ended under its client's eyes
\* exactly once, as the executor ended it and for the provider called last
\* (_record_terminal_error, event_stream's finally).
THEOREM RequestsCounted == GSpec => []CountedTruthfully
<1>1. GInv => CountedTruthfully
  BY DEF GInv, MetricState
<1> QED BY <1>1, HandlerInvariant, PTL

\* The headers, sent before there is a body, name the provider all of it is from and
\* the transitions that led to it (_streamed, _non_streamed).
THEOREM HeaderIsTrue == GSpec => []HeaderTellsServer
<1>1. GInv => HeaderTellsServer
  BY DEF GInv, HeadState
<1> QED BY <1>1, HandlerInvariant, PTL

\* Every failed attempt and every transition is in the metrics once, for its
\* provider, however the request ended (_record_attempt_history).
THEOREM FailuresAreAttributed == GSpec => []FailuresAttributed
<1>1. GInv => FailuresAttributed
  BY DEF GInv, MetricState
<1> QED BY <1>1, HandlerInvariant, PTL

\* The client can tell a complete answer from a broken one, by status or by the
\* last event (_streamed, event_stream).
THEOREM BodyIsWellFormed == GSpec => []BodyWellFormed
<1>1. IInv /\ GInv => BodyWellFormed
  <2> SUFFICES ASSUME IInv, GInv PROVE BodyWellFormed
    OBVIOUS
  <2>1. status = 200 /\ outcome \in ErrorClasses => chunks # <<>>
    BY DEF GInv, HeadState, ErrorClasses, AdapterErrors
  <2>2. status \notin {0, 200} => chunks = <<>> /\ written = <<>>
    BY DEF GInv, HeadState
  <2>3. LastWritten = "done" =>
          /\ outcome = "success"
          /\ FinalSent <=> \E i \in DOMAIN written : written[i] = "final"
    BY DEF GInv, BodyState, HasWritten
  <2> QED BY <2>1, <2>2, <2>3 DEF GInv, BodyState, BodyWellFormed
<1> QED BY <1>1, ExecutorInvariant, HandlerInvariant, PTL

\* Usage and its cost are recorded once at most, for the provider that served, and
\* always once the client has read past the final item (event_stream).
THEOREM UsageRecorded == GSpec => []UsageRecordedOnce
<1>1. GInv => UsageRecordedOnce
  BY DEF GInv, UsageState, HasWritten, UsageRecordedOnce, Witnessed, StageState
<1> QED BY <1>1, HandlerInvariant, PTL

\* When the handler is done nothing of the request runs upstream, whoever left first.
THEOREM UpstreamIsReleased == GSpec => []UpstreamReleased
<1>1. AdapterReleased /\ GInv => UpstreamReleased
  BY DEF AdapterReleased, GInv, StageState, Handover, UpstreamReleased
<1>2. GSpec => []AdapterReleased
  BY GatewayRunsExecutor, AdapterIsReleased, PTL
<1> QED BY <1>1, <1>2, HandlerInvariant, PTL
=============================================================================
