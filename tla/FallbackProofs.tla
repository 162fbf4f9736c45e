---------------------------- MODULE FallbackProofs ----------------------------
(***************************************************************************)
(* Proofs about the fallback executor, for every route, every timeout and  *)
(* every bound.  All of them rest on one inductive invariant, IInv: the    *)
(* types, the bounds of the timers, and what the program counter says of   *)
(* the calls made and the output handed over.  What the histories tell,    *)
(* the order and the times of the calls and the attempt log, rests on a    *)
(* second one, HInv, which is inductive once IInv holds.                   *)
(***************************************************************************)
EXTENDS Fallback, SequenceTheorems, TLAPS

\* No timer and no sleep is set behind the deadline.
TimerBounds == timer <= Deadline /\ wake <= Deadline

\* Where the coroutine stands, against the calls made so far.
CallState ==
  /\ index = Len(calls)
  /\ pc # "end" <=> outcome = "running"
  /\ pc \in {"await", "emit", "close", "judge", "sleep"} => calls # <<>>
  /\ calls # <<>> => calls[Len(calls)].pos = pos
  /\ pc = "judge" => fault.class \in AdapterErrors
  /\ \A i \in DOMAIN calls : Permitted(calls[i].pos)

\* The current attempt has started exactly if output was handed over: so the
\* coroutine never stands where it could call another provider.
OutputState ==
  /\ started <=> chunks # <<>>
  /\ started => pc \notin {"loop", "sleep"} /\ calls # <<>>
  /\ \A i \in DOMAIN chunks : chunks[i].pos = pos
  /\ outcome \in AdapterErrors => ~started
  /\ outcome = "stream_started_failure" => started
  /\ outcome = "success" => calls # <<>>

IInv == TypeOK /\ TimerBounds /\ CallState /\ OutputState

------------------------------------------------------------------------------
\* A request's route is a sequence of providers, its kept positions are in it.
LEMMA RequestType ==
  ASSUME NEW r \in Requests
  PROVE  /\ r.route \in Seq(Providers)
         /\ r.kept \subseteq DOMAIN r.route
         /\ \A p \in r.kept : p \in Nat /\ r.route[p] \in Providers
         /\ r.stream \in BOOLEAN /\ r.restricted \in BOOLEAN
<1>1. PICK d \in Decisions : d = [route |-> r.route, kept |-> r.kept]
  BY DEF Requests
<1>2. IsDecision(d)
  BY DecisionAssumption
<1>3. r.route \in Seq(Providers) /\ r.kept \subseteq DOMAIN r.route
  BY <1>1, <1>2 DEF IsDecision
<1>4. \A p \in r.kept : p \in Nat /\ r.route[p] \in Providers
  BY <1>3
<1>5. r.stream \in BOOLEAN /\ r.restricted \in BOOLEAN
  BY DEF Requests
<1> QED BY <1>3, <1>4, <1>5

\* The arithmetic of the timeouts: what is left is a number of ticks that ends
\* at the deadline, and so does every budget cut to it.
LEMMA Budgets ==
  ASSUME TypeOK, NEW a \in Nat, NEW e \in Nat
  PROVE  /\ Remaining \in Nat
         /\ now < Deadline => now + Remaining = Deadline
         /\ Least(a, Remaining) \in Nat /\ Least(a, Remaining) <= Remaining
         /\ Least(a, Remaining) <= a
         /\ StreamBudget(a, e) \in Nat
         /\ StreamBudget(a, e) <= Remaining
         /\ StreamBudget(a, e) # 0 => now < Deadline /\ now + StreamBudget(a, e) <= e
BY TimeoutAssumption, BoundAssumption
   DEF TypeOK, Remaining, Least, StreamBudget

------------------------------------------------------------------------------
LEMMA NoFaultType == NoFault \in Faults
BY DEF NoFault, Faults

LEMMA InitInvariant == Init => IInv
<1> SUFFICES ASSUME Init PROVE IInv
  OBVIOUS
<1>1. TypeOK
  <2>1. /\ request \in Requests /\ now \in 0..Horizon /\ index \in 0..MaxAttempts
        /\ pc = "loop" /\ outcome \in Outcomes
    BY BoundAssumption, PolicyAssumption DEF Init, Idle, Outcomes
  <2>2. fault \in Faults
    BY NoFaultType DEF Init, Idle
  <2>3. attempts = <<>> /\ calls = <<>> /\ chunks = <<>>
    BY DEF Init, Idle
  <2>4. /\ pos \in Nat /\ timer \in Nat /\ attemptEnd \in Nat /\ wake \in Nat
        /\ started \in BOOLEAN /\ iterator \in BOOLEAN
    BY DEF Init, Idle
  <2> QED BY <2>1, <2>2, <2>3, <2>4 DEF TypeOK
<1>2. TimerBounds
  BY TimeoutAssumption DEF Init, Idle, TimerBounds
<1>3. CallState
  BY DEF Init, Idle, CallState
<1>4. OutputState
  BY DEF Init, Idle, OutputState, AdapterErrors
<1> QED BY <1>1, <1>2, <1>3, <1>4 DEF IInv

\* Appending to a log keeps what is in it, and its last element is the new one.
LEMMA AppendFacts ==
  ASSUME NEW S, NEW s \in Seq(S), NEW e \in S
  PROVE  /\ Append(s, e) \in Seq(S)
         /\ Append(s, e) # <<>>
         /\ Len(Append(s, e)) = Len(s) + 1
         /\ Append(s, e)[Len(s) + 1] = e
         /\ \A i \in DOMAIN Append(s, e) :
              i = Len(s) + 1 \/ (i \in DOMAIN s /\ Append(s, e)[i] = s[i])
OBVIOUS

LEMMA BeginAttemptStep == IInv /\ BeginAttempt => IInv'
<1> SUFFICES ASSUME IInv, BeginAttempt PROVE IInv'
  OBVIOUS
<1> USE DEF IInv
<1>1. PICK p \in Following :
        pos' = p /\ calls' = Append(calls, [pos |-> p, at |-> now])
  BY DEF BeginAttempt
<1>2. p \in Nat /\ p \in request.kept /\ Permitted(p)
  BY RequestType DEF TypeOK, Following
<1>3. now \in Nat /\ now < Deadline /\ now + AttemptTimeout \in Nat
  BY TimeoutAssumption, BoundAssumption DEF TypeOK, BeginAttempt
<1>4. timer' \in Nat /\ timer' <= Deadline
  <2>1. HeaderTimeout \in Nat /\ AttemptTimeout \in Nat /\ Deadline \in Nat
    BY TimeoutAssumption
  <2>2. timer' = now + StreamBudget(HeaderTimeout, now + AttemptTimeout)
        \/ timer' = now + Least(AttemptTimeout, Remaining)
    BY DEF BeginAttempt
  <2>3. /\ Remaining \in Nat /\ now + Remaining = Deadline
        /\ StreamBudget(HeaderTimeout, now + AttemptTimeout) \in Nat
        /\ StreamBudget(HeaderTimeout, now + AttemptTimeout) <= Remaining
        /\ Least(AttemptTimeout, Remaining) \in Nat
        /\ Least(AttemptTimeout, Remaining) <= Remaining
    BY <1>3, <2>1, Budgets
  <2> QED BY <1>3, <2>1, <2>2, <2>3
<1>5. TypeOK'
  <2>1. calls' \in Seq([pos : Nat, at : Nat])
    BY <1>1, <1>2, <1>3 DEF TypeOK
  <2>2. index' \in 0..MaxAttempts
    BY PolicyAssumption DEF TypeOK, BeginAttempt, HasNext
  <2>3. fault' \in Faults
    BY NoFaultType DEF BeginAttempt
  <2> QED BY <1>1, <1>2, <1>3, <1>4, <2>1, <2>2, <2>3 DEF TypeOK, BeginAttempt
<1>6. TimerBounds'
  BY <1>4 DEF TimerBounds, BeginAttempt
<1>7. CallState'
  <2>1. calls \in Seq([pos : Nat, at : Nat]) /\ [pos |-> p, at |-> now] \in [pos : Nat, at : Nat]
    BY <1>2, <1>3 DEF TypeOK
  <2>2. \A i \in DOMAIN calls' : Permitted(calls'[i].pos)
    BY <1>1, <1>2, <2>1, AppendFacts DEF CallState
  <2>3. \A q : Permitted(q) => Permitted(q)'
    BY DEF Permitted, BeginAttempt
  <2> QED BY <1>1, <2>1, <2>2, <2>3, AppendFacts DEF CallState, BeginAttempt
<1>8. OutputState'
  BY <1>1, AppendFacts DEF OutputState, CallState, BeginAttempt, TypeOK, AdapterErrors
<1> QED BY <1>5, <1>6, <1>7, <1>8

LEMMA DeadlineErrorStep == IInv /\ DeadlineError => IInv'
<1> SUFFICES ASSUME IInv, DeadlineError PROVE IInv'
  OBVIOUS
<1> USE DEF IInv
<1>1. TypeOK'
  BY DEF TypeOK, DeadlineError, Finish, clocks, Outcomes, AdapterErrors
<1>2. TimerBounds'
  BY DEF TimerBounds, DeadlineError, clocks
<1>3. CallState'
  BY DEF CallState, DeadlineError, Finish, Permitted
<1>4. OutputState'
  BY DEF OutputState, DeadlineError, Finish, AdapterErrors
<1> QED BY <1>1, <1>2, <1>3, <1>4

\* What an AttemptOver leaves: the coroutine closes the iterator, judges the
\* failure or, cut short, is over.
LEMMA AttemptOverFacts ==
  ASSUME TypeOK, pc \in {"await", "emit"}, outcome = "running",
         NEW f \in Faults, AttemptOver(f),
         f.class = "none" => request.stream
  PROVE  /\ pc' \in {"close", "judge", "end"}
         /\ fault' \in Faults /\ iterator' \in BOOLEAN
         /\ outcome' \in {"running", "cancelled", "crashed"}
         /\ pc' # "end" <=> outcome' = "running"
         /\ pc' = "judge" => fault'.class \in AdapterErrors
<1>1. f.class \in AdapterErrors \cup {"none", "cancelled", "crashed"}
  BY DEF Faults
<1> QED BY <1>1 DEF AttemptOver, Finish, TypeOK

\* Every attempt that ends leaves clocks, calls and output as they are.
LEMMA AttemptEndsStep ==
  ASSUME IInv, pc \in {"await", "emit"},
         NEW f \in Faults, AttemptOver(f),
         f.class = "none" => request.stream,
         attempts' \in Seq([pos : Nat, class : AdapterErrors \cup {"none"},
                            hint : Hints \cup {NoHint}, at : Nat]),
         UNCHANGED <<request, now, index, pos, started, clocks, calls, chunks>>
  PROVE  IInv'
<1> USE DEF IInv
<1>1. outcome = "running"
  BY DEF CallState
<1>2. /\ pc' \in {"close", "judge", "end"}
      /\ fault' \in Faults /\ iterator' \in BOOLEAN
      /\ outcome' \in {"running", "cancelled", "crashed"}
      /\ pc' # "end" <=> outcome' = "running"
      /\ pc' = "judge" => fault'.class \in AdapterErrors
  BY <1>1, AttemptOverFacts
<1>3. TypeOK'
  BY <1>2 DEF TypeOK, clocks, Outcomes
<1>4. TimerBounds'
  BY DEF TimerBounds, clocks
<1>5. CallState'
  BY <1>2 DEF CallState, Permitted
<1>6. OutputState'
  BY <1>2 DEF OutputState, AdapterErrors
<1> QED BY <1>3, <1>4, <1>5, <1>6

\* Logging an attempt of a normalized class keeps the log well typed.
LEMMA LogType ==
  ASSUME TypeOK, NEW f \in Faults, f.class \in AdapterErrors \cup {"none"}, Log(f)
  PROVE  attempts' \in Seq([pos : Nat, class : AdapterErrors \cup {"none"},
                            hint : Hints \cup {NoHint}, at : Nat])
<1>1. [pos |-> pos, class |-> f.class, hint |-> f.hint, at |-> now] \in
        [pos : Nat, class : AdapterErrors \cup {"none"},
         hint : Hints \cup {NoHint}, at : Nat]
  BY BoundAssumption DEF TypeOK, Faults
<1> QED BY <1>1 DEF TypeOK, Log

LEMMA FaultTypes ==
  /\ NoFault \in Faults /\ NoFault.class = "none"
  /\ \A c \in AdapterErrors \cup {"none", "cancelled", "crashed"} :
       Fault(c) \in Faults /\ Fault(c).class = c
  /\ "timeout" \in AdapterErrors
BY DEF NoFault, Faults, Fault, AdapterErrors

LEMMA AnswerStep == IInv /\ Answer => IInv'
<1> SUFFICES ASSUME IInv, Answer PROVE IInv'
  OBVIOUS
<1> USE DEF IInv
<1>1. attempts' \in Seq([pos : Nat, class : AdapterErrors \cup {"none"},
                         hint : Hints \cup {NoHint}, at : Nat])
  BY FaultTypes, LogType DEF Answer
<1>2. TypeOK'
  BY <1>1 DEF TypeOK, Answer, Finish, clocks, Outcomes
<1>3. TimerBounds'
  BY DEF TimerBounds, Answer, clocks
<1>4. CallState'
  BY DEF CallState, Answer, Finish, Permitted
<1>5. OutputState'
  BY DEF OutputState, CallState, Answer, Finish, AdapterErrors
<1> QED BY <1>2, <1>3, <1>4, <1>5

LEMMA ChunkStep == \A final \in BOOLEAN : IInv /\ Chunk(final) => IInv'
<1> SUFFICES ASSUME NEW final \in BOOLEAN, IInv, Chunk(final) PROVE IInv'
  OBVIOUS
<1> USE DEF IInv
<1>1. [pos |-> pos, final |-> final] \in [pos : Nat, final : BOOLEAN]
  BY DEF TypeOK
<1>2. /\ chunks' \in Seq([pos : Nat, final : BOOLEAN]) /\ chunks' # <<>>
      /\ \A i \in DOMAIN chunks' : chunks'[i].pos = pos
  <2>1. chunks \in Seq([pos : Nat, final : BOOLEAN]) /\ \A i \in DOMAIN chunks : chunks[i].pos = pos
    BY DEF TypeOK, OutputState
  <2>2. chunks' = Append(chunks, [pos |-> pos, final |-> final])
    BY DEF Chunk
  <2> HIDE DEF IInv
  <2>3. /\ chunks' \in Seq([pos : Nat, final : BOOLEAN]) /\ chunks' # <<>>
        /\ \A i \in DOMAIN chunks' : \/ i \in DOMAIN chunks /\ chunks'[i] = chunks[i]
                                     \/ chunks'[i] = [pos |-> pos, final |-> final]
    BY <1>1, <2>1, <2>2, AppendFacts
  <2> QED BY <2>1, <2>3
<1>3. TypeOK'
  BY <1>2 DEF TypeOK, Chunk, clocks
<1>4. TimerBounds'
  BY DEF TimerBounds, Chunk, clocks
<1>5. CallState'
  BY DEF CallState, Chunk, Permitted
<1>6. OutputState'
  BY <1>2 DEF OutputState, CallState, Chunk, AdapterErrors
<1> QED BY <1>3, <1>4, <1>5, <1>6

LEMMA ExhaustedStep == IInv /\ Exhausted => IInv'
<1> SUFFICES ASSUME IInv, Exhausted PROVE IInv'
  OBVIOUS
<1>1. attempts' \in Seq([pos : Nat, class : AdapterErrors \cup {"none"},
                         hint : Hints \cup {NoHint}, at : Nat])
  BY FaultTypes, LogType DEF Exhausted, IInv
<1> QED BY <1>1, FaultTypes, AttemptEndsStep DEF Exhausted

LEMMA AdapterFailsStep ==
  ASSUME IInv, pc = "await", NEW f \in Faults, f.class # "none", AttemptOver(f),
         UNCHANGED <<request, now, index, pos, started, clocks, attempts, calls,
                     chunks>>
  PROVE  IInv'
<1>1. attempts' \in Seq([pos : Nat, class : AdapterErrors \cup {"none"},
                         hint : Hints \cup {NoHint}, at : Nat])
  BY DEF IInv, TypeOK
<1> QED BY <1>1, AttemptEndsStep

LEMMA ResumeStep == IInv /\ Resume => IInv'
<1> SUFFICES ASSUME IInv, Resume PROVE IInv'
  OBVIOUS
<1> USE DEF IInv
<1> DEFINE budget == StreamBudget(IdleTimeout, attemptEnd)
<1>1. \/ budget = 0 /\ fault' = Fault("timeout") /\ pc' = "close" /\ timer' = timer
      \/ budget # 0 /\ timer' = now + budget /\ pc' = "await" /\ fault' = fault
  BY DEF Resume
<1>2. timer' \in Nat /\ timer' <= Deadline
  <2>1. IdleTimeout \in Nat /\ attemptEnd \in Nat /\ Deadline \in Nat /\ now \in Nat
    BY TimeoutAssumption, BoundAssumption DEF TypeOK
  <2>2. /\ Remaining \in Nat /\ budget \in Nat /\ budget <= Remaining
        /\ now < Deadline => now + Remaining = Deadline
        /\ budget # 0 => now < Deadline
    BY <2>1, Budgets
  <2>3. CASE budget = 0
    BY <1>1, <2>3 DEF TypeOK, TimerBounds
  <2>4. CASE budget # 0
    <3>1. timer' = now + budget
      BY <1>1, <2>4
    <3> QED BY <3>1, <2>1, <2>2, <2>4
  <2> QED BY <2>3, <2>4
<1>3. fault' \in Faults /\ pc' \in {"close", "await"}
  BY <1>1, FaultTypes DEF TypeOK
<1>4. TypeOK'
  BY <1>2, <1>3 DEF TypeOK, Resume, history
<1>5. TimerBounds'
  BY <1>2 DEF TimerBounds, Resume
<1>6. CallState'
  BY <1>3 DEF CallState, Resume, history, Permitted
<1>7. OutputState'
  BY <1>3 DEF OutputState, Resume, history
<1> QED BY <1>4, <1>5, <1>6, <1>7

LEMMA CancelStep == IInv /\ Cancel => IInv'
<1> SUFFICES ASSUME IInv, Cancel PROVE IInv'
  OBVIOUS
<1>1. CASE pc \in {"await", "emit"} /\ AttemptOver(Fault("cancelled"))
  <2>1. attempts' \in Seq([pos : Nat, class : AdapterErrors \cup {"none"},
                           hint : Hints \cup {NoHint}, at : Nat])
    BY DEF Cancel, IInv, TypeOK
  <2>2. Fault("cancelled") \in Faults /\ Fault("cancelled").class # "none"
    BY FaultTypes
  <2>3. UNCHANGED <<request, now, index, pos, started, clocks, calls, chunks>>
    BY DEF Cancel
  <2> QED BY <1>1, <2>1, <2>2, <2>3, AttemptEndsStep
<1>2. CASE /\ pc \in {"sleep", "close"}
           /\ iterator' = FALSE /\ Finish("cancelled") /\ UNCHANGED fault
  <2> USE DEF IInv
  <2>1. TypeOK'
    BY <1>2 DEF TypeOK, Cancel, Finish, clocks, Outcomes
  <2>2. TimerBounds'
    BY DEF TimerBounds, Cancel, clocks
  <2>3. CallState'
    BY <1>2 DEF CallState, Cancel, Finish, Permitted
  <2>4. OutputState'
    BY <1>2 DEF OutputState, Cancel, Finish, AdapterErrors
  <2> QED BY <2>1, <2>2, <2>3, <2>4
<1> QED BY <1>1, <1>2 DEF Cancel

LEMMA CloseStep == IInv /\ Close => IInv'
<1> SUFFICES ASSUME IInv, Close PROVE IInv'
  OBVIOUS
<1> USE DEF IInv
<1>1. \/ pc' = "end" /\ outcome' \in {"success", "cancelled", "crashed"}
      \/ /\ pc' = "judge" /\ outcome' = outcome
         /\ fault.class \in AdapterErrors
  BY DEF Close, Finish, TypeOK, Faults
<1>2. TypeOK'
  BY <1>1 DEF TypeOK, Close, clocks, Outcomes
<1>3. TimerBounds'
  BY DEF TimerBounds, Close, clocks
<1>4. CallState'
  BY <1>1 DEF CallState, Close, Permitted
<1>5. OutputState'
  BY <1>1 DEF OutputState, CallState, Close, AdapterErrors
<1> QED BY <1>2, <1>3, <1>4, <1>5

LEMMA JudgeStep == IInv /\ Judge => IInv'
<1> SUFFICES ASSUME IInv, Judge PROVE IInv'
  OBVIOUS
<1> USE DEF IInv
<1>1. fault \in Faults /\ fault.class \in AdapterErrors
  BY DEF Judge, CallState, TypeOK
<1>2. attempts' \in Seq([pos : Nat, class : AdapterErrors \cup {"none"},
                         hint : Hints \cup {NoHint}, at : Nat])
  BY <1>1, LogType DEF Judge
<1>3. wake' \in Nat /\ wake' <= Deadline
  <2>1. CASE UNCHANGED wake
    BY <2>1 DEF TypeOK, TimerBounds
  <2>2. CASE /\ wake' = now + Delay(fault.hint) /\ fault.hint # NoHint
             /\ LeavesTime(fault.hint)
    <3>0. fault.hint \in Hints \cup {NoHint}
      BY <1>1 DEF Faults
    <3>1. fault.hint \in Nat /\ now \in Nat /\ Deadline \in Nat
      <4>1. fault.hint \in Nat
        BY <3>0, <2>2, HintAssumption
      <4>2. now \in Nat /\ Deadline \in Nat
        BY TimeoutAssumption, BoundAssumption DEF TypeOK
      <4> QED BY <4>1, <4>2
    <3>2. /\ Remaining \in Nat /\ Delay(fault.hint) \in Nat
          /\ Delay(fault.hint) <= Remaining
      BY <3>1, Budgets DEF Delay
    <3>3. now < Deadline /\ now + Remaining = Deadline
      BY <2>2, <3>1, <3>2 DEF LeavesTime, Remaining
    <3> QED BY <2>2, <3>1, <3>2, <3>3
  <2> QED BY <2>1, <2>2 DEF Judge, MustRaise
<1>4. \/ /\ pc' = "end" /\ outcome' = RaisedClass
         /\ RaisedClass \in AdapterErrors \cup {"stream_started_failure"}
      \/ pc' \in {"loop", "sleep"} /\ outcome' = outcome /\ ~started
  BY <1>1 DEF Judge, Finish, MustRaise, RaisedClass
<1>5. TypeOK'
  BY <1>2, <1>3, <1>4 DEF TypeOK, Judge, Outcomes
<1>6. TimerBounds'
  BY <1>3 DEF TimerBounds, Judge
<1>7. CallState'
  BY <1>4 DEF CallState, Judge, Permitted, AdapterErrors
<1>8. OutputState'
  <2>1. RaisedClass \in AdapterErrors => ~started
    BY DEF RaisedClass, AdapterErrors
  <2>2. RaisedClass = "stream_started_failure" => started
    BY <1>1 DEF RaisedClass, AdapterErrors
  <2> QED BY <1>4, <2>1, <2>2 DEF OutputState, Judge, CallState, AdapterErrors
<1> QED BY <1>5, <1>6, <1>7, <1>8

LEMMA WakeStep == IInv /\ Wake => IInv'
<1> SUFFICES ASSUME IInv, Wake PROVE IInv'
  OBVIOUS
<1> USE DEF IInv
<1>1. TypeOK' /\ TimerBounds'
  BY DEF TypeOK, TimerBounds, Wake, clocks, history
<1>2. CallState' /\ OutputState'
  BY DEF CallState, OutputState, Wake, history, Permitted
<1> QED BY <1>1, <1>2

LEMMA TickStep == IInv /\ Tick => IInv'
<1> SUFFICES ASSUME IInv, Tick PROVE IInv'
  OBVIOUS
<1> USE DEF IInv
<1>1. now' \in 0..Horizon
  BY BoundAssumption, TimeoutAssumption DEF TypeOK, TimerBounds, Tick
<1>2. TypeOK' /\ TimerBounds'
  BY <1>1 DEF TypeOK, TimerBounds, Tick, control, clocks, history
<1>3. CallState' /\ OutputState'
  BY DEF CallState, OutputState, Tick, control, history, Permitted
<1> QED BY <1>2, <1>3

LEMMA NextInvariant == IInv /\ [Next]_vars => IInv'
<1> SUFFICES ASSUME IInv, [Next]_vars PROVE IInv'
  OBVIOUS
<1>1. CASE BeginAttempt
  BY <1>1, BeginAttemptStep
<1>2. CASE DeadlineError
  BY <1>2, DeadlineErrorStep
<1>3. CASE TimerFires
  BY <1>3, FaultTypes, AdapterFailsStep DEF TimerFires, AdapterErrors
<1>4. CASE Close
  BY <1>4, CloseStep
<1>5. CASE Judge
  BY <1>5, JudgeStep
<1>6. CASE Wake
  BY <1>6, WakeStep
<1>7. CASE Answer
  BY <1>7, AnswerStep
<1>8. ASSUME NEW final \in BOOLEAN, Chunk(final) PROVE IInv'
  BY <1>8, ChunkStep
<1>9. CASE Exhausted
  BY <1>9, ExhaustedStep
<1>10. ASSUME NEW c \in AdapterErrors, NEW h \in Hints \cup {NoHint},
              ProviderFails([class |-> c, hint |-> h])
       PROVE  IInv'
  <2>1. /\ [class |-> c, hint |-> h] \in Faults
        /\ [class |-> c, hint |-> h].class # "none"
    BY DEF Faults, AdapterErrors
  <2> QED BY <1>10, <2>1, AdapterFailsStep DEF ProviderFails
<1>11. CASE AdapterCrashes
  BY <1>11, FaultTypes, AdapterFailsStep DEF AdapterCrashes
<1>12. CASE Resume
  BY <1>12, ResumeStep
<1>13. CASE Cancel
  BY <1>13, CancelStep
<1>14. CASE Tick
  BY <1>14, TickStep
<1>15. CASE UNCHANGED vars
  BY <1>15 DEF IInv, TypeOK, TimerBounds, CallState, OutputState, Permitted,
               vars, control, clocks, history
<1> QED BY <1>1, <1>2, <1>3, <1>4, <1>5, <1>6, <1>7, <1>8, <1>9, <1>10, <1>11,
           <1>12, <1>13, <1>14, <1>15
        DEF Next, Executor, AdapterActs, Ended

\* The invariant holds of every behaviour.
LEMMA Invariant == Spec => []IInv
BY InitInvariant, NextInvariant, PTL DEF Spec

------------------------------------------------------------------------------
\* The state of the executor is well typed; in particular the clock of a
\* request stays within its horizon and the attempts within max_attempts.
THEOREM TypeCorrect == Spec => []TypeOK
<1>1. IInv => TypeOK
  BY DEF IInv
<1> QED BY <1>1, Invariant, PTL

\* Restricted data never reaches an external provider, for every decision,
\* mis-built or not, every route and every behaviour of the adapters
\* (_permitted_providers).
THEOREM RestrictedNeverLeaves == Spec => []RestrictedStaysPrivate
<1>1. IInv => RestrictedStaysPrivate
  BY DEF IInv, CallState, RestrictedStaysPrivate, Permitted
<1> QED BY <1>1, Invariant, PTL

\* Once a chunk has been handed over no other provider is called (stream()).
THEOREM NoReplay == Spec => NoReplayAfterOutput
<1>1. IInv /\ [Next]_vars => [chunks # <<>> => calls' = calls]_vars
  <2> SUFFICES ASSUME IInv, [Next]_vars, chunks # <<>>, calls' # calls
               PROVE  FALSE
    OBVIOUS
  <2>1. BeginAttempt
    BY DEF Next, Executor, AdapterActs, Ended, DeadlineError, TimerFires, Close,
           Judge, Wake, Answer, Chunk, Exhausted, ProviderFails, AdapterCrashes,
           Resume, Cancel, Tick, vars, history
  <2>2. started
    BY DEF IInv, OutputState
  <2> QED BY <2>1, <2>2 DEF IInv, OutputState, BeginAttempt
<1> QED BY <1>1, Invariant, PTL DEF Spec, NoReplayAfterOutput

\* A failure behind partial output is raised as such and no other failure is,
\* and all output is of the last provider called.
THEOREM PartialOutputTold == Spec => []PartialOutputIsTold
<1>1. IInv => PartialOutputIsTold
  <2> SUFFICES ASSUME IInv PROVE PartialOutputIsTold
    OBVIOUS
  <2>1. chunks # <<>> => calls # <<>>
    BY DEF IInv, OutputState, CallState, TypeOK
  <2>2. \A i \in DOMAIN chunks : chunks # <<>>
    BY DEF IInv, TypeOK
  <2> QED BY <2>1, <2>2 DEF IInv, OutputState, CallState, PartialOutputIsTold
<1> QED BY <1>1, Invariant, PTL

------------------------------------------------------------------------------
\* The providers called so far are the first permitted ones, in order.
RouteState ==
  /\ calls = <<>> => pos = 0
  /\ \A i, j \in DOMAIN calls : i < j => calls[i].pos < calls[j].pos
  /\ \A i \in DOMAIN calls : \A p \in request.kept :
       Permitted(p) /\ p <= calls[i].pos => \E j \in 1..i : calls[j].pos = p

\* The current attempt has not been logged.
Unlogged ==
  pc \in {"await", "emit", "judge"} \/ (pc = "close" /\ fault.class # "none")

\* How the request ended is how its last attempt ended.
EndState ==
  LET last == attempts[Len(attempts)].class IN
  /\ outcome = "success" => last = "none"
  /\ outcome = "stream_started_failure" => last # "none"
  /\ outcome \in AdapterErrors \ {"timeout"} => attempts # <<>> /\ last = outcome
  /\ Len(calls) - Len(attempts) \in {0, 1}
  /\ outcome \in AdapterErrors \cup {"success", "stream_started_failure"} =>
       Len(attempts) = Len(calls)

\* The log against the calls: all attempts but the current one are in it, and all
\* behind which there is a call, or may be one, fall back.
LogState ==
  /\ pc # "end" => Len(calls) = Len(attempts) + (IF Unlogged THEN 1 ELSE 0)
  /\ pc = "end" => EndState
  /\ \A i \in DOMAIN attempts : attempts[i].pos = calls[i].pos
  /\ \A i \in DOMAIN attempts :
       i < Len(calls) \/ pc \in {"loop", "sleep"} => FallbackEligible(attempts[i].class)
  /\ pc = "close" /\ fault.class = "none" => attempts[Len(attempts)].class = "none"

\* When the provider behind the last logged failure may be called.
NotBefore(t) ==
  attempts # <<>> /\ attempts[Len(attempts)].hint # NoHint =>
    t >= attempts[Len(attempts)].at + attempts[Len(attempts)].hint

\* The times of the calls: before the deadline, and not before the last hint.
TimeState ==
  /\ \A i \in DOMAIN calls : calls[i].at < Deadline
  /\ pc \in {"await", "emit"} => attemptEnd = calls[Len(calls)].at + AttemptTimeout
  /\ pc = "await" => timer <= attemptEnd
  /\ pc = "sleep" => wake < Deadline /\ NotBefore(wake)
  /\ pc = "loop" => NotBefore(now)
  /\ RetryAfterRespected

HInv == RouteState /\ LogState /\ TimeState

------------------------------------------------------------------------------
\* Only the beginning of an attempt calls a provider.
LEMMA OnlyBegin ==
  ASSUME [Next]_vars, ~BeginAttempt
  PROVE  UNCHANGED <<request, calls, pos, attemptEnd>>
BY DEF Next, Executor, AdapterActs, Ended, DeadlineError, TimerFires, Close, Judge, Wake,
       Answer, Chunk, Exhausted, ProviderFails, AdapterCrashes, Resume, Cancel, Tick, vars,
       history, control, clocks

\* The entries of a log.
LEMMA Entries ==
  ASSUME NEW S, NEW s \in Seq(S)
  PROVE  \A i \in DOMAIN s : s[i] \in S
OBVIOUS

\* The entries of the two logs are numbers.
LEMMA CallTypes ==
  ASSUME TypeOK
  PROVE  /\ Len(calls) \in Nat /\ Len(attempts) \in Nat
         /\ DOMAIN calls = 1..Len(calls) /\ DOMAIN attempts = 1..Len(attempts)
         /\ calls = <<>> <=> Len(calls) = 0
         /\ attempts = <<>> <=> Len(attempts) = 0
         /\ \A i \in DOMAIN calls : calls[i].pos \in Nat /\ calls[i].at \in Nat
         /\ \A i \in DOMAIN attempts :
              /\ attempts[i].at \in Nat
              /\ attempts[i].hint \in Hints \cup {NoHint}
              /\ attempts[i].hint # NoHint => attempts[i].hint \in Nat
<1>1. /\ calls \in Seq([pos : Nat, at : Nat])
      /\ attempts \in Seq([pos : Nat, class : AdapterErrors \cup {"none"},
                           hint : Hints \cup {NoHint}, at : Nat])
  BY DEF TypeOK
<1>2. /\ \A i \in DOMAIN calls : calls[i] \in [pos : Nat, at : Nat]
      /\ \A i \in DOMAIN attempts :
           attempts[i] \in [pos : Nat, class : AdapterErrors \cup {"none"},
                            hint : Hints \cup {NoHint}, at : Nat]
  BY <1>1, Entries
<1>3. \A i \in DOMAIN attempts :
        /\ attempts[i].at \in Nat
        /\ attempts[i].hint \in Hints \cup {NoHint}
        /\ attempts[i].hint # NoHint => attempts[i].hint \in Nat
  BY <1>2, HintAssumption
<1> QED BY <1>1, <1>2, <1>3

\* The call a BeginAttempt makes is appended; those before it stay.
LEMMA CallMade ==
  ASSUME IInv, BeginAttempt
  PROVE  \E p \in Following :
           /\ IsNext(p) /\ p \in Nat /\ pos' = p /\ now \in Nat
           /\ calls \in Seq([pos : Nat, at : Nat])
           /\ Len(calls') = Len(calls) + 1 /\ Len(calls) \in Nat
           /\ DOMAIN calls = 1..Len(calls) /\ DOMAIN calls' = 1..Len(calls')
           /\ calls'[Len(calls')] = [pos |-> p, at |-> now]
           /\ \A i \in DOMAIN calls : calls'[i] = calls[i]
<1>1. PICK p \in Following :
        IsNext(p) /\ pos' = p /\ calls' = Append(calls, [pos |-> p, at |-> now])
  BY DEF BeginAttempt
<1>2. p \in Nat /\ now \in Nat /\ calls \in Seq([pos : Nat, at : Nat])
  BY RequestType, BoundAssumption DEF IInv, TypeOK, Following
<1>3. [pos |-> p, at |-> now] \in [pos : Nat, at : Nat]
  BY <1>2
<1>4. /\ Len(calls') = Len(calls) + 1 /\ Len(calls) \in Nat
      /\ DOMAIN calls = 1..Len(calls) /\ DOMAIN calls' = 1..Len(calls')
      /\ calls'[Len(calls')] = [pos |-> p, at |-> now]
      /\ \A i \in DOMAIN calls : calls'[i] = calls[i]
  BY <1>1, <1>2, <1>3
<1> QED BY <1>1, <1>2, <1>4

LEMMA RouteInit == Init => RouteState
BY DEF Init, Idle, RouteState

\* The next provider is the first permitted one behind the last called.
LEMMA RouteBegin == ASSUME IInv, RouteState, BeginAttempt PROVE RouteState'
<1>1. PICK p \in Following :
           /\ IsNext(p) /\ p \in Nat /\ pos' = p
           /\ calls \in Seq([pos : Nat, at : Nat])
           /\ Len(calls') = Len(calls) + 1 /\ Len(calls) \in Nat
           /\ DOMAIN calls = 1..Len(calls) /\ DOMAIN calls' = 1..Len(calls')
           /\ calls'[Len(calls')] = [pos |-> p, at |-> now]
           /\ \A i \in DOMAIN calls : calls'[i] = calls[i]
  BY CallMade
<1> DEFINE n == Len(calls)
<1>2. /\ request' = request /\ pos \in Nat
      /\ \A q : Permitted(q)' <=> Permitted(q)
  BY DEF BeginAttempt, Permitted, IInv, TypeOK
<1>3. p > pos /\ \A q \in request.kept : Permitted(q) /\ q > pos => p <= q
  BY <1>1 DEF Following, IsNext
<1>4. /\ n = 0 => pos = 0
      /\ n # 0 => n \in DOMAIN calls /\ calls[n].pos = pos
      /\ \A i \in DOMAIN calls : calls[i].pos \in Nat /\ calls[i].pos <= pos
  <2>1. n = 0 => calls = <<>>
    BY <1>1
  <2>2. n # 0 => calls # <<>> /\ n \in DOMAIN calls
    BY <1>1
  <2>3. \A i \in DOMAIN calls : calls[i].pos \in Nat
    BY CallTypes DEF IInv
  <2>4. \A i \in DOMAIN calls : i = n \/ i < n
    BY <1>1
  <2> QED BY <2>1, <2>2, <2>3, <2>4 DEF IInv, CallState, RouteState
<1>5. calls' # <<>>
  BY <1>1
<1>6. \A i, j \in DOMAIN calls' : i < j => calls'[i].pos < calls'[j].pos
  <2> SUFFICES ASSUME NEW i \in DOMAIN calls', NEW j \in DOMAIN calls', i < j
               PROVE  calls'[i].pos < calls'[j].pos
    OBVIOUS
  <2>1. i \in DOMAIN calls
    BY <1>1
  <2>2. CASE j \in DOMAIN calls
    BY <1>1, <2>1, <2>2 DEF RouteState
  <2>3. CASE j = n + 1
    <3>1. calls'[j].pos = p /\ calls'[i].pos = calls[i].pos
      BY <1>1, <2>1, <2>3
    <3>2. calls[i].pos \in Nat /\ calls[i].pos <= pos
      BY <1>4, <2>1
    <3> QED BY <1>1, <1>2, <1>3, <3>1, <3>2
  <2> QED BY <1>1, <2>2, <2>3
<1>7. ASSUME NEW i \in DOMAIN calls', NEW q \in request.kept, Permitted(q),
             q <= calls'[i].pos
      PROVE  \E j \in 1..i : calls'[j].pos = q
  <2>0. q \in Nat /\ i \in Nat /\ i \in 1..i
    BY <1>1, RequestType DEF IInv, TypeOK
  <2>1. ASSUME NEW k \in DOMAIN calls, q <= calls[k].pos, k <= i
        PROVE  \E j \in 1..i : calls'[j].pos = q
    <3>1. PICK j \in 1..k : calls[j].pos = q
      BY <1>7, <2>1 DEF RouteState
    <3>2. j \in DOMAIN calls /\ j \in 1..i
      BY <1>1, <2>0, <2>1
    <3> QED BY <1>1, <3>1, <3>2
  <2>2. CASE i \in DOMAIN calls
    BY <1>1, <1>7, <2>0, <2>1, <2>2
  <2>3. CASE i = n + 1 /\ q > pos
    BY <1>1, <1>3, <1>7, <2>0, <2>3
  <2>4. CASE i = n + 1 /\ ~(q > pos)
    <3>1. n # 0
      <4>1. q \in 1..Len(request.route)
        BY RequestType DEF IInv, TypeOK
      <4> QED BY <1>4, <2>0, <2>4, <4>1
    <3>2. n \in DOMAIN calls /\ q <= calls[n].pos /\ n <= i
      BY <1>1, <1>2, <1>4, <2>0, <2>4, <3>1
    <3> QED BY <2>1, <3>2
  <2> QED BY <1>1, <2>2, <2>3, <2>4
<1> QED BY <1>2, <1>5, <1>6, <1>7 DEF RouteState

LEMMA RouteStep == ASSUME IInv, RouteState, [Next]_vars PROVE RouteState'
<1>1. CASE BeginAttempt
  BY <1>1, RouteBegin
<1>2. CASE ~BeginAttempt
  BY <1>2, OnlyBegin DEF RouteState, Permitted
<1> QED BY <1>1, <1>2

------------------------------------------------------------------------------
\* An entry is appended for the current attempt; those before it stay.
LEMMA Logged ==
  ASSUME TypeOK, NEW f \in Faults, f.class \in AdapterErrors \cup {"none"}, Log(f)
  PROVE  /\ Len(attempts') = Len(attempts) + 1
         /\ DOMAIN attempts' = 1..(Len(attempts) + 1)
         /\ attempts'[Len(attempts) + 1] =
              [pos |-> pos, class |-> f.class, hint |-> f.hint, at |-> now]
         /\ \A i \in DOMAIN attempts : attempts'[i] = attempts[i]
<1> DEFINE S == [pos : Nat, class : AdapterErrors \cup {"none"}, hint : Hints \cup {NoHint},
                 at : Nat]
           e == [pos |-> pos, class |-> f.class, hint |-> f.hint, at |-> now]
<1>1. e \in S
  BY BoundAssumption DEF TypeOK, Faults
<1>2. attempts \in Seq(S) /\ attempts' = Append(attempts, e)
  BY DEF TypeOK, Log
<1> HIDE DEF S, e
<1>3. /\ Len(attempts') = Len(attempts) + 1
      /\ DOMAIN attempts' = 1..(Len(attempts) + 1)
      /\ attempts'[Len(attempts) + 1] = e
      /\ \A i \in DOMAIN attempts : attempts'[i] = attempts[i]
  BY <1>1, <1>2
<1> QED BY <1>3 DEF e

LEMMA LogInit == Init => LogState
BY DEF Init, Idle, LogState, Unlogged

\* A step that neither calls nor logs, but goes on or ends the request.
LEMMA LogRests ==
  ASSUME IInv, LogState, UNCHANGED <<attempts, calls>>,
         pc # "end",
         pc' = "end" => EndState',
         pc' # "end" => Unlogged' = Unlogged,
         pc' \in {"loop", "sleep"} => pc \in {"loop", "sleep"},
         pc' = "close" /\ fault'.class = "none" => pc = "close" /\ fault.class = "none"
  PROVE  LogState'
BY DEF LogState, FallbackEligible

LEMMA LogBegin == ASSUME IInv, LogState, BeginAttempt PROVE LogState'
<1>1. PICK p \in Following :
           /\ Len(calls') = Len(calls) + 1 /\ Len(calls) \in Nat
           /\ DOMAIN calls = 1..Len(calls)
           /\ \A i \in DOMAIN calls : calls'[i] = calls[i]
  BY CallMade
<1>2. /\ pc = "loop" /\ pc' = "await" /\ attempts' = attempts
      /\ ~Unlogged /\ Unlogged'
  BY DEF BeginAttempt, Unlogged
<1>3. Len(attempts) = Len(calls) /\ DOMAIN attempts = DOMAIN calls
  BY <1>1, <1>2, CallTypes DEF LogState, IInv
<1> QED BY <1>1, <1>2, <1>3 DEF LogState, FallbackEligible

\* The current attempt is logged.
LEMMA LogLogs ==
  ASSUME IInv, LogState, Unlogged, pc # "end",
         NEW f \in Faults, f.class \in AdapterErrors \cup {"none"}, Log(f),
         calls' = calls,
         pc' = "end" \/ ~Unlogged',
         pc' \in {"loop", "sleep"} => FallbackEligible(f.class),
         pc' = "close" => f.class = "none",
         outcome' = "success" => f.class = "none",
         outcome' = "stream_started_failure" => f.class # "none",
         outcome' \in AdapterErrors => f.class = outcome'
  PROVE  LogState'
<1> DEFINE n == Len(attempts)
<1>1. /\ Len(attempts') = n + 1 /\ DOMAIN attempts' = 1..(n + 1)
      /\ attempts'[n + 1] = [pos |-> pos, class |-> f.class, hint |-> f.hint, at |-> now]
      /\ \A i \in DOMAIN attempts : attempts'[i] = attempts[i]
  BY Logged DEF IInv
<1>2. n \in Nat /\ Len(calls) = n + 1 /\ DOMAIN attempts = 1..n
  BY CallTypes DEF LogState, IInv
<1>3. calls[n + 1].pos = pos
  BY <1>2, CallTypes DEF IInv, CallState
<1>4. \A i \in DOMAIN attempts' : i \in DOMAIN attempts \/ i = n + 1
  BY <1>1, <1>2
<1>5. \A i \in DOMAIN attempts' : attempts'[i].pos = calls'[i].pos
  BY <1>1, <1>3, <1>4 DEF LogState
<1>6. \A i \in DOMAIN attempts' :
        i < Len(calls') \/ pc' \in {"loop", "sleep"} => FallbackEligible(attempts'[i].class)
  BY <1>1, <1>2, <1>4 DEF LogState, FallbackEligible
<1>7. attempts' # <<>> /\ attempts'[Len(attempts')].class = f.class
  BY <1>1, <1>2
<1>8. EndState'
  BY <1>1, <1>2, <1>7 DEF EndState
<1>9. pc' # "end" => Len(calls') = Len(attempts') + (IF Unlogged' THEN 1 ELSE 0)
  BY <1>1, <1>2
<1> QED BY <1>5, <1>6, <1>7, <1>8, <1>9 DEF LogState

\* An adapter call that ends in a failure leaves its attempt to be logged, or cut
\* short.
LEMMA LogFails ==
  ASSUME IInv, LogState, pc \in {"await", "emit"}, NEW f \in Faults, f.class # "none",
         AttemptOver(f), UNCHANGED <<attempts, calls>>
  PROVE  LogState'
<1>1. \/ pc' = "close" /\ fault' = f
      \/ pc' = "judge"
      \/ pc' = "end" /\ outcome' \in {"cancelled", "crashed"}
  BY DEF AttemptOver, Finish
<1>2. Len(calls) = Len(attempts) + 1 /\ Len(attempts) \in Nat
  BY CallTypes DEF LogState, Unlogged, IInv
<1>3. pc' = "end" => EndState'
  BY <1>1, <1>2 DEF EndState, AdapterErrors
<1> QED BY <1>1, <1>3, LogRests DEF Unlogged

LEMMA LogStep == ASSUME IInv, LogState, [Next]_vars PROVE LogState'
<1>1. CASE BeginAttempt
  BY <1>1, LogBegin
<1>2. CASE DeadlineError
  <2>1. Len(calls) = Len(attempts) /\ Len(attempts) \in Nat
    BY <1>2, CallTypes DEF LogState, Unlogged, IInv, DeadlineError
  <2>2. EndState'
    BY <1>2, <2>1 DEF EndState, DeadlineError, Finish, AdapterErrors
  <2> QED BY <1>2, <2>2, LogRests DEF DeadlineError, Finish
<1>3. CASE TimerFires
  BY <1>3, FaultTypes, LogFails DEF TimerFires, AdapterErrors
<1>4. CASE Close
  <2>1. Len(attempts) \in Nat /\ Len(calls) = Len(attempts) + (IF Unlogged THEN 1 ELSE 0)
    BY <1>4, CallTypes DEF LogState, IInv, Close
  <2>2. /\ pc = "close"
        /\ \/ fault.class = "none" /\ pc' = "end" /\ outcome' = "success"
           \/ pc' = "end" /\ outcome' \in {"cancelled", "crashed"}
           \/ pc' = "judge" /\ fault.class # "none"
        /\ UNCHANGED <<attempts, calls>>
    BY <1>4 DEF Close, Finish
  <2>3. pc' = "end" => EndState'
    BY <2>1, <2>2 DEF EndState, LogState, Unlogged, AdapterErrors
  <2> QED BY <2>2, <2>3, LogRests DEF Unlogged
<1>5. CASE Judge
  <2>1. fault \in Faults /\ fault.class \in AdapterErrors
    BY <1>5 DEF IInv, TypeOK, CallState, Judge
  <2>2. \/ pc' = "end" /\ outcome' = RaisedClass
        \/ pc' \in {"loop", "sleep"} /\ FallbackEligible(fault.class) /\ outcome' = outcome
    BY <1>5 DEF Judge, Finish, MustRaise
  <2>3. outcome = "running"
    BY <1>5 DEF IInv, CallState, Judge
  <2>4. "running" \notin AdapterErrors /\ "success" \notin AdapterErrors
        /\ "none" \notin AdapterErrors /\ "stream_started_failure" \notin AdapterErrors
    BY DEF AdapterErrors
  <2> QED BY <1>5, <2>1, <2>2, <2>3, <2>4, LogLogs DEF Judge, Unlogged, RaisedClass
<1>6. CASE Wake
  BY <1>6, LogRests DEF Wake, history, Unlogged
<1>7. CASE Answer
  BY <1>7, FaultTypes, LogLogs DEF Answer, Finish, Unlogged, AdapterErrors
<1>8. ASSUME NEW final \in BOOLEAN, Chunk(final) PROVE LogState'
  BY <1>8, LogRests DEF Chunk, Unlogged
<1>9. CASE Exhausted
  <2>1. pc' = "close" /\ fault' = NoFault /\ outcome' = outcome /\ outcome = "running"
    BY <1>9 DEF Exhausted, AttemptOver, IInv, CallState
  <2> QED BY <1>9, <2>1, FaultTypes, LogLogs DEF Exhausted, Unlogged, AdapterErrors
<1>10. ASSUME NEW c \in AdapterErrors, NEW h \in Hints \cup {NoHint},
              ProviderFails([class |-> c, hint |-> h])
       PROVE  LogState'
  <2>1. /\ [class |-> c, hint |-> h] \in Faults
        /\ [class |-> c, hint |-> h].class # "none"
    BY DEF Faults, AdapterErrors
  <2> QED BY <1>10, <2>1, LogFails DEF ProviderFails
<1>11. CASE AdapterCrashes
  BY <1>11, FaultTypes, LogFails DEF AdapterCrashes
<1>12. CASE Resume
  <2>1. \/ pc' = "close" /\ fault' = Fault("timeout")
        \/ pc' = "await"
    BY <1>12 DEF Resume
  <2>2. Fault("timeout").class = "timeout"
    BY DEF Fault
  <2> QED BY <1>12, <2>1, <2>2, LogRests DEF Resume, history, Unlogged
<1>13. CASE Cancel
  <2>1. CASE pc \in {"await", "emit"} /\ AttemptOver(Fault("cancelled"))
    BY <1>13, <2>1, FaultTypes, LogFails DEF Cancel
  <2>2. CASE pc \in {"sleep", "close"} /\ Finish("cancelled")
    <3>1. Len(attempts) \in Nat /\ Len(calls) = Len(attempts) + (IF Unlogged THEN 1 ELSE 0)
      BY <2>2, CallTypes DEF LogState, IInv
    <3>2. EndState'
      BY <1>13, <2>2, <3>1 DEF EndState, Cancel, Finish, AdapterErrors
    <3> QED BY <1>13, <2>2, <3>2, LogRests DEF Cancel, Finish
  <2> QED BY <1>13, <2>1, <2>2 DEF Cancel
<1>14. CASE Tick
  BY <1>14, LogRests DEF Tick, control, history, Unlogged
<1>15. CASE UNCHANGED vars
  BY <1>15 DEF vars, control, history, LogState, Unlogged, EndState, FallbackEligible
<1> QED BY <1>1, <1>2, <1>3, <1>4, <1>5, <1>6, <1>7, <1>8, <1>9, <1>10, <1>11,
           <1>12, <1>13, <1>14, <1>15
        DEF Next, Executor, AdapterActs, Ended
------------------------------------------------------------------------------
LEMMA TimeInit == Init => TimeState
BY DEF Init, Idle, TimeState, NotBefore, RetryAfterRespected

\* A step that neither calls nor logs, and sets no clock that matters.
LEMMA TimeRests ==
  ASSUME TimeState, UNCHANGED <<attempts, calls, attemptEnd>>,
         pc' \in {"await", "emit"} => pc \in {"await", "emit"},
         pc' = "await" => timer' <= attemptEnd,
         pc' = "sleep" => pc = "sleep" /\ wake' = wake,
         pc' = "loop" => NotBefore(now')
  PROVE  TimeState'
BY DEF TimeState, NotBefore, RetryAfterRespected

LEMMA TimeBegin == ASSUME IInv, LogState, TimeState, BeginAttempt PROVE TimeState'
<1>1. PICK p \in Following :
           /\ now \in Nat
           /\ Len(calls') = Len(calls) + 1 /\ Len(calls) \in Nat
           /\ DOMAIN calls = 1..Len(calls) /\ DOMAIN calls' = 1..Len(calls')
           /\ calls'[Len(calls')] = [pos |-> p, at |-> now]
           /\ \A i \in DOMAIN calls : calls'[i] = calls[i]
  BY CallMade
<1> DEFINE n == Len(calls)
<1>2. /\ pc = "loop" /\ pc' = "await" /\ attempts' = attempts /\ now < Deadline
      /\ attemptEnd' = now + AttemptTimeout
      /\ timer' = now + IF request.stream
                        THEN StreamBudget(HeaderTimeout, now + AttemptTimeout)
                        ELSE Least(AttemptTimeout, Remaining)
  BY DEF BeginAttempt
<1>3. Len(attempts) = n /\ DOMAIN attempts = 1..n
  BY <1>1, <1>2, CallTypes DEF LogState, IInv, Unlogged
<1>4. timer' <= attemptEnd'
  <2>1. /\ HeaderTimeout \in Nat /\ AttemptTimeout \in Nat /\ now + AttemptTimeout \in Nat
    BY <1>1, TimeoutAssumption
  <2>2. /\ Least(AttemptTimeout, Remaining) \in Nat
        /\ Least(AttemptTimeout, Remaining) <= AttemptTimeout
        /\ StreamBudget(HeaderTimeout, now + AttemptTimeout) \in Nat
        /\ StreamBudget(HeaderTimeout, now + AttemptTimeout) # 0 =>
             now + StreamBudget(HeaderTimeout, now + AttemptTimeout) <= now + AttemptTimeout
    BY <2>1, Budgets DEF IInv
  <2> QED BY <1>1, <1>2, <2>1, <2>2
<1>5. \A i \in DOMAIN calls' : calls'[i].at < Deadline
  BY <1>1, <1>2 DEF TimeState
<1>6. ASSUME NEW i \in DOMAIN attempts, attempts[i].hint # NoHint, i + 1 \in DOMAIN calls'
      PROVE  calls'[i + 1].at >= attempts[i].at + attempts[i].hint
  <2>1. CASE i = n
    <3>1. attempts # <<>> /\ calls'[i + 1].at = now
      BY <1>1, <1>3, <2>1
    <3> QED BY <1>2, <1>3, <1>6, <2>1, <3>1 DEF TimeState, NotBefore
  <2>2. CASE i # n
    <3>1. i + 1 \in DOMAIN calls
      BY <1>1, <1>3, <2>2
    <3> QED BY <1>1, <1>6, <3>1 DEF TimeState, RetryAfterRespected
  <2> QED BY <2>1, <2>2
<1>7. calls'[Len(calls')].at = now
  BY <1>1
<1> QED BY <1>2, <1>4, <1>5, <1>6, <1>7 DEF TimeState, RetryAfterRespected

\* What is logged before the next provider can be called changes no time of a call.
LEMMA TimeLogs ==
  ASSUME IInv, LogState, TimeState, Unlogged, pc # "end", UNCHANGED <<calls, attemptEnd>>,
         NEW f \in Faults, f.class \in AdapterErrors \cup {"none"}, Log(f),
         pc' \in {"loop", "sleep", "close", "end"},
         pc' = "loop" => f.hint = NoHint,
         pc' = "sleep" => /\ f.hint \in Nat /\ wake' < Deadline
                          /\ wake' >= now + f.hint
  PROVE  TimeState'
<1> DEFINE n == Len(attempts)
<1>1. /\ Len(attempts') = n + 1 /\ DOMAIN attempts' = 1..(n + 1)
      /\ attempts'[n + 1] = [pos |-> pos, class |-> f.class, hint |-> f.hint, at |-> now]
      /\ \A i \in DOMAIN attempts : attempts'[i] = attempts[i]
  BY Logged DEF IInv
<1>2. n \in Nat /\ Len(calls) = n + 1 /\ DOMAIN attempts = 1..n /\ DOMAIN calls = 1..(n + 1)
  BY CallTypes DEF LogState, IInv
<1>3. ASSUME NEW i \in DOMAIN attempts', attempts'[i].hint # NoHint, i + 1 \in DOMAIN calls'
      PROVE  calls'[i + 1].at >= attempts'[i].at + attempts'[i].hint
  <2>1. i \in DOMAIN attempts
    BY <1>1, <1>2, <1>3
  <2> QED BY <1>1, <1>3, <2>1 DEF TimeState, RetryAfterRespected
<1>4. attempts'[Len(attempts')].hint = f.hint /\ attempts'[Len(attempts')].at = now
  BY <1>1, <1>2
<1> QED BY <1>3, <1>4 DEF TimeState, NotBefore, RetryAfterRespected

\* The delay of an admitted Retry-After is the whole hint, and ends before the
\* deadline.
LEMMA DelayIsHint ==
  ASSUME TypeOK, NEW hint \in Nat, LeavesTime(hint)
  PROVE  Delay(hint) = hint /\ now + Delay(hint) < Deadline
BY TimeoutAssumption, BoundAssumption DEF TypeOK, LeavesTime, Delay, Least, Remaining

LEMMA TimeStep == ASSUME IInv, LogState, TimeState, [Next]_vars PROVE TimeState'
<1>1. CASE BeginAttempt
  BY <1>1, TimeBegin
<1>2. CASE Judge
  <2>1. fault \in Faults /\ fault.class \in AdapterErrors
    BY <1>2 DEF IInv, TypeOK, CallState, Judge
  <2>2. \/ pc' = "end"
        \/ pc' = "loop" /\ fault.hint = NoHint
        \/ /\ pc' = "sleep" /\ fault.hint # NoHint /\ LeavesTime(fault.hint)
           /\ wake' = now + Delay(fault.hint)
    BY <1>2 DEF Judge, Finish, MustRaise
  <2>3. fault.hint # NoHint => fault.hint \in Nat
    BY <2>1, HintAssumption DEF Faults
  <2>4. now \in Nat
    BY BoundAssumption DEF IInv, TypeOK
  <2>5. pc' = "sleep" =>
          fault.hint \in Nat /\ wake' < Deadline /\ wake' >= now + fault.hint
    BY <2>2, <2>3, <2>4, DelayIsHint DEF IInv
  <2> QED BY <1>2, <2>1, <2>2, <2>5, TimeLogs DEF Judge, Unlogged
<1>3. CASE Answer \/ Exhausted
  <2>1. pc' \in {"close", "end"} /\ UNCHANGED <<calls, attemptEnd>>
    BY <1>3 DEF Answer, Exhausted, AttemptOver, Finish, clocks
  <2> QED BY <1>3, <2>1, FaultTypes, TimeLogs DEF Answer, Exhausted, Unlogged
<1>4. CASE Resume
  <2>1. pc' = "await" => timer' <= attemptEnd
    <3>1. IdleTimeout \in Nat /\ attemptEnd \in Nat
      BY TimeoutAssumption DEF IInv, TypeOK
    <3> QED BY <1>4, <3>1, Budgets DEF Resume, IInv
  <2>2. pc = "emit" /\ pc' \in {"await", "close"} /\ UNCHANGED <<attempts, calls, attemptEnd>>
    BY <1>4 DEF Resume, history
  <2> QED BY <2>1, <2>2, TimeRests
<1>5. CASE Tick
  <2>1. /\ now' = now + 1 /\ now \in Nat /\ pc' = pc /\ pc # "loop"
        /\ UNCHANGED <<attempts, calls, attemptEnd, timer, wake>>
    BY <1>5, BoundAssumption DEF Tick, control, clocks, history, IInv, TypeOK
  <2> QED BY <2>1, TimeRests DEF TimeState
<1>6. CASE Wake
  <2>1. /\ pc = "sleep" /\ pc' = "loop" /\ now' = now /\ now >= wake
        /\ UNCHANGED <<attempts, calls, attemptEnd>>
    BY <1>6 DEF Wake, clocks, history
  <2>2. NotBefore(now)
    <3>1. now \in Nat /\ wake \in Nat
      BY BoundAssumption DEF IInv, TypeOK
    <3>2. ASSUME attempts # <<>>, attempts[Len(attempts)].hint # NoHint
          PROVE  /\ attempts[Len(attempts)].at \in Nat
                 /\ attempts[Len(attempts)].hint \in Nat
      BY <3>2, CallTypes DEF IInv
    <3> QED BY <2>1, <3>1, <3>2 DEF TimeState, NotBefore
  <2> QED BY <2>1, <2>2, TimeRests
<1>7. CASE \/ DeadlineError \/ TimerFires \/ Close \/ AdapterCrashes \/ Cancel
           \/ \E final \in BOOLEAN : Chunk(final)
           \/ \E c \in AdapterErrors, h \in Hints \cup {NoHint} :
                ProviderFails([class |-> c, hint |-> h])
  <2>1. /\ UNCHANGED <<attempts, calls, attemptEnd>>
        /\ pc' \in {"emit", "close", "judge", "end"}
        /\ pc' = "emit" => pc = "await"
    BY <1>7 DEF DeadlineError, TimerFires, Close, AdapterCrashes, Cancel, Chunk,
                ProviderFails, AttemptOver, Finish, clocks
  <2> QED BY <2>1, TimeRests
<1>8. CASE UNCHANGED vars
  BY <1>8 DEF vars, control, clocks, history, TimeState, NotBefore, RetryAfterRespected
<1> QED BY <1>1, <1>2, <1>3, <1>4, <1>5, <1>6, <1>7, <1>8
        DEF Next, Executor, AdapterActs, Ended

LEMMA HistoryInvariant == Spec => []HInv
<1>1. Init => HInv
  BY RouteInit, LogInit, TimeInit DEF HInv
<1>2. IInv /\ HInv /\ [Next]_vars => HInv'
  BY RouteStep, LogStep, TimeStep DEF HInv
<1> QED BY <1>1, <1>2, Invariant, PTL DEF Spec
------------------------------------------------------------------------------
\* The providers called are the first permitted ones of the route, in order, each
\* once, and at most max_attempts (the loop of chat() and stream()).
THEOREM RouteIsFollowed == Spec => []AttemptsFollowRoute
<1>1. IInv => Len(calls) <= MaxAttempts
  BY PolicyAssumption DEF IInv, TypeOK, CallState
<1>2. IInv /\ HInv => AttemptsFollowRoute
  BY <1>1 DEF HInv, RouteState, AttemptsFollowRoute
<1> QED BY <1>2, Invariant, HistoryInvariant, PTL

\* The deadline spans all attempts, for all timeouts, hints and lags of the event
\* loop: no call begins behind it, no timer is set behind it or behind the attempt's
\* own, and a Retry-After sleep leaves time.
THEOREM DeadlineSpans == Spec => []DeadlineSpansAttempts
<1>1. IInv /\ HInv => DeadlineSpansAttempts
  BY DEF IInv, TimerBounds, HInv, TimeState, DeadlineSpansAttempts
<1> QED BY <1>1, Invariant, HistoryInvariant, PTL

\* The provider tried behind a failure with Retry-After is called no sooner than
\* that says (_wait_for_retry_after).
THEOREM RetryAfterHolds == Spec => []RetryAfterRespected
<1>1. HInv => RetryAfterRespected
  BY DEF HInv, TimeState
<1> QED BY <1>1, HistoryInvariant, PTL

\* The attempt log the gateway counts from tells the calls, in order, and how the
\* request ended.
THEOREM LogIsTrue == Spec => []LogTellsAttempts
<1>1. IInv /\ HInv => LogTellsAttempts
  <2> SUFFICES ASSUME IInv, HInv PROVE LogTellsAttempts
    OBVIOUS
  <2>1. /\ Len(calls) \in Nat /\ Len(attempts) \in Nat
        /\ attempts = <<>> <=> Len(attempts) = 0
        /\ calls = <<>> <=> Len(calls) = 0
    BY CallTypes DEF IInv
  <2>2. pc # "end" => outcome = "running"
    BY DEF IInv, CallState
  <2>3. Len(calls) - Len(attempts) \in {0, 1}
    BY <2>1 DEF HInv, LogState, EndState
  <2>4. outcome \in AdapterErrors \cup {"success", "stream_started_failure"} => EndState
    BY <2>2 DEF HInv, LogState, AdapterErrors
  <2>5. outcome \in {"success", "stream_started_failure"} => calls # <<>>
    BY DEF IInv, OutputState
  <2>6. outcome \in {"success", "stream_started_failure"} => attempts # <<>>
    BY <2>1, <2>4, <2>5 DEF EndState
  <2>7. /\ \A i \in DOMAIN attempts : attempts[i].pos = calls[i].pos
        /\ \A i \in DOMAIN attempts :
             i < Len(calls) => FallbackEligible(attempts[i].class)
    BY DEF HInv, LogState
  <2> QED BY <2>3, <2>4, <2>6, <2>7 DEF LogTellsAttempts, EndState
<1> QED BY <1>1, Invariant, HistoryInvariant, PTL

\* Nothing is left open upstream when the executor is not in a call: the finally
\* clauses close it on every way out, cancelled or not.
THEOREM AdapterIsReleased == Spec => []AdapterReleased
<1>1. Init => AdapterReleased
  BY DEF Init, Idle, AdapterReleased
<1>2. IInv /\ AdapterReleased /\ [Next]_vars => AdapterReleased'
  BY DEF AdapterReleased, Next, Executor, AdapterActs, Ended, BeginAttempt, DeadlineError,
         TimerFires, Close, Judge, Wake, Answer, Chunk, Exhausted, ProviderFails,
         AdapterCrashes, Resume, Cancel, Tick, AttemptOver, Finish, vars, control
<1> QED BY <1>1, <1>2, Invariant, PTL DEF Spec

------------------------------------------------------------------------------
\* The executor implements the safety part of its contract: it begins as the
\* contract does, and every step is one of the contract or leaves its state.
ContractStep == [Contract!Next]_(Contract!vars)

LEMMA VerdictFacts ==
  ASSUME TypeOK
  PROVE  /\ Verdict = "open" <=> outcome = "running"
         /\ outcome = "success" => Verdict = "success"
         /\ outcome \in {"cancelled", "crashed"} => Verdict = "aborted"
         /\ outcome = "stream_started_failure" => Verdict = "partial"
         /\ outcome \in AdapterErrors => Verdict = "failed"
BY DEF TypeOK, Outcomes, Verdict, AdapterErrors

\* A step that leaves calls and output and does not end the request stutters.
LEMMA StutterMaps ==
  ASSUME UNCHANGED <<calls, chunks, outcome>>
  PROVE  ContractStep
BY DEF ContractStep, Contract!vars, Verdict

\* A step that ends the request is the contract's step of that verdict.
LEMMA EndMaps ==
  ASSUME IInv, IInv', outcome = "running", outcome' # "running",
         UNCHANGED <<calls, chunks>>,
         outcome' = "success" => calls # <<>>
  PROVE  ContractStep
<1>1. TypeOK /\ TypeOK' /\ OutputState /\ OutputState'
  BY DEF IInv
<1>2. Verdict = "open" /\ Len(calls) \in Nat
  BY <1>1, VerdictFacts DEF TypeOK
<1>3. CASE outcome' = "success"
  <2>1. Verdict' = "success" /\ Len(calls) > 0
    BY <1>1, <1>3, VerdictFacts DEF Verdict, TypeOK
  <2> QED BY <1>2, <2>1 DEF ContractStep, Contract!Next, Contract!Succeed
<1>4. CASE outcome' \in {"cancelled", "crashed"}
  <2>1. Verdict' = "aborted"
    BY <1>4 DEF Verdict
  <2> QED BY <1>2, <2>1 DEF ContractStep, Contract!Next, Contract!Abort
<1>5. CASE outcome' = "stream_started_failure"
  <2>1. Verdict' = "partial" /\ chunks # <<>>
    BY <1>1, <1>5 DEF Verdict, OutputState
  <2> QED BY <1>2, <2>1 DEF ContractStep, Contract!Next, Contract!Fail
<1>6. CASE outcome' \in AdapterErrors
  <2>1. Verdict' = "failed" /\ chunks = <<>>
    BY <1>1, <1>6 DEF Verdict, OutputState, AdapterErrors
  <2> QED BY <1>2, <2>1 DEF ContractStep, Contract!Next, Contract!Fail
<1> QED BY <1>1, <1>3, <1>4, <1>5, <1>6 DEF TypeOK, Outcomes

LEMMA BeginAttemptMaps == IInv /\ BeginAttempt => ContractStep
<1> SUFFICES ASSUME IInv, BeginAttempt PROVE ContractStep
  OBVIOUS
<1>1. Verdict = "open" /\ Verdict' = Verdict /\ chunks = <<>> /\ chunks' = chunks
  BY VerdictFacts DEF IInv, CallState, OutputState, BeginAttempt, Verdict
<1>2. Len(calls) \in Nat /\ Len(calls) < MaxAttempts /\ Len(calls') = Len(calls) + 1
  BY RequestType DEF IInv, TypeOK, CallState, BeginAttempt, HasNext
<1> QED BY <1>1, <1>2 DEF ContractStep, Contract!Next, Contract!Try

LEMMA ChunkMaps ==
  ASSUME IInv, NEW final \in BOOLEAN, Chunk(final) PROVE ContractStep
<1>1. Verdict = "open" /\ Verdict' = Verdict
  BY VerdictFacts DEF IInv, CallState, Chunk, Verdict
<1>2. Len(calls) \in Nat /\ Len(calls) > 0 /\ calls' = calls
  BY DEF IInv, TypeOK, CallState, Chunk
<1>3. chunks' # <<>>
  BY DEF IInv, TypeOK, Chunk
<1> QED BY <1>1, <1>2, <1>3 DEF ContractStep, Contract!Next, Contract!Deliver

\* Every execution of the executor is one FallbackContract allows, for every
\* route, policy and clock; that it ends is left to the model checker.
THEOREM ExecutorImplementsContract ==
  Spec => Contract!Init /\ [][Contract!Next]_(Contract!vars)
<1>1. Init => Contract!Init
  BY DEF Init, Idle, Contract!Init, Verdict
<1>2. IInv /\ [Next]_vars => ContractStep
  <2> SUFFICES ASSUME IInv, [Next]_vars PROVE ContractStep
    OBVIOUS
  <2>1. IInv'
    BY NextInvariant
  <2>2. CASE BeginAttempt
    BY <2>2, BeginAttemptMaps
  <2>3. ASSUME NEW final \in BOOLEAN, Chunk(final) PROVE ContractStep
    BY <2>3, ChunkMaps
  <2>4. CASE ~BeginAttempt /\ ~\E final \in BOOLEAN : Chunk(final)
    <3>1. UNCHANGED <<calls, chunks>>
      BY <2>4 DEF Next, Executor, AdapterActs, Ended, DeadlineError, TimerFires,
                  Close, Judge, Wake, Answer, Exhausted, ProviderFails,
                  AdapterCrashes, Resume, Cancel, Tick, vars, history
    <3>2. outcome # "running" => outcome' = outcome
      BY <2>4 DEF Next, Executor, AdapterActs, Ended, DeadlineError, TimerFires,
                  Close, Judge, Wake, Answer, Exhausted, ProviderFails,
                  AdapterCrashes, Resume, Cancel, Tick, vars, history, IInv,
                  CallState
    <3>3. CASE outcome' = outcome
      BY <3>1, <3>3, StutterMaps
    <3>4. CASE outcome' # outcome
      <4>1. outcome' = "success" => calls # <<>>
        BY <2>1, <3>1 DEF IInv, OutputState
      <4>2. outcome = "running" /\ outcome' # "running"
        BY <3>2, <3>4
      <4> QED BY <2>1, <3>1, <4>1, <4>2, EndMaps
    <3> QED BY <3>3, <3>4
  <2> QED BY <2>2, <2>3, <2>4
<1> QED BY <1>1, <1>2, Invariant, PTL DEF Spec, ContractStep
==============================================================================
