------------------------- MODULE FaultEvidenceProofs -------------------------
(***************************************************************************)
(* Proofs about the fault evidence, for any number of commands, ports and  *)
(* polls, and every part of the table.  What a case met (TInv) holds       *)
(* whoever answers; what the service has counted and how the case comes    *)
(* out (AInv) is known of a command that shares its port with nobody.      *)
(***************************************************************************)
EXTENDS FaultEvidence, FiniteSetTheorems, WellFoundedInduction, TLAPS

Stages == {"start", "poll", "reset", "call", "state", "stop", "raising",
           "written", "raised", "killed"}
Classes == {"timeout", "rate_limited", "provider_5xx", "malformed_response", "crashed"}

Meetings == [by : Services \cup {Nobody}, fault : FaultNames]
Failures == [format : Formats, class : Classes]

FaultType ==
  /\ stage \in [Commands -> Stages]
  /\ port \in [Commands -> Ports \cup {0}]
  /\ process \in [Commands -> {"none", "booting", "live", "gone"}]
  /\ base \in [Commands -> {"none", "port", "inside"}]
  /\ plan \in Seq(1..Len(Cases)) /\ plan # <<>>
  /\ case \in [Commands -> 1..Len(plan)]
  /\ failures \in [Commands -> Seq(Failures)]
  /\ failed \in [Commands -> SUBSET (1..Len(plan))]
  /\ met \in [Commands -> [1..Len(plan) -> Seq(Meetings)]]
  /\ DOMAIN reply = Commands
  /\ DOMAIN cursor = Services /\ DOMAIN counts = Services

\* What met the case that a command runs: its fault from the first provider of the
\* route and none from the second, and a provider that was not there timed out.
Seen(c) == met[c][case[c]]

Underway(c) ==
  /\ \A i \in DOMAIN Seen(c) :
       Seen(c)[i].fault = IF i = 1 THEN Case(c).fault ELSE "ok"
  /\ \A i \in DOMAIN failures[c] :
       /\ failures[c][i].format = Case(c).route[i]
       /\ Seen(c)[i].by = Nobody => failures[c][i].class = "timeout"

\* The gateway has answered: from a provider that was there, behind those that
\* failed, or with the error of the last that did.
Answered(c) ==
  LET n == Len(failures[c]) IN
  \/ /\ reply[c].error = "none" /\ reply[c].format = Case(c).route[n + 1]
     /\ n \in 0..1 /\ Len(Seen(c)) = n + 1 /\ Seen(c)[n + 1].by # Nobody
  \/ /\ reply[c].error # "none" /\ reply[c].format = Case(c).route[n]
     /\ n \in 1..2 /\ Len(Seen(c)) = n

\* What met case k is what evidence that is written tells of it.
Told(c, k) ==
  LET told == Cases[plan[k]] seen == met[c][k] IN
  /\ Len(seen) = told.fallbacks + 1
  /\ seen[1].fault = told.fault
  /\ seen[1].by = Nobody => told.fault = "timeout"
  /\ told.fallbacks = 1 => seen[2].fault = "ok" /\ seen[2].by # Nobody

Judged(c, k) == k < case[c] \/ (k = case[c] /\ stage[c] \in {"stop", "written"})

TellsSoFar(c) ==
  /\ stage[c] \in {"start", "poll", "reset"} => Seen(c) = <<>>
  /\ \A k \in 1..Len(plan) : k > case[c] => met[c][k] = <<>>
  /\ stage[c] \in {"call", "state"} => Underway(c)
  /\ stage[c] = "call" => Len(failures[c]) = Len(Seen(c)) /\ Len(Seen(c)) \in 0..1
  /\ stage[c] = "state" => Answered(c)
  /\ stage[c] \in {"stop", "written"} => case[c] = Len(plan)
  /\ stage[c] = "written" => failed[c] = {}
  /\ \A k \in 1..Len(plan) : Judged(c, k) => k \in failed[c] \/ Told(c, k)

TInv == FaultType /\ \A c \in Commands : TellsSoFar(c)
------------------------------------------------------------------------------
\* The rows of the table: each names the fault of the first provider of its route,
\* and a second one only if the case is to fall back.
WellStated(t) ==
  /\ t.fault \in FaultNames \ {"ok"} /\ t.stream \in BOOLEAN
  /\ t.format = t.route[1]
  /\ \A i \in 1..2 : t.route[i] \in Formats
  /\ t.route[1] # t.route[2]
  /\ t.fallbacks \in 0..1 /\ (t.fallbacks = 1 <=> t.error = "none")
  /\ t.fallbacks = 1 => ExpectedClass(t.fault) \in Eligible

LEMMA RowIsStated ==
  ASSUME NEW format, NEW fault \in FaultNames \ {"ok"}, NEW stream \in BOOLEAN,
         NEW route \in {Premium, Economy}, format = route[1], NEW status,
         NEW fallbacks \in 0..1, NEW error, fallbacks = 1 <=> error = "none",
         fallbacks = 1 => ExpectedClass(fault) \in Eligible
  PROVE  WellStated(Faulty(fault, format, stream, route, status, fallbacks, error))
<1>1. route[1] \in Formats /\ route[2] \in Formats /\ route[1] # route[2]
  BY DEF Premium, Economy, Formats
<1>2. \A i \in 1..2 : i = 1 \/ i = 2
  OBVIOUS
<1> QED BY <1>1, <1>2 DEF WellStated, Faulty

LEMMA TheTable ==
  /\ Len(Cases) = 6
  /\ \A k \in 1..6 : WellStated(Cases[k])
<1>0. /\ Premium \in {Premium, Economy} /\ Premium[1] = "anthropic"
      /\ Economy \in {Premium, Economy} /\ Economy[1] = "openai"
  BY DEF Premium, Economy
<1>1. /\ \A f \in {"rate_limited_429", "server_500", "timeout", "in_band_error"} :
           f \in FaultNames \ {"ok"} /\ ExpectedClass(f) \in Eligible
      /\ {"malformed_json", "stream_fail_after_first_chunk"} \subseteq FaultNames \ {"ok"}
  BY DEF FaultNames, ExpectedClass, Eligible
<1>2. /\ FALSE \in BOOLEAN /\ TRUE \in BOOLEAN /\ 0 \in 0..1 /\ 1 \in 0..1 /\ 0 # 1
      /\ "none" \notin {"malformed_response", "stream_started_failure"}
  OBVIOUS
<1>3. WellStated(Cases[1])
  <2>1. WellStated(Faulty("rate_limited_429", "anthropic", FALSE, Premium, 200, 1, "none"))
    BY <1>0, <1>1, <1>2, RowIsStated, Zenon
  <2> QED BY <2>1 DEF Cases
<1>4. WellStated(Cases[2])
  <2>1. WellStated(Faulty("server_500", "anthropic", FALSE, Premium, 200, 1, "none"))
    BY <1>0, <1>1, <1>2, RowIsStated, Zenon
  <2> QED BY <2>1 DEF Cases
<1>5. WellStated(Cases[3])
  <2>1. WellStated(Faulty("timeout", "anthropic", FALSE, Premium, 200, 1, "none"))
    BY <1>0, <1>1, <1>2, RowIsStated, Zenon
  <2> QED BY <2>1 DEF Cases
<1>6. WellStated(Cases[4])
  <2>1. WellStated(Faulty("malformed_json", "openai", FALSE, Economy, 502, 0, "malformed_response"))
    BY <1>0, <1>1, <1>2, RowIsStated, Zenon
  <2> QED BY <2>1 DEF Cases
<1>7. WellStated(Cases[5])
  <2>1. WellStated(Faulty("stream_fail_after_first_chunk", "openai", TRUE, Economy, 200, 0,
                      "stream_started_failure"))
    BY <1>0, <1>1, <1>2, RowIsStated, Zenon
  <2> QED BY <2>1 DEF Cases
<1>8. WellStated(Cases[6])
  <2>1. WellStated(Faulty("in_band_error", "anthropic", TRUE, Premium, 200, 1, "none"))
    BY <1>0, <1>1, <1>2, RowIsStated, Zenon
  <2> QED BY <2>1 DEF Cases
<1>9. \A k \in 1..6 : k = 1 \/ k = 2 \/ k = 3 \/ k = 4 \/ k = 5 \/ k = 6
  OBVIOUS
<1>10. Len(Cases) = 6
  BY DEF Cases
<1> QED BY <1>3, <1>4, <1>5, <1>6, <1>7, <1>8, <1>9, <1>10

\* The current case is one of them.
LEMMA CaseIsStated ==
  ASSUME FaultType, NEW c \in Commands
  PROVE  WellStated(Case(c))
<1>1. case[c] \in DOMAIN plan /\ plan[case[c]] \in 1..Len(Cases)
  BY DEF FaultType
<1> QED BY <1>1, TheTable DEF Case

LEMMA LeastExists ==
  ASSUME NEW S \in SUBSET Nat, S # {}
  PROVE  \E i \in S : \A j \in S : i <= j
<1>1. PICK i \in S : \A j \in S : ~(<<j, i>> \in OpToRel(<, Nat))
  BY NatLessThanWellFounded, WFMin
<1>2. \A j \in S : ~(j < i)
  BY <1>1 DEF OpToRel
<1> QED BY <1>2

\* What the adapter makes of an answer of the fault service: it raises one of the
\* classes of a provider's errors, or has its final chunk.
LEMMA AnswerVerdict ==
  ASSUME NEW call \in Calls, NEW fault \in FaultNames
  PROVE  LET answer == FaultAnswer(call, fault)
         IN  Verdict(call, answer.head, answer.events) \in Classes \cup {"final"}
<1> DEFINE answer == FaultAnswer(call, fault)
           ends == {i \in DOMAIN answer.events : Ends(call, answer.events[i])}
           first == CHOOSE i \in ends : \A j \in ends : i <= j
<1>1. answer.head \in {0, 200, 429, 500}
  BY DEF FaultAnswer
<1>2. answer.head = 0 \/ Accepted(call, answer.head) \/ HeadClass(call, answer.head) \in Classes
  BY <1>1 DEF Accepted, HeadClass, StatusClass, Classes
<1>3. \A e : EventClass(call, e) \in Classes \cup {"none"}
  BY DEF EventClass, Losses, Classes
<1>4. DOMAIN answer.events \subseteq Nat
  <2>1. DOMAIN OpenAIStream(fault) \subseteq Nat
    BY DEF OpenAIStream
  <2>2. DOMAIN AnthropicStream(fault) \subseteq Nat
    BY DEF AnthropicStream
  <2>3. DOMAIN <<>> \subseteq Nat /\ \A e : DOMAIN <<e>> \subseteq Nat
    OBVIOUS
  <2> QED BY <2>1, <2>2, <2>3 DEF FaultAnswer
<1>5. ends # {} => first \in ends
  BY <1>4, LeastExists
<1> HIDE DEF first, answer
<1>6. first \in ends => \/ answer.events[first] = "done"
                        \/ EventClass(call, answer.events[first]) \in Classes
  BY <1>3 DEF Ends
<1>7. \/ answer.head # 0 /\ ~Accepted(call, answer.head)
         /\ Verdict(call, answer.head, answer.events) = HeadClass(call, answer.head)
      \/ Verdict(call, answer.head, answer.events) \in {"timeout", "final"}
      \/ /\ ends # {} /\ answer.events[first] # "done"
         /\ Verdict(call, answer.head, answer.events)
              = EventClass(call, answer.events[first])
  BY DEF Verdict, first
<1> QED BY <1>2, <1>5, <1>6, <1>7 DEF answer, Classes
------------------------------------------------------------------------------
\* Whoever is reached is a service; nobody is none.
LEMMA ReachedAreServices ==
  ASSUME NEW c \in Commands
  PROVE  Reached(c) \subseteq Services /\ Nobody \notin Services
<1>1. \A d \in Commands : /\ Child(d) \in Services
                          /\ [owner |-> d, inside |-> TRUE] \in Services
  BY ServicesAssumption DEF Child
<1>2. Nobody \notin Services
  BY ServicesAssumption, NobodyAssumption DEF Nobody
<1> QED BY <1>1, <1>2 DEF Reached, Listening

\* What a command does not touch of itself stays as it was.
LEMMA OthersKeep ==
  ASSUME NEW d \in Commands, TellsSoFar(d), plan' = plan,
         stage'[d] = stage[d], case'[d] = case[d], failures'[d] = failures[d],
         reply'[d] = reply[d], failed'[d] = failed[d], met'[d] = met[d]
  PROVE  TellsSoFar(d)'
<1>1. Seen(d)' = Seen(d) /\ Case(d)' = Case(d)
  BY DEF Seen, Case
<1>2. \A k : (Told(d, k)' <=> Told(d, k)) /\ (Judged(d, k)' <=> Judged(d, k))
  BY DEF Told, Judged
<1>3. (Underway(d)' <=> Underway(d)) /\ (Answered(d)' <=> Answered(d))
  BY <1>1 DEF Underway, Answered
<1> QED BY <1>1, <1>2, <1>3 DEF TellsSoFar

LEMMA FaultInit == Init => TInv
<1> SUFFICES ASSUME Init PROVE TInv
  OBVIOUS
<1>1. plan \in Seq(1..Len(Cases)) /\ plan # <<>>
  BY StretchesAssumption DEF Init
<1>2. 1 \in 1..Len(plan) /\ DOMAIN plan = 1..Len(plan)
  BY <1>1
<1>3. met = [c \in Commands |-> [k \in 1..Len(plan) |-> <<>>]]
  BY <1>2 DEF Init
<1>4. FaultType
  BY <1>1, <1>2, <1>3 DEF Init, FaultType, Stages, ServiceInit
<1>5. ASSUME NEW c \in Commands PROVE TellsSoFar(c)
  <2>1. stage[c] = "start" /\ case[c] = 1 /\ \A k \in 1..Len(plan) : met[c][k] = <<>>
    BY <1>3 DEF Init
  <2>2. \A k \in 1..Len(plan) : ~Judged(c, k)
    BY <2>1 DEF Judged
  <2> QED BY <1>2, <2>1, <2>2 DEF TellsSoFar, Seen
<1> QED BY <1>4, <1>5 DEF TInv

\* The steps that neither run a case nor judge one.
LEMMA StartTells == ASSUME TInv, NEW c \in Commands, Start(c) PROVE TInv'
<1>1. FaultType'
  BY DEF TInv, FaultType, Stages, Start, Goto, service, progress
<1>2. /\ UNCHANGED progress /\ stage[c] = "start"
      /\ \A d \in Commands : stage'[d] = IF d = c THEN "poll" ELSE stage[d]
  BY DEF TInv, FaultType, Start, Goto
<1>3. ASSUME NEW d \in Commands \ {c} PROVE TellsSoFar(d)'
  BY <1>2, OthersKeep DEF TInv, progress
<1>4. TellsSoFar(c)'
  BY <1>2 DEF TInv, TellsSoFar, progress, Seen, Told, Judged
<1> QED BY <1>1, <1>3, <1>4 DEF TInv

LEMMA PollTells == ASSUME TInv, NEW c \in Commands, Poll(c) PROVE TInv'
<1>1. FaultType'
  BY DEF TInv, FaultType, Stages, Poll, Use, Goto, service, progress
<1>2. /\ UNCHANGED progress /\ stage[c] = "poll"
      /\ \A d \in Commands : d # c => stage'[d] = stage[d]
      /\ stage'[c] \in {"poll", "reset"}
  BY DEF TInv, FaultType, Poll, Use, Goto
<1>3. ASSUME NEW d \in Commands \ {c} PROVE TellsSoFar(d)'
  BY <1>2, OthersKeep DEF TInv, progress
<1>4. TellsSoFar(c)'
  BY <1>2 DEF TInv, TellsSoFar, progress, Seen, Told, Judged
<1> QED BY <1>1, <1>3, <1>4 DEF TInv

LEMMA ResetTells == ASSUME TInv, NEW c \in Commands, ResetService(c) PROVE TInv'
<1>1. FaultType'
  <2>1. /\ cursor' = cursor /\ counts' = counts
        \/ \E s \in Services : Reset(s)
    BY ReachedAreServices DEF ResetService, Raise, service
  <2>2. DOMAIN cursor' = Services /\ DOMAIN counts' = Services
    BY <2>1 DEF TInv, FaultType, Reset
  <2>3. <<>> \in Seq(Failures)
    OBVIOUS
  <2> QED BY <2>2, <2>3 DEF TInv, FaultType, Stages, ResetService, Raise, Goto
<1>2. /\ plan' = plan /\ case' = case /\ failed' = failed /\ met' = met
      /\ stage[c] = "reset" /\ stage'[c] \in {"raising", "call"}
      /\ failures'[c] = <<>>
      /\ \A d \in Commands : d # c => /\ stage'[d] = stage[d]
                                      /\ failures'[d] = failures[d] /\ reply'[d] = reply[d]
  BY DEF TInv, FaultType, ResetService, Raise, Goto
<1>3. ASSUME NEW d \in Commands \ {c} PROVE TellsSoFar(d)'
  BY <1>2, OthersKeep DEF TInv
<1>4. TellsSoFar(c)'
  <2>1. Seen(c) = <<>> /\ Seen(c)' = <<>>
    BY <1>2 DEF TInv, TellsSoFar, Seen
  <2>2. Underway(c)'
    BY <1>2, <2>1 DEF Underway
  <2> QED BY <1>2, <2>1, <2>2 DEF TInv, TellsSoFar, Told, Judged
<1> QED BY <1>1, <1>3, <1>4 DEF TInv
------------------------------------------------------------------------------
\* What a call of a provider meets and comes to.
Met(c, t) == [by |-> t, fault |-> Override(c)]
AnswerOf(c, t) ==
  IF t = Nobody THEN [head |-> 0, events |-> <<>>]
  ELSE FaultAnswer(Call(c), Selected(t, Override(c)))
ClassOf(c, t) == Verdict(Call(c), AnswerOf(c, t).head, AnswerOf(c, t).events)
StartedBy(c, t) ==
  /\ Case(c).stream
  /\ \E i \in DOMAIN AnswerOf(c, t).events : AnswerOf(c, t).events[i] = "text"
ErrorOf(c, t) == IF StartedBy(c, t) THEN "stream_started_failure" ELSE ClassOf(c, t)

CallOf(c, t) ==
  /\ IF t = Nobody THEN UNCHANGED service ELSE Select(t, Override(c))
  /\ met' = [met EXCEPT ![c][case[c]] = Append(@, Met(c, t))]
  /\ IF ClassOf(c, t) = "final"
     THEN /\ reply' = [reply EXCEPT ![c] =
               [status |-> 200, format |-> Format(c), error |-> "none"]]
          /\ failures' = failures
          /\ stage' = [stage EXCEPT ![c] = "state"]
     ELSE /\ failures' = [failures EXCEPT ![c] =
               Append(@, [format |-> Format(c), class |-> ClassOf(c, t)])]
          /\ IF Followed(c, ClassOf(c, t), StartedBy(c, t))
             THEN reply' = reply /\ stage' = stage
             ELSE /\ reply' = [reply EXCEPT ![c] =
                       [status |-> IF StartedBy(c, t) THEN 200
                                   ELSE ErrorStatus(ClassOf(c, t)),
                        format |-> Format(c), error |-> ErrorOf(c, t)]]
                  /\ stage' = [stage EXCEPT ![c] = "state"]

\* A call is one of somebody who is reached, or of nobody if nobody is.
LEMMA CallIsOf ==
  ASSUME NEW c \in Commands, CallProvider(c)
  PROVE  \E t \in Services \cup {Nobody} :
           /\ t \in Reached(c) \/ (t = Nobody /\ Reached(c) = {})
           /\ CallOf(c, t)
<1>1. PICK t \in Reached(c) \cup (IF Reached(c) = {} THEN {Nobody} ELSE {}) : CallOf(c, t)
  BY DEF CallProvider, CallOf, Met, AnswerOf, ClassOf, StartedBy, ErrorOf, Goto
<1> QED BY <1>1, ReachedAreServices

\* The call of a command in its state: the first provider of the case's route or the
\* second, its fault or none, a verdict that is known.
LEMMA CallFacts ==
  ASSUME TInv, NEW c \in Commands, stage[c] = "call",
         NEW t \in Services \cup {Nobody}
  PROVE  /\ Position(c) \in 1..2 /\ Position(c) = Len(Seen(c)) + 1
         /\ Format(c) = Case(c).route[Position(c)] /\ Format(c) \in Formats
         /\ Call(c) \in Calls
         /\ Override(c) = IF Position(c) = 1 THEN Case(c).fault ELSE "ok"
         /\ Override(c) \in FaultNames
         /\ t # Nobody => Selected(t, Override(c)) = Override(c)
         /\ ClassOf(c, t) \in Classes \cup {"final"}
         /\ t = Nobody => ClassOf(c, t) = "timeout"
<1>1. WellStated(Case(c))
  BY CaseIsStated DEF TInv
<1>2. Position(c) \in 1..2 /\ Position(c) = Len(Seen(c)) + 1
  <2>1. Len(failures[c]) = Len(Seen(c)) /\ Len(Seen(c)) \in 0..1
    BY DEF TInv, TellsSoFar
  <2>2. \A m \in 0..1 : m + 1 \in 1..2
    OBVIOUS
  <2> QED BY <2>1, <2>2 DEF Position
<1>3. Format(c) = Case(c).route[Position(c)] /\ Format(c) \in Formats
  BY <1>1, <1>2 DEF Format, WellStated
<1>4. Call(c) \in Calls
  BY <1>1, <1>3 DEF Call, Calls, WellStated
<1>5. Override(c) = IF Position(c) = 1 THEN Case(c).fault ELSE "ok"
  BY <1>1, <1>2, <1>3 DEF Override, WellStated
<1>6. Override(c) \in FaultNames /\ Override(c) # "none"
  BY <1>1, <1>5 DEF WellStated, FaultNames
<1>7. Selected(t, Override(c)) = Override(c)
  BY <1>6 DEF Selected
<1>8. t # Nobody => ClassOf(c, t) \in Classes \cup {"final"}
  BY <1>4, <1>6, <1>7, AnswerVerdict DEF ClassOf, AnswerOf
<1>9. t = Nobody => ClassOf(c, t) = "timeout"
  BY DEF ClassOf, AnswerOf, Verdict
<1> QED BY <1>2, <1>3, <1>4, <1>5, <1>6, <1>7, <1>8, <1>9 DEF Classes

LEMMA CallTells == ASSUME TInv, NEW c \in Commands, CallProvider(c) PROVE TInv'
<1>1. PICK t \in Services \cup {Nobody} : CallOf(c, t)
  BY CallIsOf
<1> DEFINE n == Len(failures[c])
           k == case[c]
           class == ClassOf(c, t)
<1>2. /\ stage[c] = "call" /\ FaultType /\ TellsSoFar(c) /\ Underway(c)
      /\ n = Len(Seen(c)) /\ n \in 0..1 /\ k \in 1..Len(plan)
      /\ UNCHANGED <<process, port, base, polls, plan, case, failed>>
  BY DEF TInv, TellsSoFar, CallProvider, FaultType
<1>3. /\ Position(c) = n + 1 /\ Format(c) = Case(c).route[n + 1] /\ Format(c) \in Formats
      /\ Override(c) = IF n = 0 THEN Case(c).fault ELSE "ok"
      /\ Override(c) \in FaultNames
      /\ class \in Classes \cup {"final"}
      /\ t = Nobody => class = "timeout"
  BY <1>2, CallFacts DEF Position
<1>4. /\ Met(c, t) \in Meetings /\ Seen(c) \in Seq(Meetings)
      /\ failures[c] \in Seq(Failures)
      /\ class # "final" => [format |-> Format(c), class |-> class] \in Failures
  BY <1>2, <1>3 DEF Met, Meetings, Failures, FaultType, Seen
<1>5. /\ Seen(c)' = Append(Seen(c), Met(c, t))
      /\ \A j \in 1..Len(plan) : j # k => met'[c][j] = met[c][j]
      /\ \A d \in Commands : d # c => met'[d] = met[d]
      /\ met' \in [Commands -> [1..Len(plan) -> Seq(Meetings)]]
  BY <1>1, <1>2, <1>4 DEF CallOf, FaultType, Seen
<1>6. /\ Len(Seen(c)') = n + 1 /\ DOMAIN Seen(c)' = 1..(n + 1)
      /\ Seen(c)'[n + 1] = Met(c, t)
      /\ \A i \in 1..n : Seen(c)'[i] = Seen(c)[i]
      /\ DOMAIN Seen(c) = 1..n /\ DOMAIN failures[c] = 1..n
  BY <1>2, <1>4, <1>5
<1>7. Case(c)' = Case(c)
  BY <1>2 DEF Case
<1>8. \A i \in DOMAIN Seen(c)' :
        Seen(c)'[i].fault = IF i = 1 THEN Case(c)'.fault ELSE "ok"
  BY <1>2, <1>3, <1>6, <1>7 DEF Underway, Met
<1>9. \A j \in 1..Len(plan) : Judged(c, j)' => Judged(c, j) /\ j # k
  BY <1>1, <1>2 DEF Judged, CallOf, FaultType
<1>10. \A j \in 1..Len(plan) : Judged(c, j)' => j \in failed'[c] \/ Told(c, j)'
  BY <1>2, <1>5, <1>9 DEF TellsSoFar, Told
<1>11. \A j \in 1..Len(plan) : j > case'[c] => met'[c][j] = <<>>
  BY <1>2, <1>5 DEF TellsSoFar
<1>12. DOMAIN cursor' = Services /\ DOMAIN counts' = Services
  BY <1>1, <1>2 DEF CallOf, FaultType, Select, service
<1>13. CASE class = "final"
  <2>1. /\ failures' = failures /\ stage' = [stage EXCEPT ![c] = "state"]
        /\ reply' = [reply EXCEPT ![c] =
                       [status |-> 200, format |-> Format(c), error |-> "none"]]
    BY <1>1, <1>13 DEF CallOf
  <2>2. FaultType'
    BY <1>2, <1>5, <1>12, <2>1 DEF FaultType, Stages
  <2>3. stage'[c] = "state" /\ reply'[c].error = "none"
        /\ reply'[c].format = Case(c)'.route[n + 1]
    BY <1>2, <1>3, <1>7, <2>1 DEF FaultType
  <2>4. Underway(c)'
    BY <1>2, <1>6, <1>7, <1>8, <2>1 DEF Underway
  <2>5. Answered(c)'
    <3>1. Len(failures'[c]) = n /\ Seen(c)'[n + 1].by # Nobody
      BY <1>3, <1>6, <1>13, <2>1 DEF Met
    <3> QED BY <1>2, <1>6, <2>3, <3>1 DEF Answered
  <2>6. TellsSoFar(c)'
    BY <1>2, <1>10, <1>11, <2>3, <2>4, <2>5 DEF TellsSoFar
  <2>7. ASSUME NEW d \in Commands \ {c} PROVE TellsSoFar(d)'
    BY <1>2, <1>5, <2>1, OthersKeep DEF TInv, FaultType
  <2> QED BY <2>2, <2>6, <2>7 DEF TInv
<1>14. CASE class # "final"
  <2> DEFINE f == [format |-> Format(c), class |-> class]
  <2>1. failures' = [failures EXCEPT ![c] = Append(@, f)]
    BY <1>1, <1>14 DEF CallOf
  <2>2. /\ failures'[c] = Append(failures[c], f)
        /\ failures' \in [Commands -> Seq(Failures)]
    BY <1>2, <1>4, <1>14, <2>1 DEF FaultType
  <2>3. /\ Len(failures'[c]) = n + 1 /\ DOMAIN failures'[c] = 1..(n + 1)
        /\ failures'[c][n + 1] = f /\ \A i \in 1..n : failures'[c][i] = failures[c][i]
    BY <1>2, <1>4, <2>2
  <2>4. Underway(c)'
    <3>1. ASSUME NEW i \in 1..n
          PROVE  /\ failures'[c][i].format = Case(c)'.route[i]
                 /\ Seen(c)'[i].by = Nobody => failures'[c][i].class = "timeout"
      BY <1>2, <1>6, <1>7, <2>3 DEF Underway
    <3>2. /\ failures'[c][n + 1].format = Case(c)'.route[n + 1]
          /\ Seen(c)'[n + 1].by = Nobody => failures'[c][n + 1].class = "timeout"
      BY <1>3, <1>6, <1>7, <2>3 DEF Met
    <3>3. \A i \in 1..(n + 1) : i \in 1..n \/ i = n + 1
      BY <1>2
    <3> QED BY <1>8, <2>3, <3>1, <3>2, <3>3 DEF Underway
  <2>5. CASE Followed(c, class, StartedBy(c, t))
    <3>1. reply' = reply /\ stage' = stage /\ n = 0
      BY <1>1, <1>2, <1>3, <1>14, <2>5 DEF CallOf, Followed
    <3>2. FaultType'
      BY <1>2, <1>5, <1>12, <2>2, <3>1 DEF FaultType
    <3>3. TellsSoFar(c)'
      BY <1>2, <1>6, <1>10, <1>11, <2>3, <2>4, <3>1 DEF TellsSoFar
    <3>4. ASSUME NEW d \in Commands \ {c} PROVE TellsSoFar(d)'
      BY <1>2, <1>5, <2>1, <3>1, OthersKeep DEF TInv, FaultType
    <3> QED BY <3>2, <3>3, <3>4 DEF TInv
  <2>6. CASE ~Followed(c, class, StartedBy(c, t))
    <3> DEFINE r == [status |-> IF StartedBy(c, t) THEN 200 ELSE ErrorStatus(class),
                     format |-> Format(c), error |-> ErrorOf(c, t)]
    <3>1. reply' = [reply EXCEPT ![c] = r] /\ stage' = [stage EXCEPT ![c] = "state"]
      BY <1>1, <1>14, <2>6 DEF CallOf
    <3>2. FaultType'
      BY <1>2, <1>5, <1>12, <2>2, <3>1 DEF FaultType, Stages
    <3>3. stage'[c] = "state" /\ reply'[c] = r
      BY <1>2, <3>1 DEF FaultType
    <3>4. r.error # "none"
      BY <1>3, <1>14 DEF ErrorOf, Classes
    <3>5. Answered(c)'
      <4>1. /\ reply'[c].error # "none" /\ reply'[c].format = Case(c)'.route[n + 1]
            /\ n + 1 \in 1..2
        <5>1. n + 1 \in 1..2
          <6>1. \A m \in 0..1 : m + 1 \in 1..2
            OBVIOUS
          <6> HIDE DEF n
          <6> QED BY <1>2, <6>1, Zenon
        <5>2. r.format = Case(c)'.route[n + 1]
          BY <1>3, <1>7
        <5> QED BY <3>3, <3>4, <5>1, <5>2
      <4> QED BY <1>6, <2>3, <4>1 DEF Answered
    <3>6. TellsSoFar(c)'
      BY <1>2, <1>10, <1>11, <2>4, <3>3, <3>5 DEF TellsSoFar
    <3>7. ASSUME NEW d \in Commands \ {c} PROVE TellsSoFar(d)'
      BY <1>2, <1>5, <2>1, <3>1, OthersKeep DEF TInv, FaultType
    <3> QED BY <3>2, <3>6, <3>7 DEF TInv
  <2> QED BY <2>5, <2>6
<1> QED BY <1>13, <1>14

\* The counters agree with the table only if the case met what it says.
LEMMA PassedIsTold ==
  ASSUME TInv, NEW c \in Commands, stage[c] = "state", NEW seen, Passed(c, seen)
  PROVE  Told(c, case[c])
<1> DEFINE n == Len(failures[c])
<1>1. WellStated(Case(c)) /\ Underway(c) /\ Answered(c)
  BY CaseIsStated DEF TInv, TellsSoFar
<1>2. /\ Seen(c) \in Seq(Meetings) /\ failures[c] \in Seq(Failures)
      /\ reply[c].format = Case(c).route[Case(c).fallbacks + 1]
      /\ reply[c].error = Case(c).error
  BY DEF TInv, FaultType, Seen, Passed
<1>3. PICK i \in DOMAIN failures[c] :
        failures[c][i] = [format |-> Case(c).format, class |-> ExpectedClass(Case(c).fault)]
  BY DEF Passed
<1>4. DOMAIN failures[c] = 1..n /\ DOMAIN Seen(c) = 1..Len(Seen(c))
      /\ n \in Nat /\ Len(Seen(c)) \in Nat
  BY <1>2
<1>5. /\ Case(c).route[1] # Case(c).route[2]
      /\ Case(c).format = Case(c).route[1] /\ Case(c).fallbacks \in {0, 1}
      /\ Case(c).fallbacks = 1 <=> Case(c).error = "none"
  BY <1>1 DEF WellStated
<1>6. n \in {1, 2} /\ Len(Seen(c)) = Case(c).fallbacks + 1
      /\ (Case(c).fallbacks = 1 => Seen(c)[2].by # Nobody)
  <2>1. CASE /\ reply[c].error = "none" /\ reply[c].format = Case(c).route[n + 1]
             /\ n \in 0..1 /\ Len(Seen(c)) = n + 1 /\ Seen(c)[n + 1].by # Nobody
    <3>1. n = 1
      BY <1>3, <1>4, <2>1
    <3> QED BY <1>2, <1>5, <2>1, <3>1
  <2>2. CASE /\ reply[c].error # "none" /\ reply[c].format = Case(c).route[n]
             /\ n \in 1..2 /\ Len(Seen(c)) = n
    <3>0. Case(c).fallbacks = 0
      BY <1>2, <1>5, <2>2
    <3>1. Case(c).fallbacks + 1 = 1 /\ Case(c).route[n] = Case(c).route[1]
      <4>1. Case(c).fallbacks + 1 = 1
        BY <3>0
      <4> QED BY <1>2, <2>2, <4>1, Zenon
    <3>2. n = 1
      <4>1. n = 1 \/ n = 2
        BY <2>2
      <4> HIDE DEF n
      <4> QED BY <1>5, <3>1, <4>1
    <3> QED BY <2>2, <3>0, <3>2
  <2> QED BY <1>1, <2>1, <2>2 DEF Answered
<1>7. i = 1
  <2>1. i \in {1, 2} /\ failures[c][i].format = Case(c).route[i]
    BY <1>1, <1>3, <1>4, <1>6 DEF Underway
  <2> QED BY <1>3, <1>5, <2>1
<1>8. Seen(c)[1].fault = Case(c).fault
  BY <1>1, <1>4, <1>5, <1>6 DEF Underway
<1>9. Seen(c)[1].by = Nobody => Case(c).fault = "timeout"
  <2>1. Seen(c)[1].by = Nobody => ExpectedClass(Case(c).fault) = "timeout"
    BY <1>1, <1>3, <1>7 DEF Underway
  <2> QED BY <2>1 DEF ExpectedClass
<1>10. Case(c).fallbacks = 1 => Seen(c)[2].fault = "ok"
  <2>1. Case(c).fallbacks = 1 => 2 \in DOMAIN Seen(c)
    BY <1>4, <1>6
  <2> QED BY <1>1, <2>1 DEF Underway
<1> QED BY <1>6, <1>8, <1>9, <1>10 DEF Told, Seen, Case

LEMMA JudgeTells == ASSUME TInv, NEW c \in Commands, ReadState(c) PROVE TInv'
<1>1. /\ FaultType /\ TellsSoFar(c) /\ stage[c] = "state"
      /\ UNCHANGED <<process, port, base, polls, plan, failures, reply, met, service>>
      /\ case[c] \in 1..Len(plan) /\ Len(plan) \in Nat
  BY DEF TInv, FaultType, ReadState, Raise, service
<1>2. CASE Raise(c) /\ UNCHANGED <<case, failed>>
  <2>1. FaultType'
    BY <1>1, <1>2 DEF FaultType, Stages, Raise, Goto, service
  <2>2. stage'[c] = "raising" /\ \A d \in Commands : d # c => stage'[d] = stage[d]
    BY <1>1, <1>2 DEF Raise, Goto, FaultType
  <2>3. TellsSoFar(c)'
    BY <1>1, <1>2, <2>2 DEF TellsSoFar, Told, Judged
  <2>4. ASSUME NEW d \in Commands \ {c} PROVE TellsSoFar(d)'
    BY <1>1, <1>2, <2>2, OthersKeep DEF TInv
  <2> QED BY <2>1, <2>3, <2>4 DEF TInv
<1>3. CASE \E s \in Reached(c) :
             /\ failed' = IF Passed(c, counts[s]) THEN failed
                          ELSE [failed EXCEPT ![c] = @ \cup {case[c]}]
             /\ IF case[c] = Len(plan)
                THEN Goto(c, "stop") /\ UNCHANGED case
                ELSE Goto(c, "reset") /\ case' = [case EXCEPT ![c] = @ + 1]
  <2>1. PICK s \in Reached(c) :
             /\ failed' = IF Passed(c, counts[s]) THEN failed
                          ELSE [failed EXCEPT ![c] = @ \cup {case[c]}]
             /\ IF case[c] = Len(plan)
                THEN Goto(c, "stop") /\ UNCHANGED case
                ELSE Goto(c, "reset") /\ case' = [case EXCEPT ![c] = @ + 1]
    BY <1>3
  <2>2. /\ failed[c] \subseteq failed'[c]
        /\ case[c] \in failed'[c] \/ Told(c, case[c])
        /\ \A d \in Commands : d # c => failed'[d] = failed[d]
        /\ failed' \in [Commands -> SUBSET (1..Len(plan))]
    BY <1>1, <2>1, PassedIsTold DEF FaultType
  <2>3. /\ \A d \in Commands : d # c => stage'[d] = stage[d] /\ case'[d] = case[d]
        /\ \/ stage'[c] = "stop" /\ case'[c] = case[c] /\ case[c] = Len(plan)
           \/ stage'[c] = "reset" /\ case'[c] = case[c] + 1
        /\ case' \in [Commands -> 1..Len(plan)]
        /\ stage' \in [Commands -> Stages]
    <3>1. CASE case[c] = Len(plan)
      BY <1>1, <2>1, <3>1 DEF Goto, FaultType, Stages
    <3>2. CASE case[c] # Len(plan)
      <4>1. stage' = [stage EXCEPT ![c] = "reset"] /\ case' = [case EXCEPT ![c] = @ + 1]
        BY <2>1, <3>2 DEF Goto
      <4>2. case[c] + 1 \in 1..Len(plan)
        BY <1>1, <3>2
      <4> QED BY <1>1, <4>1, <4>2 DEF FaultType, Stages
    <3> QED BY <3>1, <3>2
  <2>4. FaultType'
    BY <1>1, <2>2, <2>3 DEF FaultType, service
  <2>5. ASSUME NEW k \in 1..Len(plan), Judged(c, k)'
        PROVE  k \in failed'[c] \/ Told(c, k)'
    <3>1. k < case[c] \/ k = case[c]
      BY <1>1, <2>3, <2>5 DEF Judged
    <3>2. Told(c, k)' <=> Told(c, k)
      BY <1>1 DEF Told
    <3>3. k < case[c] => k \in failed[c] \/ Told(c, k)
      BY <1>1 DEF TellsSoFar, Judged
    <3> QED BY <2>2, <3>1, <3>2, <3>3
  <2>6. \A k \in 1..Len(plan) : k > case[c] => met[c][k] = <<>>
    BY <1>1 DEF TellsSoFar
  <2>7. \A k \in 1..Len(plan)' : k > case'[c] => met'[c][k] = <<>>
    BY <1>1, <2>3, <2>6
  <2>8. stage'[c] = "reset" => Seen(c)' = <<>>
    <3>1. case'[c] \in 1..Len(plan)
      BY <2>3
    <3> QED BY <1>1, <2>3, <2>6, <3>1 DEF Seen
  <2>9. TellsSoFar(c)'
    BY <1>1, <2>3, <2>5, <2>7, <2>8 DEF TellsSoFar
  <2>10. ASSUME NEW d \in Commands \ {c} PROVE TellsSoFar(d)'
    BY <1>1, <2>2, <2>3, OthersKeep DEF TInv
  <2> QED BY <2>4, <2>9, <2>10 DEF TInv
<1> QED BY <1>2, <1>3 DEF ReadState

LEMMA StopTells == ASSUME TInv, NEW c \in Commands, Stop(c) \/ Killed(c) PROVE TInv'
<1>1. /\ FaultType' /\ UNCHANGED progress
      /\ \A d \in Commands : d # c => stage'[d] = stage[d]
      /\ stage'[c] \in {"written", "raised", "killed"}
      /\ stage'[c] = "written" => stage[c] = "stop" /\ failed[c] = {}
  BY DEF TInv, FaultType, Stages, Stop, Killed, Goto, service, progress
<1>2. ASSUME NEW d \in Commands \ {c} PROVE TellsSoFar(d)'
  BY <1>1, OthersKeep DEF TInv, progress
<1>3. TellsSoFar(c)'
  BY <1>1 DEF TInv, TellsSoFar, progress, Told, Judged
<1> QED BY <1>1, <1>2, <1>3 DEF TInv

LEMMA RestTells ==
  ASSUME TInv, Stray \/ UNCHANGED vars \/ \E c \in Commands : Boot(c)
  PROVE  TInv'
<1>1. UNCHANGED <<stage, progress>>
  BY DEF Stray, Boot, vars, command
<1>2. FaultType'
  BY <1>1 DEF TInv, FaultType, Stray, Boot, Select, vars, command, progress, service
<1> QED BY <1>1, <1>2, OthersKeep DEF TInv, progress

LEMMA FaultInvariant == Spec => []TInv
<1>1. TInv /\ [Next]_vars => TInv'
  <2> SUFFICES ASSUME TInv, [Next]_vars PROVE TInv'
    OBVIOUS
  <2> QED BY StartTells, PollTells, ResetTells, CallTells, JudgeTells, StopTells, RestTells
          DEF Next, Step, Ended
<1> QED BY <1>1, FaultInit, PTL DEF Spec

\* FaultEvidence.EvidenceTellsFaults: whoever answers on the ports, evidence that is
\* written tells what its cases met (fault_evidence.py, _run_case and
\* collect_fault_evidence), for any number of commands.
THEOREM EvidenceTellsFaultsHolds == Spec => []EvidenceTellsFaults
<1>1. TInv => EvidenceTellsFaults
  <2> SUFFICES ASSUME TInv, NEW c \in Commands, stage[c] = "written", NEW k \in DOMAIN plan
               PROVE  Told(c, k)
    BY DEF EvidenceTellsFaults, Told
  <2>1. k \in 1..Len(plan) /\ Len(plan) \in Nat
    BY DEF TInv, FaultType
  <2>2. Judged(c, k) /\ failed[c] = {}
    BY <2>1 DEF TInv, TellsSoFar, Judged
  <2> QED BY <2>1, <2>2 DEF TInv, TellsSoFar
<1> QED BY <1>1, FaultInvariant, PTL
------------------------------------------------------------------------------
\* A command whose port is its own and whose service nobody else uses: the service
\* has counted what the case met, and the case comes out as its row says.
Own(c) == IF base[c] = "inside" THEN [owner |-> c, inside |-> TRUE] ELSE Child(c)
BagOf(seen) == SetToBag({seen[i].fault : i \in DOMAIN seen})

AsTold(c) ==
  /\ counts[Own(c)] = BagOf(Seen(c))
  /\ \A i \in DOMAIN failures[c] :
       i = 1 /\ failures[c][1] = [format |-> Case(c).format,
                                  class |-> ExpectedClass(Case(c).fault)]
  /\ stage[c] = "call" => Len(Seen(c)) <= Case(c).fallbacks
  /\ stage[c] = "state" =>
       /\ reply[c].status = Case(c).status /\ reply[c].error = Case(c).error
       /\ reply[c].format = Case(c).route[Case(c).fallbacks + 1]
       /\ Len(Seen(c)) = Case(c).fallbacks + 1 /\ Len(failures[c]) = 1

AtService(c) == stage[c] \in {"reset", "call", "state"}

\* Where a command stands, alone or not.
Places(c) ==
  /\ stage[c] = "start" <=> port[c] = 0
  /\ stage[c] \in {"start", "poll"} => failed[c] = {} /\ base[c] = "none"
  /\ AtService(c) => base[c] # "none"

AloneGoesWell(c) ==
  Alone(c) =>
    /\ failed[c] = {}
    /\ AtService(c) /\ base[c] = "port" => process[c] = "live"
    /\ stage[c] \in {"call", "state"} => AsTold(c)

AInv == \A c \in Commands : Places(c) /\ AloneGoesWell(c)
------------------------------------------------------------------------------
\* An answer is told by the first event that ends it.
LEMMA VerdictAt ==
  ASSUME NEW call, NEW events, NEW n \in Nat, n \in DOMAIN events,
         DOMAIN events \subseteq Nat, Ends(call, events[n]),
         \A j \in DOMAIN events : j < n => ~Ends(call, events[j])
  PROVE  Verdict(call, 200, events) =
           IF events[n] = "done" THEN "final" ELSE EventClass(call, events[n])
<1> DEFINE ends == {i \in DOMAIN events : Ends(call, events[i])}
           first == CHOOSE i \in ends : \A j \in ends : i <= j
<1>1. n \in ends /\ \A j \in ends : j \in Nat /\ n <= j
  OBVIOUS
<1>2. first \in ends /\ \A j \in ends : first <= j
  BY <1>1
<1>3. first = n
  BY <1>1, <1>2
<1> HIDE DEF first
<1>4. ends # {}
  BY <1>1
<1>5. Verdict(call, 200, events) = IF events[first] = "done" THEN "final"
                                   ELSE EventClass(call, events[first])
  BY <1>4 DEF Verdict, first
<1> QED BY <1>3, <1>5

LEMMA VerdictFinal ==
  ASSUME NEW call, NEW events, \A j \in DOMAIN events : ~Ends(call, events[j])
  PROVE  Verdict(call, 200, events) = "final"
BY DEF Verdict, Accepted

LEMMA VerdictOfHead ==
  ASSUME NEW call, NEW head, head # 0, ~Accepted(call, head)
  PROVE  Verdict(call, head, <<>>) = HeadClass(call, head)
BY DEF Verdict

LEMMA VerdictOfOne ==
  ASSUME NEW call, NEW event, event # "done", EventClass(call, event) # "none"
  PROVE  Verdict(call, 200, <<event>>) = EventClass(call, event)
<1> DEFINE events == <<event>>
<1>1. DOMAIN events = {1} /\ events[1] = event
  OBVIOUS
<1>2. Ends(call, events[1]) /\ \A j \in DOMAIN events : ~(j < 1)
  BY <1>1 DEF Ends
<1> HIDE DEF events
<1>3. Verdict(call, 200, events) = EventClass(call, event)
  BY <1>1, <1>2, VerdictAt
<1> QED BY <1>3 DEF events

\* How each row works out when its two providers are there: the verdict on its
\* fault, whether there was output before it, and the verdict on the second one.
Of(format, stream) == [format |-> format, stream |-> stream]
VerdictOn(call, fault) ==
  Verdict(call, FaultAnswer(call, fault).head, FaultAnswer(call, fault).events)
Begun(call, fault) ==
  /\ call.stream
  /\ \E i \in DOMAIN FaultAnswer(call, fault).events :
       FaultAnswer(call, fault).events[i] = "text"

WorksOut(t) ==
  LET call == Of(t.format, t.stream)
      class == VerdictOn(call, t.fault) IN
  /\ class = ExpectedClass(t.fault) /\ class # "final"
  /\ t.fallbacks = 1 =>
       /\ class \in Eligible /\ ~Begun(call, t.fault)
       /\ VerdictOn(Of(t.route[2], t.stream), "ok") = "final"
       /\ t.status = 200
  /\ t.fallbacks = 0 =>
       /\ class \notin Eligible
       /\ t.status = IF Begun(call, t.fault) THEN 200 ELSE ErrorStatus(class)
       /\ t.error = IF Begun(call, t.fault) THEN "stream_started_failure" ELSE class
  /\ t.fault = "stream_fail_after_first_chunk" => t.fallbacks = 0
  /\ t.fault = "in_band_error" => t.fallbacks = 1

\* A provider of the OpenAI format that is in order, streaming or not.
LEMMA SecondIsFinal ==
  ASSUME NEW stream \in BOOLEAN
  PROVE  VerdictOn(Of("openai", stream), "ok") = "final"
<1> DEFINE call == Of("openai", stream)
<1>1. CASE stream
  <2> DEFINE events == <<"text", "usage", "done">>
  <2>1. FaultAnswer(call, "ok").head = 200 /\ FaultAnswer(call, "ok").events = events
    BY <1>1 DEF FaultAnswer, OpenAIStream, Of
  <2>2. /\ Ends(call, events[3]) /\ events[3] = "done"
        /\ \A j \in 1..3 : j < 3 => ~Ends(call, events[j])
    BY <1>1 DEF Ends, EventClass, Losses, Of
  <2>3. DOMAIN events = 1..3
    OBVIOUS
  <2> HIDE DEF events, call
  <2>4. Verdict(call, 200, events) = "final"
    BY <2>2, <2>3, VerdictAt
  <2> QED BY <2>1, <2>4 DEF VerdictOn, call
<1>2. CASE ~stream
  <2> DEFINE events == <<"usage">>
  <2>1. FaultAnswer(call, "ok").head = 200 /\ FaultAnswer(call, "ok").events = events
    BY <1>2 DEF FaultAnswer, Streams, Of
  <2>2. \A j \in DOMAIN events : ~Ends(call, events[j])
    BY <1>2 DEF Ends, EventClass, Losses, Of
  <2> HIDE DEF events, call
  <2>3. Verdict(call, 200, events) = "final"
    BY <2>2, VerdictFinal
  <2> QED BY <2>1, <2>3 DEF VerdictOn, call
<1> QED BY <1>1, <1>2

\* What the faults of the table come to.
LEMMA FaultsWorkOut ==
  /\ VerdictOn(Of("anthropic", FALSE), "rate_limited_429") = "rate_limited"
  /\ VerdictOn(Of("anthropic", FALSE), "server_500") = "provider_5xx"
  /\ VerdictOn(Of("anthropic", FALSE), "timeout") = "timeout"
  /\ VerdictOn(Of("openai", FALSE), "malformed_json") = "malformed_response"
  /\ VerdictOn(Of("openai", TRUE), "stream_fail_after_first_chunk")
       = "malformed_response"
  /\ Begun(Of("openai", TRUE), "stream_fail_after_first_chunk")
  /\ VerdictOn(Of("anthropic", TRUE), "in_band_error") = "provider_5xx"
  /\ ~Begun(Of("anthropic", TRUE), "in_band_error")
<1>1. VerdictOn(Of("anthropic", FALSE), "rate_limited_429") = "rate_limited"
  <2> DEFINE call == Of("anthropic", FALSE)
  <2>1. /\ FaultAnswer(call, "rate_limited_429").head = 429
        /\ FaultAnswer(call, "rate_limited_429").events = <<>>
    BY DEF FaultAnswer
  <2>2. ~Accepted(call, 429) /\ HeadClass(call, 429) = "rate_limited"
    BY DEF Accepted, HeadClass, StatusClass, Of
  <2> HIDE DEF call
  <2>3. Verdict(call, 429, <<>>) = "rate_limited"
    BY <2>2, VerdictOfHead
  <2> QED BY <2>1, <2>3 DEF VerdictOn, call
<1>2. VerdictOn(Of("anthropic", FALSE), "server_500") = "provider_5xx"
  <2> DEFINE call == Of("anthropic", FALSE)
  <2>1. /\ FaultAnswer(call, "server_500").head = 500
        /\ FaultAnswer(call, "server_500").events = <<>>
    BY DEF FaultAnswer
  <2>2. ~Accepted(call, 500) /\ HeadClass(call, 500) = "provider_5xx"
    BY DEF Accepted, HeadClass, StatusClass, Of
  <2> HIDE DEF call
  <2>3. Verdict(call, 500, <<>>) = "provider_5xx"
    BY <2>2, VerdictOfHead
  <2> QED BY <2>1, <2>3 DEF VerdictOn, call
<1>3. VerdictOn(Of("anthropic", FALSE), "timeout") = "timeout"
  <2>1. FaultAnswer(Of("anthropic", FALSE), "timeout").head = 0
    BY DEF FaultAnswer
  <2> QED BY <2>1 DEF VerdictOn, Verdict
<1>4. VerdictOn(Of("openai", FALSE), "malformed_json") = "malformed_response"
  <2> DEFINE call == Of("openai", FALSE)
             answer == FaultAnswer(call, "malformed_json")
  <2>1. answer.head = 200 /\ answer.events = <<"garbled">>
    BY DEF FaultAnswer, Of
  <2>2. EventClass(call, "garbled") = "malformed_response"
    BY DEF EventClass, Losses
  <2>3. Verdict(call, 200, <<"garbled">>) = "malformed_response"
    BY <2>2, VerdictOfOne
  <2> QED BY <2>1, <2>3 DEF VerdictOn
<1>5. /\ VerdictOn(Of("openai", TRUE), "stream_fail_after_first_chunk")
           = "malformed_response"
      /\ Begun(Of("openai", TRUE), "stream_fail_after_first_chunk")
  <2> DEFINE call == Of("openai", TRUE)
             answer == FaultAnswer(call, "stream_fail_after_first_chunk")
             events == <<"text", "garbled">>
  <2>1. answer.head = 200 /\ answer.events = events /\ call.stream
    BY DEF FaultAnswer, OpenAIStream, Of
  <2>2. EventClass(call, "garbled") = "malformed_response" /\ ~Ends(call, "text")
    BY DEF EventClass, Losses, Ends
  <2>3. DOMAIN events = 1..2 /\ events[1] = "text" /\ events[2] = "garbled"
    OBVIOUS
  <2> HIDE DEF events, call
  <2>4. Verdict(call, 200, events) = "malformed_response"
    <3>1. Ends(call, events[2]) /\ \A j \in 1..2 : j < 2 => ~Ends(call, events[j])
      BY <2>2, <2>3 DEF Ends
    <3> QED BY <2>2, <2>3, <3>1, VerdictAt
  <2>5. \E i \in DOMAIN answer.events : answer.events[i] = "text"
    BY <2>1, <2>3
  <2> QED BY <2>1, <2>4, <2>5 DEF VerdictOn, Begun, call
<1>6. /\ VerdictOn(Of("anthropic", TRUE), "in_band_error") = "provider_5xx"
      /\ ~Begun(Of("anthropic", TRUE), "in_band_error")
  <2> DEFINE call == Of("anthropic", TRUE)
             answer == FaultAnswer(call, "in_band_error")
  <2>1. answer.head = 200 /\ answer.events = <<"error">>
    BY DEF FaultAnswer, AnthropicStream, Of
  <2>2. EventClass(call, "error") = "provider_5xx"
    BY DEF EventClass, Losses, Of
  <2>3. Verdict(call, 200, <<"error">>) = "provider_5xx"
    BY <2>2, VerdictOfOne
  <2>4. \A i \in DOMAIN answer.events : answer.events[i] # "text"
    <3>1. \A i \in DOMAIN <<"error">> : <<"error">>[i] # "text"
      OBVIOUS
    <3> HIDE DEF answer
    <3> QED BY <2>1, <3>1
  <2> HIDE DEF answer, call
  <2> QED BY <2>1, <2>3, <2>4 DEF VerdictOn, Begun, answer, call
<1> QED BY <1>1, <1>2, <1>3, <1>4, <1>5, <1>6

LEMMA RowWorksOut ==
  ASSUME NEW format, NEW fault, NEW stream, NEW route, NEW status,
         NEW fallbacks \in {0, 1}, NEW error, NEW class, NEW begun \in BOOLEAN,
         class = VerdictOn(Of(format, stream), fault), class = ExpectedClass(fault),
         class # "final", begun <=> Begun(Of(format, stream), fault),
         fallbacks = 1 => /\ class \in Eligible /\ ~begun /\ status = 200
                          /\ VerdictOn(Of(route[2], stream), "ok") = "final"
                          /\ fault # "stream_fail_after_first_chunk",
         fallbacks = 0 => /\ class \notin Eligible /\ fault # "in_band_error"
                          /\ status = IF begun THEN 200 ELSE ErrorStatus(class)
                          /\ error = IF begun THEN "stream_started_failure" ELSE class
  PROVE  WorksOut(Faulty(fault, format, stream, route, status, fallbacks, error))
<1> DEFINE t == Faulty(fault, format, stream, route, status, fallbacks, error)
<1>1. /\ t.fault = fault /\ t.format = format /\ t.stream = stream /\ t.route = route
      /\ t.status = status /\ t.fallbacks = fallbacks /\ t.error = error
  BY DEF Faulty
<1> HIDE DEF t
<1>2. WorksOut(t)
  BY <1>1, Zenon DEF WorksOut
<1> QED BY <1>2 DEF t

LEMMA TheTableWorksOut == \A k \in 1..6 : WorksOut(Cases[k])
<1>1. Premium[2] = "openai" /\ \A fault : ~Begun(Of("anthropic", FALSE), fault)
  BY DEF Premium, Begun, Of
<1>2. ~Begun(Of("openai", FALSE), "malformed_json")
  BY DEF Begun, Of
<1>3. /\ "rate_limited" \in Eligible /\ "provider_5xx" \in Eligible /\ "timeout" \in Eligible
      /\ "malformed_response" \notin Eligible /\ ErrorStatus("malformed_response") = 502
  BY DEF Eligible, ErrorStatus
<1>4. /\ ExpectedClass("rate_limited_429") = "rate_limited"
      /\ ExpectedClass("server_500") = "provider_5xx"
      /\ ExpectedClass("timeout") = "timeout"
      /\ ExpectedClass("malformed_json") = "malformed_response"
      /\ ExpectedClass("stream_fail_after_first_chunk") = "malformed_response"
      /\ ExpectedClass("in_band_error") = "provider_5xx"
  BY DEF ExpectedClass
<1>5. /\ VerdictOn(Of(Premium[2], FALSE), "ok") = "final"
      /\ VerdictOn(Of(Premium[2], TRUE), "ok") = "final"
  BY <1>1, SecondIsFinal
<1>6. 0 # 1 /\ FALSE \in BOOLEAN /\ TRUE \in BOOLEAN
  OBVIOUS
<1>7. WorksOut(Faulty("rate_limited_429", "anthropic", FALSE, Premium, 200, 1, "none"))
  BY <1>1, <1>2, <1>3, <1>4, <1>5, <1>6, FaultsWorkOut, RowWorksOut
<1>8. WorksOut(Faulty("server_500", "anthropic", FALSE, Premium, 200, 1, "none"))
  BY <1>1, <1>2, <1>3, <1>4, <1>5, <1>6, FaultsWorkOut, RowWorksOut
<1>9. WorksOut(Faulty("timeout", "anthropic", FALSE, Premium, 200, 1, "none"))
  BY <1>1, <1>2, <1>3, <1>4, <1>5, <1>6, FaultsWorkOut, RowWorksOut
<1>10. WorksOut(Faulty("malformed_json", "openai", FALSE, Economy, 502, 0,
                      "malformed_response"))
  BY <1>2, <1>3, <1>4, <1>6, FaultsWorkOut, RowWorksOut
<1>11. WorksOut(Faulty("stream_fail_after_first_chunk", "openai", TRUE, Economy, 200, 0,
                      "stream_started_failure"))
  BY <1>1, <1>2, <1>3, <1>4, <1>5, <1>6, FaultsWorkOut, RowWorksOut
<1>12. WorksOut(Faulty("in_band_error", "anthropic", TRUE, Premium, 200, 1, "none"))
  BY <1>1, <1>2, <1>3, <1>4, <1>5, <1>6, FaultsWorkOut, RowWorksOut
<1>13. \A k \in 1..6 : k = 1 \/ k = 2 \/ k = 3 \/ k = 4 \/ k = 5 \/ k = 6
  OBVIOUS
<1>14. /\ WorksOut(Cases[1]) /\ WorksOut(Cases[2]) /\ WorksOut(Cases[3])
       /\ WorksOut(Cases[4]) /\ WorksOut(Cases[5]) /\ WorksOut(Cases[6])
  BY <1>7, <1>8, <1>9, <1>10, <1>11, <1>12 DEF Cases
<1> QED BY <1>13, <1>14
------------------------------------------------------------------------------
LEMMA CaseWorksOut ==
  ASSUME FaultType, NEW c \in Commands
  PROVE  WorksOut(Case(c))
<1>1. case[c] \in DOMAIN plan /\ plan[case[c]] \in 1..Len(Cases)
  BY DEF FaultType
<1> QED BY <1>1, TheTable, TheTableWorksOut DEF Case

\* A command that is alone reaches its own service, and no other command does.
LEMMA AloneReachesOwn ==
  ASSUME FaultType, NEW c \in Commands, Places(c), AloneGoesWell(c), Alone(c), AtService(c)
  PROVE  Reached(c) = {Own(c)}
<1>1. CASE base[c] = "inside"
  BY <1>1 DEF Reached, Own
<1>2. CASE base[c] # "inside"
  <2>1. base[c] = "port" /\ process[c] = "live"
    BY <1>2 DEF FaultType, Places, AloneGoesWell
  <2>2. Listening(port[c]) = {c}
    BY <2>1 DEF Listening, Alone
  <2> QED BY <1>2, <2>2 DEF Reached, Own
<1> QED BY <1>1, <1>2

LEMMA OwnIsService == ASSUME NEW c \in Commands PROVE Own(c) \in Services
BY ServicesAssumption DEF Own, Child

LEMMA NobodyElseReaches ==
  ASSUME NEW c \in Commands, NEW d \in Commands \ {c}, Alone(c), NEW t \in Reached(d)
  PROVE  t # Own(c)
<1>1. Own(c).owner = c
  BY DEF Own, Child
<1>2. t.owner # c
  BY DEF Reached, Listening, Alone, Child
<1> QED BY <1>1, <1>2

\* What a command does not touch of another that is alone.
LEMMA AloneKeeps ==
  ASSUME NEW d \in Commands, Places(d), AloneGoesWell(d), plan' = plan,
         stage'[d] = stage[d], case'[d] = case[d], failures'[d] = failures[d],
         reply'[d] = reply[d], failed'[d] = failed[d], met'[d] = met[d],
         base'[d] = base[d], port'[d] = port[d],
         Alone(d)' /\ stage[d] # "start" => Alone(d),
         AtService(d) /\ base[d] = "port" /\ process[d] = "live" => process'[d] = "live",
         AtService(d) /\ Alone(d) /\ Alone(d)' => counts'[Own(d)] = counts[Own(d)]
  PROVE  Places(d)' /\ AloneGoesWell(d)'
<1>1. Seen(d)' = Seen(d) /\ Case(d)' = Case(d) /\ Own(d)' = Own(d)
  BY DEF Seen, Case, Own
<1>2. Places(d)' /\ (AtService(d)' <=> AtService(d))
  BY DEF Places, AtService
<1>3. AtService(d) /\ Alone(d) /\ Alone(d)' => (AsTold(d) => AsTold(d)')
  BY <1>1 DEF AsTold
<1>4. CASE stage[d] = "start"
  BY <1>4, <1>2 DEF AloneGoesWell, Places, AtService
<1>5. CASE stage[d] # "start"
  BY <1>2, <1>3, <1>5 DEF AloneGoesWell, AtService
<1> QED BY <1>2, <1>4, <1>5

\* Ports stay drawn, and strays are not forgotten.
LEMMA StaysAlone ==
  ASSUME NEW d \in Commands, port' = port, strayed \subseteq strayed', Alone(d)'
  PROVE  Alone(d)
BY DEF Alone

LEMMA AloneInit == Init => AInv
BY DEF Init, AInv, Places, AloneGoesWell, AtService

LEMMA StartGoesWell == ASSUME TInv, AInv, NEW c \in Commands, Start(c) PROVE AInv'
<1>1. FaultType
  BY DEF TInv
<1>2. PICK p \in Ports : port' = [port EXCEPT ![c] = p]
  BY DEF Start
<1>3. /\ stage[c] = "start" /\ stage' = [stage EXCEPT ![c] = "poll"]
      /\ process' = [process EXCEPT ![c] = "booting"]
      /\ UNCHANGED <<service, base, polls, progress, strayed>>
  BY DEF Start, Goto
<1>4. p # 0 /\ port'[c] = p /\ \A d \in Commands : d # c => port'[d] = port[d]
  BY <1>1, <1>2, PortsAssumption DEF FaultType
<1>5. ASSUME NEW d \in Commands \ {c} PROVE Places(d)' /\ AloneGoesWell(d)'
  <2>1. port[c] = 0
    BY <1>3 DEF AInv, Places
  <2>2. Alone(d)' /\ stage[d] # "start" => Alone(d)
    <3>1. stage[d] # "start" => port[d] # 0
      BY DEF AInv, Places
    <3> QED BY <1>3, <1>4, <2>1, <3>1 DEF Alone
  <2>3. stage'[d] = stage[d] /\ process'[d] = process[d]
    BY <1>1, <1>3 DEF FaultType
  <2> QED BY <1>3, <1>4, <2>2, <2>3, AloneKeeps DEF AInv, service, progress
<1>6. Places(c)' /\ AloneGoesWell(c)'
  <2>1. stage'[c] = "poll" /\ failed'[c] = {} /\ base'[c] = "none"
    BY <1>1, <1>3 DEF FaultType, AInv, Places, progress
  <2> QED BY <1>4, <2>1 DEF Places, AloneGoesWell, AtService
<1> QED BY <1>5, <1>6 DEF AInv

LEMMA PollGoesWell == ASSUME TInv, AInv, NEW c \in Commands, Poll(c) PROVE AInv'
<1>1. FaultType
  BY DEF TInv
<1>2. /\ stage[c] = "poll" /\ UNCHANGED <<service, process, port, progress, strayed>>
      /\ \A d \in Commands : d # c => stage'[d] = stage[d] /\ base'[d] = base[d]
      /\ \/ stage'[c] = "poll" /\ base'[c] = base[c]
         \/ stage'[c] = "reset" /\ base'[c] = "inside"
         \/ stage'[c] = "reset" /\ base'[c] = "port" /\ Listening(port[c]) # {}
  BY <1>1 DEF Poll, Use, Goto, FaultType
<1>3. ASSUME NEW d \in Commands \ {c} PROVE Places(d)' /\ AloneGoesWell(d)'
  BY <1>2, AloneKeeps, StaysAlone DEF AInv, service, progress
<1>4. failed'[c] = {} /\ port'[c] # 0
  BY <1>2 DEF AInv, Places, progress
<1>5. Alone(c)' /\ Listening(port[c]) # {} => process'[c] = "live"
  BY <1>2, StaysAlone DEF Alone, Listening
<1>6. Places(c)' /\ AloneGoesWell(c)'
  BY <1>2, <1>4, <1>5 DEF AInv, Places, AloneGoesWell, AtService
<1> QED BY <1>3, <1>6 DEF AInv

LEMMA ResetGoesWell == ASSUME TInv, AInv, NEW c \in Commands, ResetService(c) PROVE AInv'
<1>1. FaultType /\ TellsSoFar(c)
  BY DEF TInv
<1>2. /\ stage[c] = "reset" /\ stage'[c] \in {"raising", "call"} /\ failures'[c] = <<>>
      /\ UNCHANGED <<process, port, base, polls, plan, case, failed, met, strayed>>
      /\ \A d \in Commands : d # c => /\ stage'[d] = stage[d]
                                      /\ failures'[d] = failures[d] /\ reply'[d] = reply[d]
  BY <1>1 DEF FaultType, ResetService, Raise, Goto
<1>3. ASSUME NEW d \in Commands \ {c} PROVE Places(d)' /\ AloneGoesWell(d)'
  <2>1. Alone(d) => counts'[Own(d)] = counts[Own(d)]
    <3>1. counts' = counts \/ \E t \in Reached(c) : counts' = [counts EXCEPT ![t] = EmptyBag]
      BY DEF ResetService, Raise, Reset, service
    <3> QED BY <1>1, <3>1, NobodyElseReaches, OwnIsService DEF FaultType
  <2> QED BY <1>2, <2>1, AloneKeeps, StaysAlone DEF AInv
<1>4. Places(c)'
  BY <1>2 DEF AInv, Places, AtService
<1>5. ASSUME Alone(c)', stage'[c] = "call" PROVE AsTold(c)'
  <2>1. Alone(c) /\ AtService(c) /\ Own(c)' = Own(c)
    BY <1>2, <1>5, StaysAlone DEF AtService, Own
  <2>2. Reached(c) = {Own(c)}
    BY <1>1, <2>1, AloneReachesOwn DEF AInv
  <2>3. Reset(Own(c)) /\ Own(c) \in Services
    BY <2>2, ReachedAreServices, <1>5, <1>1 DEF ResetService, Raise, Goto, FaultType
  <2>4. counts'[Own(c)] = EmptyBag
    BY <1>1, <2>3 DEF Reset, FaultType
  <2>5. Seen(c)' = <<>>
    BY <1>1, <1>2 DEF TellsSoFar, Seen
  <2>6. BagOf(Seen(c)') = EmptyBag /\ Len(Seen(c)') = 0
    <3>1. {<<>>[i].fault : i \in DOMAIN <<>>} = {} /\ Len(<<>>) = 0
      OBVIOUS
    <3> QED BY <2>5, <3>1 DEF BagOf, EmptyBag
  <2>7. Case(c)' = Case(c) /\ Case(c).fallbacks \in 0..1
    BY <1>1, <1>2, CaseIsStated DEF Case, WellStated
  <2> QED BY <1>2, <1>5, <2>1, <2>4, <2>6, <2>7 DEF AsTold
<1>6. AloneGoesWell(c)'
  BY <1>2, <1>5, StaysAlone DEF AInv, AloneGoesWell, AtService
<1> QED BY <1>3, <1>4, <1>6 DEF AInv

LEMMA BagOfFirst == ASSUME NEW e PROVE SetToBag({}) (+) SetToBag({e}) = SetToBag({e})
BY DEF SetToBag, (+)

LEMMA BagOfSecond ==
  ASSUME NEW e, NEW f, e # f
  PROVE  SetToBag({e}) (+) SetToBag({f}) = SetToBag({e, f})
BY DEF SetToBag, (+)

\* A call of its own service by a command that is alone takes the case one step
\* further along its row.
LEMMA CallAsTold ==
  ASSUME TInv, AInv, NEW c \in Commands, CallProvider(c), Alone(c), CallOf(c, Own(c))
  PROVE  AsTold(c)'
<1> DEFINE t == Own(c)
           n == Len(Seen(c))
           class == ClassOf(c, t)
<1>1. /\ FaultType /\ TellsSoFar(c) /\ Underway(c) /\ WellStated(Case(c)) /\ WorksOut(Case(c))
      /\ stage[c] = "call" /\ AsTold(c) /\ t \in Services /\ t # Nobody
      /\ UNCHANGED <<base, plan, case>>
  BY CaseIsStated, CaseWorksOut, OwnIsService, ReachedAreServices
     DEF TInv, AInv, AloneGoesWell, TellsSoFar, CallProvider
<1>2. /\ n \in 0..1 /\ Len(failures[c]) = n /\ n <= Case(c).fallbacks
      /\ Case(c).fallbacks \in 0..1
  BY <1>1 DEF TellsSoFar, AsTold, WellStated
<1>3. /\ Position(c) = n + 1 /\ Format(c) = Case(c).route[n + 1]
      /\ Override(c) = IF n = 0 THEN Case(c).fault ELSE "ok"
      /\ Selected(t, Override(c)) = Override(c) /\ Override(c) \in FaultNames
      /\ class \in Classes \cup {"final"} /\ Format(c) \in Formats
  BY <1>1, <1>2, CallFacts
<1>4. Call(c) = Of(Format(c), Case(c).stream)
  BY DEF Call, Of
<1>5. class = VerdictOn(Call(c), Override(c)) /\ (StartedBy(c, t) <=> Begun(Call(c), Override(c)))
  BY <1>1, <1>3, <1>4 DEF ClassOf, AnswerOf, VerdictOn, StartedBy, Begun, Of
<1>6. Met(c, t) \in Meetings /\ Seen(c) \in Seq(Meetings) /\ failures[c] \in Seq(Failures)
      /\ (class # "final" => [format |-> Format(c), class |-> class] \in Failures)
  BY <1>1, <1>3 DEF Met, Meetings, Failures, FaultType, Seen
<1>7. /\ Seen(c)' = Append(Seen(c), Met(c, t)) /\ Case(c)' = Case(c) /\ Own(c)' = t
      /\ counts'[t] = counts[t] (+) SetToBag({Override(c)})
  <2>1. Seen(c)' = Append(Seen(c), Met(c, t))
    BY <1>1 DEF CallOf, FaultType, Seen
  <2>2. Case(c)' = Case(c) /\ Own(c)' = t
    BY <1>1 DEF Case, Own
  <2>3. counts' = [counts EXCEPT ![t] = @ (+) SetToBag({Override(c)})]
    BY <1>1, <1>3 DEF CallOf, Select
  <2>4. counts'[t] = counts[t] (+) SetToBag({Override(c)})
    BY <1>1, <2>3 DEF FaultType
  <2> QED BY <2>1, <2>2, <2>4
<1>8. /\ Len(Seen(c)') = n + 1 /\ DOMAIN Seen(c)' = 1..(n + 1)
      /\ Seen(c)'[n + 1].fault = Override(c)
      /\ \A i \in 1..n : Seen(c)'[i] = Seen(c)[i]
      /\ DOMAIN Seen(c) = 1..n /\ DOMAIN failures[c] = 1..n
  BY <1>2, <1>6, <1>7 DEF Met
<1>9. CASE n = 0
  <2> DEFINE f == [format |-> Format(c), class |-> class]
  <2>1. /\ Format(c) = Case(c).format /\ Override(c) = Case(c).fault
        /\ class = ExpectedClass(Case(c).fault) /\ class # "final"
    BY <1>1, <1>3, <1>4, <1>5, <1>9 DEF WellStated, WorksOut
  <2>2. counts'[t] = BagOf(Seen(c)')
    <3>1. {Seen(c)[i].fault : i \in DOMAIN Seen(c)} = {}
      BY <1>8, <1>9
    <3>2. {Seen(c)'[i].fault : i \in DOMAIN Seen(c)'} = {Override(c)}
      BY <1>8, <1>9
    <3>3. counts[t] = SetToBag({})
      BY <1>1, <3>1 DEF BagOf, AsTold
    <3> QED BY <1>7, <3>2, <3>3, BagOfFirst DEF BagOf
  <2>3. failures' = [failures EXCEPT ![c] = Append(@, f)]
    BY <2>1 DEF CallOf
  <2>4. failures'[c] = Append(failures[c], f)
    BY <1>1, <2>3 DEF FaultType
  <2>5. /\ DOMAIN failures'[c] = 1..1 /\ Len(failures'[c]) = 1 /\ failures'[c][1] = f
    BY <1>2, <1>6, <1>9, <2>1, <2>4
  <2>6. CASE Case(c).fallbacks = 1
    <3>1. Followed(c, class, StartedBy(c, t))
      BY <1>1, <1>3, <1>4, <1>5, <1>9, <2>1, <2>6 DEF Followed, WorksOut
    <3>2. stage'[c] = "call"
      BY <1>1, <2>1, <3>1 DEF CallOf
    <3> QED BY <1>7, <1>8, <1>9, <2>1, <2>2, <2>5, <2>6, <3>2 DEF AsTold
  <2>7. CASE Case(c).fallbacks = 0
    <3>1. /\ class \notin Eligible
          /\ Case(c).status = IF StartedBy(c, t) THEN 200 ELSE ErrorStatus(class)
          /\ Case(c).error = ErrorOf(c, t)
      BY <1>1, <1>4, <1>5, <2>1, <2>7 DEF WorksOut, ErrorOf
    <3>2. ~Followed(c, class, StartedBy(c, t))
      BY <3>1 DEF Followed
    <3>3. stage' = [stage EXCEPT ![c] = "state"]
          /\ reply' = [reply EXCEPT ![c] =
                 [status |-> IF StartedBy(c, t) THEN 200 ELSE ErrorStatus(class),
                  format |-> Format(c), error |-> ErrorOf(c, t)]]
      BY <2>1, <3>2 DEF CallOf
    <3>4. /\ stage'[c] = "state" /\ reply'[c].status = Case(c).status
          /\ reply'[c].error = Case(c).error /\ reply'[c].format = Case(c).route[1]
      BY <1>1, <1>3, <1>9, <3>1, <3>3 DEF FaultType
    <3>5. Case(c).fallbacks + 1 = 1 /\ Len(Seen(c)') = 1
      BY <1>8, <1>9, <2>7
    <3> QED BY <1>7, <2>1, <2>2, <2>5, <3>4, <3>5 DEF AsTold
  <2> QED BY <1>2, <2>6, <2>7
<1>10. CASE n = 1
  <2>1. Case(c).fallbacks = 1 /\ Format(c) = Case(c).route[2] /\ Override(c) = "ok"
    BY <1>2, <1>3, <1>10
  <2>2. class = "final" /\ Case(c).status = 200 /\ Case(c).error = "none"
    BY <1>1, <1>4, <1>5, <2>1 DEF WorksOut, WellStated
  <2>3. counts'[t] = BagOf(Seen(c)')
    <3>1. Seen(c)[1].fault = Case(c).fault /\ Case(c).fault # "ok"
      BY <1>1, <1>8, <1>10 DEF Underway, WellStated
    <3>2. {Seen(c)[i].fault : i \in DOMAIN Seen(c)} = {Case(c).fault}
      BY <1>8, <1>10, <3>1
    <3>3. {Seen(c)'[i].fault : i \in DOMAIN Seen(c)'} = {Case(c).fault, "ok"}
      BY <1>8, <1>10, <2>1, <3>1
    <3>4. counts[t] = SetToBag({Case(c).fault})
      BY <1>1, <3>2 DEF BagOf, AsTold
    <3>5. counts'[t] = SetToBag({Case(c).fault}) (+) SetToBag({"ok"})
      BY <1>7, <2>1, <3>4
    <3>6. SetToBag({Case(c).fault}) (+) SetToBag({"ok"}) = SetToBag({Case(c).fault, "ok"})
      BY <3>1, BagOfSecond
    <3> QED BY <3>3, <3>5, <3>6 DEF BagOf
  <2>4. failures' = failures /\ stage' = [stage EXCEPT ![c] = "state"]
        /\ reply' = [reply EXCEPT ![c] =
                       [status |-> 200, format |-> Format(c), error |-> "none"]]
    BY <2>2 DEF CallOf
  <2>5. /\ stage'[c] = "state" /\ reply'[c].status = 200 /\ reply'[c].error = "none"
        /\ reply'[c].format = Case(c).route[2]
    BY <1>1, <2>1, <2>4 DEF FaultType
  <2>6. Case(c).fallbacks + 1 = 2 /\ Len(Seen(c)') = 2 /\ Len(failures'[c]) = 1
    BY <1>2, <1>8, <1>10, <2>1, <2>4
  <2> QED BY <1>1, <1>7, <2>2, <2>3, <2>4, <2>5, <2>6 DEF AsTold
<1> QED BY <1>2, <1>9, <1>10

LEMMA CallGoesWell == ASSUME TInv, AInv, NEW c \in Commands, CallProvider(c) PROVE AInv'
<1>1. PICK t \in Services \cup {Nobody} :
        /\ t \in Reached(c) \/ (t = Nobody /\ Reached(c) = {})
        /\ CallOf(c, t)
  BY CallIsOf
<1>2. /\ FaultType /\ stage[c] = "call" /\ stage'[c] \in {"call", "state"}
      /\ UNCHANGED <<process, port, base, polls, plan, case, failed, strayed>>
      /\ \A d \in Commands : d # c =>
           /\ stage'[d] = stage[d] /\ failures'[d] = failures[d]
           /\ reply'[d] = reply[d] /\ met'[d] = met[d]
  BY <1>1 DEF TInv, FaultType, CallProvider, CallOf
<1>3. ASSUME NEW d \in Commands \ {c} PROVE Places(d)' /\ AloneGoesWell(d)'
  <2>1. Alone(d) => counts'[Own(d)] = counts[Own(d)]
    <3>1. counts' = counts \/ (t \in Reached(c) /\ \E b : counts' = [counts EXCEPT ![t] = b])
      BY <1>1 DEF CallOf, Select, service
    <3> QED BY <1>2, <3>1, NobodyElseReaches, OwnIsService DEF FaultType
  <2> QED BY <1>2, <2>1, AloneKeeps, StaysAlone DEF AInv
<1>4. Places(c)'
  BY <1>2 DEF AInv, Places, AtService
<1>5. ASSUME Alone(c)' PROVE AsTold(c)'
  <2>1. Alone(c) /\ AtService(c)
    BY <1>2, <1>5, StaysAlone DEF AtService
  <2>2. t = Own(c)
    BY <1>1, <1>2, <2>1, AloneReachesOwn DEF AInv
  <2> QED BY <1>1, <2>1, <2>2, CallAsTold
<1>6. AloneGoesWell(c)'
  BY <1>2, <1>5, StaysAlone DEF AInv, AloneGoesWell, AtService
<1> QED BY <1>3, <1>4, <1>6 DEF AInv

\* A case that came out as its row says passes.
LEMMA AsToldPasses ==
  ASSUME TInv, NEW c \in Commands, stage[c] = "state", AsTold(c)
  PROVE  Passed(c, counts[Own(c)])
<1>1. /\ FaultType /\ TellsSoFar(c) /\ Underway(c) /\ WellStated(Case(c)) /\ WorksOut(Case(c))
  BY CaseIsStated, CaseWorksOut DEF TInv, TellsSoFar
<1>2. /\ Len(Seen(c)) = Case(c).fallbacks + 1 /\ Len(failures[c]) = 1
      /\ reply[c].format = Case(c).route[Case(c).fallbacks + 1]
      /\ Case(c).fallbacks \in {0, 1}
      /\ Seen(c) \in Seq(Meetings) /\ failures[c] \in Seq(Failures)
  BY <1>1 DEF AsTold, WellStated, FaultType, Seen
<1>3. DOMAIN failures[c] = {1}
      /\ failures[c][1] = [format |-> Case(c).format,
                           class |-> ExpectedClass(Case(c).fault)]
  BY <1>2 DEF AsTold
<1>4. Case(c).format = Case(c).route[1] /\ Case(c).route[1] # Case(c).route[2]
  BY <1>1 DEF WellStated
<1>5. Fallbacks(c) = Case(c).fallbacks
  <2> DEFINE S == {i \in DOMAIN failures[c] : failures[c][i].format # reply[c].format}
  <2>1. CASE Case(c).fallbacks = 0
    <3>1. S = {}
      BY <1>2, <1>3, <1>4, <2>1
    <3> QED BY <2>1, <3>1, FS_EmptySet DEF Fallbacks
  <2>2. CASE Case(c).fallbacks = 1
    <3>1. reply[c].format = Case(c).route[2]
      BY <1>2, <2>2
    <3>2. S = {1}
      BY <1>3, <1>4, <3>1
    <3> QED BY <2>2, <3>2, FS_Singleton DEF Fallbacks
  <2> QED BY <1>2, <2>1, <2>2
<1>6. CountsAsExpected(Case(c).fault, counts[Own(c)])
  <2>1. CASE Case(c).fault = "stream_fail_after_first_chunk"
    <3>1. Len(Seen(c)) = 1
      BY <1>1, <1>2, <2>1 DEF WorksOut
    <3>2. DOMAIN Seen(c) = {1}
      BY <1>2, <3>1
    <3>3. {Seen(c)[i].fault : i \in DOMAIN Seen(c)} = {Case(c).fault}
      BY <1>1, <3>2 DEF Underway
    <3> QED BY <2>1, <3>3 DEF AsTold, BagOf, CountsAsExpected
  <2>2. CASE Case(c).fault = "in_band_error"
    <3>1. Len(Seen(c)) = 2
      BY <1>1, <1>2, <2>2 DEF WorksOut
    <3>2. DOMAIN Seen(c) = {1, 2}
      BY <1>2, <3>1
    <3>3. {Seen(c)[i].fault : i \in DOMAIN Seen(c)} = {Case(c).fault, "ok"}
      BY <1>1, <3>2 DEF Underway
    <3> QED BY <2>2, <3>3 DEF AsTold, BagOf, CountsAsExpected
  <2> QED BY <2>1, <2>2 DEF CountsAsExpected
<1> QED BY <1>2, <1>3, <1>5, <1>6 DEF Passed, AsTold

LEMMA JudgeGoesWell == ASSUME TInv, AInv, NEW c \in Commands, ReadState(c) PROVE AInv'
<1>1. /\ FaultType /\ stage[c] = "state" /\ stage'[c] \in {"raising", "stop", "reset"}
      /\ UNCHANGED <<process, port, base, polls, plan, failures, reply, met, strayed, service>>
      /\ \A d \in Commands : d # c =>
           stage'[d] = stage[d] /\ case'[d] = case[d] /\ failed'[d] = failed[d]
  BY DEF TInv, FaultType, ReadState, Raise, Goto, service
<1>2. ASSUME NEW d \in Commands \ {c} PROVE Places(d)' /\ AloneGoesWell(d)'
  BY <1>1, AloneKeeps, StaysAlone DEF AInv, service
<1>3. Places(c)'
  BY <1>1 DEF AInv, Places, AtService
<1>4. ASSUME Alone(c)' PROVE failed'[c] = {}
  <2>1. Alone(c) /\ AtService(c) /\ AsTold(c) /\ failed[c] = {}
    BY <1>1, <1>4, StaysAlone DEF AtService, AInv, AloneGoesWell
  <2>2. Reached(c) = {Own(c)}
    BY <1>1, <2>1, AloneReachesOwn DEF AInv
  <2>3. Passed(c, counts[Own(c)])
    BY <1>1, <2>1, AsToldPasses
  <2> QED BY <2>1, <2>2, <2>3 DEF ReadState
<1>5. AloneGoesWell(c)'
  BY <1>1, <1>4, StaysAlone DEF AInv, AloneGoesWell, AtService
<1> QED BY <1>2, <1>3, <1>5 DEF AInv

LEMMA StopGoesWell == ASSUME TInv, AInv, NEW c \in Commands, Stop(c) \/ Killed(c) PROVE AInv'
<1>1. /\ FaultType /\ UNCHANGED <<service, port, base, polls, progress, strayed>>
      /\ stage[c] # "start" /\ stage'[c] \in {"written", "raised", "killed"}
      /\ \A d \in Commands : d # c => stage'[d] = stage[d] /\ process'[d] = process[d]
  BY DEF TInv, FaultType, Stop, Killed, Goto
<1>2. ASSUME NEW d \in Commands \ {c} PROVE Places(d)' /\ AloneGoesWell(d)'
  BY <1>1, AloneKeeps, StaysAlone DEF AInv, service, progress
<1>3. Places(c)' /\ AloneGoesWell(c)'
  BY <1>1, StaysAlone DEF AInv, Places, AloneGoesWell, AtService, progress
<1> QED BY <1>2, <1>3 DEF AInv

LEMMA BootGoesWell == ASSUME TInv, AInv, NEW c \in Commands, Boot(c) PROVE AInv'
<1>1. /\ process[c] = "booting" /\ UNCHANGED <<service, command, progress, strayed>>
      /\ \A d \in Commands : d # c => process'[d] = process[d]
  BY DEF TInv, FaultType, Boot
<1> QED BY <1>1, AloneKeeps, StaysAlone DEF AInv, service, command, progress

LEMMA StrayGoesWell == ASSUME TInv, AInv, Stray PROVE AInv'
<1>1. PICK d \in Commands : Select(Child(d), "none") /\ strayed' = {Child(d)}
  BY DEF Stray
<1>2. UNCHANGED <<process, command, progress>> /\ strayed = {}
  BY DEF Stray
<1>3. ASSUME NEW c \in Commands PROVE Alone(c)' => counts'[Own(c)] = counts[Own(c)]
  <2>1. Alone(c)' => Child(d) # Own(c)
    BY <1>1 DEF Alone, Own, Child
  <2> QED BY <1>1, <2>1, OwnIsService DEF Select, TInv, FaultType
<1> QED BY <1>2, <1>3, AloneKeeps, StaysAlone DEF AInv, command, progress

LEMMA StandstillGoesWell == ASSUME AInv, UNCHANGED vars PROVE AInv'
BY AloneKeeps, StaysAlone DEF AInv, vars, service, command, progress

\* FaultEvidence.TableHolds: the table of the cases agrees with the service, the
\* adapters and the executor (fault_evidence.py, _CASES and _run_case): alone on its
\* port, a command sees all its expectations met, whatever part of the table it runs
\* and whether the service is its child or inside it.
THEOREM TableHoldsAlone == Spec => []TableHolds
<1>1. TInv /\ AInv /\ [Next]_vars => AInv'
  <2> SUFFICES ASSUME TInv, AInv, [Next]_vars PROVE AInv'
    OBVIOUS
  <2> QED BY StartGoesWell, PollGoesWell, ResetGoesWell, CallGoesWell, JudgeGoesWell,
             StopGoesWell, BootGoesWell, StrayGoesWell, StandstillGoesWell
          DEF Next, Step, Ended
<1>2. AInv => TableHolds
  BY DEF AInv, AloneGoesWell, TableHolds
<1> QED BY <1>1, <1>2, AloneInit, FaultInvariant, PTL DEF Spec
==============================================================================
