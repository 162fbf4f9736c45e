---------------------------- MODULE FaultEvidence ----------------------------
(***************************************************************************)
(* The command that makes the local fault evidence (fault_evidence.py):    *)
(* it starts a fault service on a random port, waits for it a while,       *)
(* falls back to one in its own process, runs its cases through a gateway  *)
(* with the real adapters, and writes evidence if each case came out as    *)
(* its table says.  Several commands may run at once.  Nothing but the     *)
(* port tells a command whose service it talks to.                         *)
(*                                                                         *)
(* The adapters are Upstream's Verdict, the answers FaultMock's.  Left     *)
(* out: the elapsed time of the timeout case, texts, the clients.          *)
(***************************************************************************)
EXTENDS FaultMock

CONSTANTS
  Commands,
  Stretches,  \* bound: the parts of the table that commands run, as sequences of cases
  Mortal,     \* bound: the commands that may be killed
  Ports,      \* bound: the ports the commands draw from
  MaxPolls    \* bound: the polls of the service's health, 20 in the code

Faulty(f, format, stream, route, status, fallbacks, error) ==
  [fault |-> f, format |-> format, stream |-> stream, route |-> route,
   status |-> status, fallbacks |-> fallbacks, error |-> error]

Premium == <<"anthropic", "openai">>   \* the formats of managed-premium, private-vllm
Economy == <<"openai", "anthropic">>   \* of private-vllm, managed-economy

\* _CASES.
Cases == <<
  Faulty("rate_limited_429", "anthropic", FALSE, Premium, 200, 1, "none"),
  Faulty("server_500", "anthropic", FALSE, Premium, 200, 1, "none"),
  Faulty("timeout", "anthropic", FALSE, Premium, 200, 1, "none"),
  Faulty("malformed_json", "openai", FALSE, Economy, 502, 0, "malformed_response"),
  Faulty("stream_fail_after_first_chunk", "openai", TRUE, Economy, 200, 0,
         "stream_started_failure"),
  Faulty("in_band_error", "anthropic", TRUE, Premium, 200, 1, "none")>>

\* The class each fault must be counted with, at the first provider of its route.
ExpectedClass(fault) ==
  CASE fault = "rate_limited_429" -> "rate_limited"
    [] fault \in {"server_500", "in_band_error"} -> "provider_5xx"
    [] fault = "timeout" -> "timeout"
    [] OTHER -> "malformed_response"

\* A command runs a part of the table that is not empty.
ASSUME StretchesAssumption == Stretches \subseteq Seq(1..Len(Cases)) \ {<<>>}

\* Ports are drawn from 20000 on; zero stands for none.
ASSUME PortsAssumption == 0 \notin Ports

\* A service of a command: its child process, or the application inside it.
ASSUME ServicesAssumption == Services = [owner : Commands, inside : BOOLEAN]
Child(c) == [owner |-> c, inside |-> FALSE]

VARIABLES
  stage,      \* where each command stands
  port,       \* the port it drew
  process,    \* its child process: "none", "booting", "live", "gone"
  base,       \* whom it talks to: "none", its "port", or the service "inside"
  polls,      \* the polls it made
  plan,       \* the cases to run
  case,       \* the case it runs, by its place in the plan
  failures,   \* the providers that failed in it: [format, class], in order
  reply,      \* the answer of the gateway in it: [status, format, error]
  failed,     \* the cases whose expectations were not met
  met,        \* history: what met each case: [by, fault], in order
  strayed     \* history: the child that somebody else sent a request to

command == <<stage, port, base, polls>>
progress == <<plan, case, failures, reply, failed, met>>
vars == <<service, process, command, progress, strayed>>

Nobody == [owner |-> "nobody", inside |-> FALSE]
ASSUME NobodyAssumption == "nobody" \notin Commands
NoReply == [status |-> 0, format |-> "none", error |-> "none"]

Init ==
  /\ ServiceInit
  /\ stage = [c \in Commands |-> "start"]
  /\ port = [c \in Commands |-> 0]
  /\ process = [c \in Commands |-> "none"]
  /\ base = [c \in Commands |-> "none"]
  /\ polls = [c \in Commands |-> 0]
  /\ plan \in Stretches
  /\ case = [c \in Commands |-> 1]
  /\ failures = [c \in Commands |-> <<>>]
  /\ reply = [c \in Commands |-> NoReply]
  /\ failed = [c \in Commands |-> {}]
  /\ met = [c \in Commands |-> [k \in DOMAIN plan |-> <<>>]]
  /\ strayed = {}

Goto(c, s) == stage' = [stage EXCEPT ![c] = s]

\* The services that answer on a port; uvicorn binds it or gives up.
Listening(p) == {d \in Commands : process[d] = "live" /\ port[d] = p}

\* The service a command reaches.
Reached(c) ==
  IF base[c] = "inside" THEN {[owner |-> c, inside |-> TRUE]}
  ELSE {Child(d) : d \in Listening(port[c])}

Start(c) ==
  /\ stage[c] = "start"
  /\ \E p \in Ports : port' = [port EXCEPT ![c] = p]
  /\ process' = [process EXCEPT ![c] = "booting"]
  /\ Goto(c, "poll")
  /\ UNCHANGED <<service, base, polls, progress, strayed>>

Boot(c) ==
  /\ process[c] = "booting"
  /\ process' = [process EXCEPT ![c] = IF Listening(port[c]) = {} THEN "live" ELSE "gone"]
  /\ UNCHANGED <<service, command, progress, strayed>>

Use(c, b) == base' = [base EXCEPT ![c] = b] /\ Goto(c, "reset")

\* One poll: the command's own child has ended, somebody answers on the port, or
\* nobody does.  That the child has ended may not have come through yet.
Poll(c) ==
  /\ stage[c] = "poll"
  /\ polls' = [polls EXCEPT ![c] = @ + 1]
  /\ \/ process[c] = "gone" /\ Use(c, "inside")
     \/ Listening(port[c]) # {} /\ Use(c, "port")
     \/ /\ Listening(port[c]) = {}
        /\ IF polls[c] + 1 = MaxPolls THEN Use(c, "inside") ELSE UNCHANGED <<stage, base>>
  /\ UNCHANGED <<service, process, port, progress, strayed>>

\* A request of the command itself to a service that is not there raises.
Raise(c) == Goto(c, "raising") /\ UNCHANGED service

ResetService(c) ==
  /\ stage[c] = "reset"
  /\ \/ Reached(c) = {} /\ Raise(c)
     \/ \E s \in Reached(c) : Reset(s) /\ Goto(c, "call")
  /\ failures' = [failures EXCEPT ![c] = <<>>]
  /\ reply' = [reply EXCEPT ![c] = NoReply]
  /\ UNCHANGED <<process, port, base, polls, plan, case, failed, met, strayed>>

Case(c) == Cases[plan[case[c]]]
Position(c) == Len(failures[c]) + 1
Format(c) == Case(c).route[Position(c)]
Call(c) == [format |-> Format(c), stream |-> Case(c).stream]

\* The client of each provider names the fault it is to get.
Override(c) == IF Format(c) = Case(c).format THEN Case(c).fault ELSE "ok"

Eligible == {"timeout", "rate_limited", "provider_5xx"}
ErrorStatus(class) ==
  CASE class = "rate_limited" -> 429 [] class = "timeout" -> 504 [] OTHER -> 502

\* Mutant of Followed: any failure leads on, behind output as well.
FollowedAlways(c, class, started) == Position(c) < 2

\* Whether the executor goes on with the next provider.
Followed(c, class, started) == class \in Eligible /\ ~started /\ Position(c) < 2

\* One provider is called, and the gateway answers or goes on to the next.
CallProvider(c) ==
  /\ stage[c] = "call"
  /\ \E s \in Reached(c) \cup (IF Reached(c) = {} THEN {Nobody} ELSE {}) :
       LET answer == IF s = Nobody THEN [head |-> 0, events |-> <<>>]
                     ELSE FaultAnswer(Call(c), Selected(s, Override(c)))
           class == Verdict(Call(c), answer.head, answer.events)
           started == /\ Case(c).stream
                      /\ \E i \in DOMAIN answer.events : answer.events[i] = "text"
           error == IF started THEN "stream_started_failure" ELSE class
       IN  /\ IF s = Nobody THEN UNCHANGED service ELSE Select(s, Override(c))
           /\ met' = [met EXCEPT ![c][case[c]] = Append(@, [by |-> s, fault |-> Override(c)])]
           /\ IF class = "final"
              THEN /\ reply' = [reply EXCEPT ![c] =
                        [status |-> 200, format |-> Format(c), error |-> "none"]]
                   /\ UNCHANGED failures
                   /\ Goto(c, "state")
              ELSE /\ failures' = [failures EXCEPT ![c] =
                        Append(@, [format |-> Format(c), class |-> class])]
                   /\ IF Followed(c, class, started)
                      THEN UNCHANGED <<reply, stage>>
                      ELSE /\ reply' = [reply EXCEPT ![c] =
                                [status |-> IF started THEN 200 ELSE ErrorStatus(class),
                                 format |-> Format(c), error |-> error]]
                           /\ Goto(c, "state")
  /\ UNCHANGED <<process, port, base, polls, plan, case, failed, strayed>>

Fallbacks(c) ==
  Cardinality({i \in DOMAIN failures[c] : failures[c][i].format # reply[c].format})

\* What only one fault of each kind can have left behind.
CountsAsExpected(fault, seen) ==
  CASE fault = "stream_fail_after_first_chunk" ->
         seen = SetToBag({fault})
    [] fault = "in_band_error" -> seen = SetToBag({fault, "ok"})
    [] OTHER -> TRUE

\* Mutant of Passed: the answer is judged, what it took is not.
PassedByAnswer(c, seen) ==
  /\ reply[c].status = Case(c).status
  /\ reply[c].error = Case(c).error

Passed(c, seen) ==
  /\ reply[c].status = Case(c).status
  /\ reply[c].format = Case(c).route[Case(c).fallbacks + 1]
  /\ Fallbacks(c) = Case(c).fallbacks
  /\ reply[c].error = Case(c).error
  /\ \E i \in DOMAIN failures[c] :
       failures[c][i] = [format |-> Case(c).format, class |-> ExpectedClass(Case(c).fault)]
  /\ CountsAsExpected(Case(c).fault, seen)

\* The counters are read and the case is judged.
ReadState(c) ==
  /\ stage[c] = "state"
  /\ \/ Reached(c) = {} /\ Raise(c) /\ UNCHANGED <<case, failed>>
     \/ \E s \in Reached(c) :
          /\ failed' = IF Passed(c, counts[s]) THEN failed
                       ELSE [failed EXCEPT ![c] = @ \cup {case[c]}]
          /\ IF case[c] = Len(plan)
             THEN Goto(c, "stop") /\ UNCHANGED case
             ELSE Goto(c, "reset") /\ case' = [case EXCEPT ![c] = @ + 1]
          /\ UNCHANGED service
  /\ UNCHANGED <<process, port, base, polls, plan, failures, reply, met, strayed>>

\* The finally clause of _fault_service: the child is terminated, or killed.
Stop(c) ==
  /\ stage[c] \in {"stop", "raising"}
  /\ process' = [process EXCEPT ![c] = "gone"]
  /\ Goto(c, IF stage[c] = "stop" /\ failed[c] = {} THEN "written" ELSE "raised")
  /\ UNCHANGED <<service, port, base, polls, progress, strayed>>

\* The command is killed where it stands, and leaves its child behind.
Killed(c) ==
  /\ c \in Mortal
  /\ stage[c] \in {"poll", "reset", "call", "state", "stop"}
  /\ Goto(c, "killed")
  /\ UNCHANGED <<service, process, port, base, polls, progress, strayed>>

\* Somebody else sends a request, without a fault of its own, to a service that
\* listens.
Stray ==
  /\ strayed = {}
  /\ \E d \in Commands :
       /\ process[d] = "live" /\ Select(Child(d), "none")
       /\ strayed' = {Child(d)}
  /\ UNCHANGED <<process, command, progress>>

Step(c) ==
  \/ Start(c) \/ Poll(c) \/ ResetService(c) \/ CallProvider(c)
  \/ ReadState(c) \/ Stop(c)

Ended == (\A c \in Commands : stage[c] \in {"written", "raised", "killed"}) /\ UNCHANGED vars

Next == Stray \/ Ended \/ \E c \in Commands : Step(c) \/ Boot(c) \/ Killed(c)

Spec == Init /\ [][Next]_vars
------------------------------------------------------------------------------
\* Evidence that is written tells what happened: each of its cases met its fault
\* once, from some service, and then, where the table says so, a provider that
\* was in order; only in the timeout case may it have been nobody who kept it
\* waiting.  Foreign services, orphans and strays do not change that.
EvidenceTellsFaults ==
  \A c \in Commands : stage[c] = "written" =>
    \A k \in DOMAIN plan :
      LET told == Cases[plan[k]] seen == met[c][k] IN
      /\ Len(seen) = told.fallbacks + 1
      /\ seen[1].fault = told.fault
      /\ seen[1].by = Nobody => told.fault = "timeout"
      /\ told.fallbacks = 1 => seen[2].fault = "ok" /\ seen[2].by # Nobody

\* The table of the cases agrees with the service, the adapters and the executor:
\* a command that shares its port with nobody, and whose service nobody else
\* uses, sees all its expectations met.
Alone(c) ==
  /\ \A d \in Commands \ {c} : port[d] # port[c]
  /\ Child(c) \notin strayed
TableHolds == \A c \in Commands : Alone(c) => failed[c] = {}
==============================================================================
