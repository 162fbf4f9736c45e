-------------------------------- MODULE LoadRun --------------------------------
(***************************************************************************)
(* The load of one benchmark run (benchmark/harness.py, run): repeats of   *)
(* warm-up requests, one after the other, and measured requests, all at    *)
(* once behind an asyncio.Semaphore, collected by asyncio.gather; and what *)
(* the benchmark command does around it (benchmark/__main__.py).           *)
(*                                                                         *)
(* All of it runs on one event loop.  Tasks interleave where they wait for *)
(* the semaphore and for the gateway's answer.  gather raises at the first *)
(* task that raises and leaves the others running; they end when they end, *)
(* or are cancelled when the command's event loop is shut down.  A task    *)
(* that is cancelled behind the semaphore has to unwind before its permit  *)
(* is free.                                                                *)
(***************************************************************************)
EXTENDS Naturals, Sequences, FiniteSets

CONSTANTS
  Concurrency,  \* BenchmarkScenario.concurrency
  Requests,     \* BenchmarkScenario.requests
  Repeats,      \* BenchmarkScenario.repeats
  Warmups       \* BenchmarkScenario.warmup_requests

ASSUME ScenarioAssumption ==
  /\ Concurrency \in Nat \ {0}
  /\ Requests \in Nat \ {0}
  /\ Repeats \in Nat \ {0}
  /\ Warmups \in Nat

Tasks == 1..Requests

VARIABLES
  main,     \* where run() stands
  repeat,   \* repeat_index
  warmed,   \* warm-up requests sent in this repeat
  task,     \* where each task of the current gather stands
  permits,  \* the semaphore's free permits
  queue,    \* the tasks that wait for the semaphore, in order
  failed,   \* whether run() is on its way out with an exception
  owner,    \* who made the HTTP client: the harness, or the command for it
  client,   \* whether it is open
  records   \* [repeat, request] of the records collected

semaphore == <<permits, queue>>
vars == <<main, repeat, warmed, task, semaphore, failed, owner, client, records>>

InFlight == {"woken", "sending"}
Holding == InFlight \cup {"stopping"}
Unfinished == {"new", "queued"} \cup InFlight

------------------------------------------------------------------------------
Init ==
  /\ main = "repeat" /\ repeat = 1 /\ warmed = 0
  /\ task = [i \in Tasks |-> "none"]
  /\ permits = Concurrency /\ queue = <<>>
  /\ failed = FALSE
  /\ owner \in {"harness", "command"} /\ client = "open"
  /\ records = <<>>

\* A warm-up request is sent and awaited; its answer is thrown away, whatever it
\* says.
SendWarmup ==
  /\ main = "repeat"
  /\ warmed < Warmups
  /\ main' = "warming"
  /\ UNCHANGED <<repeat, warmed, task, semaphore, failed, owner, client, records>>

WarmupAnswered ==
  /\ main = "warming"
  /\ warmed' = warmed + 1
  /\ main' = "repeat"
  /\ UNCHANGED <<repeat, task, semaphore, failed, owner, client, records>>

\* The transport fails, or the answer is not what a gateway answers.
WarmupFails ==
  /\ main = "warming"
  /\ failed' = TRUE
  /\ main' = "closing"
  /\ UNCHANGED <<repeat, warmed, task, semaphore, owner, client, records>>

\* A new semaphore, and a task for each selected item.
StartRepeat ==
  /\ main = "repeat"
  /\ warmed = Warmups
  /\ main' = "gathering"
  /\ task' = [i \in Tasks |-> "new"]
  /\ permits' = Concurrency /\ queue' = <<>>
  /\ UNCHANGED <<repeat, warmed, failed, owner, client, records>>

------------------------------------------------------------------------------
\* A task: _bounded_request.

Move(i, place) == task' = [task EXCEPT ![i] = place]

\* Semaphore.acquire: at once, or behind the tasks that already wait.
Acquire(i) ==
  /\ task[i] = "new"
  /\ IF permits > 0 /\ queue = <<>>
     THEN Move(i, "woken") /\ permits' = permits - 1 /\ UNCHANGED queue
     ELSE Move(i, "queued") /\ queue' = Append(queue, i) /\ UNCHANGED permits
  /\ UNCHANGED <<main, repeat, warmed, failed, owner, client, records>>

\* The task holds a permit and sends its request.
Send(i) ==
  /\ task[i] = "woken"
  /\ client = "open"
  /\ Move(i, "sending")
  /\ UNCHANGED <<main, repeat, warmed, semaphore, failed, owner, client, records>>

\* Mutant of Release: the permit is lost.
ReleaseNothing(i, place) == Move(i, place) /\ UNCHANGED semaphore

\* Semaphore.release, with the task's end: the permit goes to the first waiter.
Release(i, place) ==
  IF queue = <<>>
  THEN Move(i, place) /\ permits' = permits + 1 /\ UNCHANGED queue
  ELSE /\ task' = [task EXCEPT ![i] = place, ![Head(queue)] = "woken"]
       /\ queue' = Tail(queue)
       /\ UNCHANGED permits

\* An answer, of any status, makes a record.
Answered(i) ==
  /\ task[i] = "sending"
  /\ Release(i, "done")
  /\ UNCHANGED <<main, repeat, warmed, failed, owner, client, records>>

\* The transport fails, the client's timeout expires, the answer or the target
\* is not of the expected form, or the client was closed.
Fails(i) ==
  /\ task[i] = "sending" \/ (task[i] = "woken" /\ client = "closed")
  /\ Release(i, "raised")
  /\ UNCHANGED <<main, repeat, warmed, failed, owner, client, records>>

\* Mutant of Unwind: only the end of a request gives its permit back.
UnwindWithPermit(i) ==
  /\ task[i] = "stopping"
  /\ Move(i, "cancelled")
  /\ UNCHANGED <<main, repeat, warmed, semaphore, failed, owner, client, records>>

\* A cancelled task leaves the semaphore.
Unwind(i) ==
  /\ task[i] = "stopping"
  /\ Release(i, "cancelled")
  /\ UNCHANGED <<main, repeat, warmed, failed, owner, client, records>>

------------------------------------------------------------------------------
\* The end of a repeat, and of the run.

Row(i) == [repeat |-> repeat, request |-> i]

\* Mutant of AllDone: the first request that ends ends the gather.
SomeDone == \E i \in Tasks : task[i] = "done"

AllDone == \A i \in Tasks : task[i] = "done"

\* gather returns the records in the order of the items.
GatherReturns ==
  /\ main = "gathering"
  /\ AllDone
  /\ records' = records \o [i \in Tasks |-> Row(i)]
  /\ IF repeat < Repeats
     THEN repeat' = repeat + 1 /\ warmed' = 0 /\ main' = "repeat"
     ELSE main' = "closing" /\ UNCHANGED <<repeat, warmed>>
  /\ UNCHANGED <<task, semaphore, failed, owner, client>>

\* gather raises the first exception, a cancellation being one, its other tasks
\* go on.
OneRaised == \E i \in Tasks : task[i] \in {"raised", "cancelled"}

GatherRaises ==
  /\ main = "gathering"
  /\ OneRaised
  /\ failed' = TRUE
  /\ main' = "closing"
  /\ UNCHANGED <<repeat, warmed, task, semaphore, owner, client, records>>

\* Unfinished tasks are cancelled: one that has not passed the semaphore is gone
\* at once, and no longer waits for it; one that has keeps its permit for now.
CancelTasks ==
  /\ task' = [i \in Tasks |->
                CASE task[i] \in {"new", "queued"} -> "cancelled"
                  [] task[i] \in InFlight -> "stopping"
                  [] OTHER -> task[i]]
  /\ queue' = <<>>
  /\ UNCHANGED permits

\* The operator interrupts the command, which cancels run().  A gather that still
\* waits for its tasks cancels them, and raises when one of them has stopped;
\* else run() stops where it is.  The end of a gather may already be on its way.
InterruptGather ==
  /\ main = "gathering"
  /\ \E i \in Tasks : task[i] \in Unfinished
  /\ CancelTasks
  /\ UNCHANGED <<main, repeat, warmed, failed, owner, client, records>>

InterruptRun ==
  /\ main = "warming" \/ (main = "gathering" /\ (AllDone \/ OneRaised))
  /\ failed' = TRUE
  /\ main' = "closing"
  /\ UNCHANGED <<repeat, warmed, task, semaphore, owner, client, records>>

\* Mutant of HarnessCloses: the client is closed behind the last repeat only.
HarnessClosesBehind ==
  /\ main = "closing"
  /\ client' = IF owner = "harness" /\ ~failed THEN "closed" ELSE client
  /\ main' = "leaving"
  /\ UNCHANGED <<repeat, warmed, task, semaphore, failed, owner, records>>

\* The finally clause of run(); behind it the records are written, or the
\* exception goes on.
HarnessCloses ==
  /\ main = "closing"
  /\ client' = IF owner = "harness" THEN "closed" ELSE client
  /\ main' = "leaving"
  /\ UNCHANGED <<repeat, warmed, task, semaphore, failed, owner, records>>

\* The finally clause of the command.
CommandCloses ==
  /\ main = "leaving"
  /\ client' = IF owner = "command" THEN "closed" ELSE client
  /\ main' = "shutdown"
  /\ UNCHANGED <<repeat, warmed, task, semaphore, failed, owner, records>>

\* asyncio.run cancels the tasks that are left, and waits for them.
CancelRest ==
  /\ main = "shutdown"
  /\ CancelTasks
  /\ main' = "draining"
  /\ UNCHANGED <<repeat, warmed, failed, owner, client, records>>

End ==
  /\ main = "draining"
  /\ \A i \in Tasks : task[i] \notin Unfinished \cup {"stopping"}
  /\ main' = "over"
  /\ UNCHANGED <<repeat, warmed, task, semaphore, failed, owner, client, records>>

Over == main = "over"

Task(i) == Acquire(i) \/ Send(i) \/ Answered(i) \/ Fails(i) \/ Unwind(i)

Run ==
  \/ SendWarmup \/ WarmupAnswered \/ WarmupFails \/ StartRepeat
  \/ GatherReturns \/ GatherRaises
  \/ HarnessCloses \/ CommandCloses \/ CancelRest \/ End

Next ==
  \/ Run
  \/ \E i \in Tasks : Task(i)
  \/ InterruptGather \/ InterruptRun
  \/ Over /\ UNCHANGED vars

Spec == Init /\ [][Next]_vars

\* The event loop runs run() and its tasks.  A request ends because the gateway
\* answers within its deadline and the HTTP client has a timeout.
Fairness == WF_vars(Run) /\ \A i \in Tasks : WF_vars(Task(i))

FairSpec == Spec /\ Fairness
------------------------------------------------------------------------------
Places == Unfinished \cup {"none", "stopping", "done", "raised", "cancelled"}

\* Types of the run's state.
TypeOK ==
  /\ main \in {"repeat", "warming", "gathering", "closing", "leaving", "shutdown",
               "draining", "over"}
  /\ repeat \in 1..Repeats
  /\ warmed \in 0..Warmups
  /\ task \in [Tasks -> Places]
  /\ permits \in 0..Concurrency
  /\ queue \in Seq(Tasks)
  /\ failed \in BOOLEAN
  /\ owner \in {"harness", "command"} /\ client \in {"open", "closed"}
  /\ records \in Seq([repeat : 1..Repeats, request : Tasks])

Holders == {i \in Tasks : task[i] \in Holding}

\* The load shape the manifest freezes: never more than concurrency requests are
\* in flight, also while requests fail, are cancelled, or outlive their gather.
LoadBounded == Cardinality(Holders) <= Concurrency

\* No permit is lost or made up by any way a request may end: what is not free is
\* held, also by a task that is cancelled but has not unwound, and nobody waits for
\* a permit that is free.
PermitsConserved ==
  /\ permits + Cardinality(Holders) = Concurrency
  /\ queue # <<>> => permits = 0

\* Repeats are independent: a repeat, its warm-up included, begins only when no
\* request of the one before is in flight or still to be sent.
RepeatsApart ==
  main \in {"repeat", "warming"} => \A i \in Tasks : task[i] \in {"none", "done"}

\* A run that gets past its repeats without an exception has a record for each
\* item of each repeat, in order, and none of its requests was dropped; only such a
\* run writes records.
RecordsComplete ==
  main \in {"leaving", "shutdown", "draining", "over"} /\ ~failed =>
    /\ Len(records) = Repeats * Requests
    /\ \A r \in 1..Repeats, i \in Tasks :
         records[(r - 1) * Requests + i] = [repeat |-> r, request |-> i]
    /\ \A i \in Tasks : task[i] = "done"

\* The client is closed by whoever made it, in every way the run may end, and not
\* while repeats go on: the command's own is open as long as run() is not over, and
\* no client is open when the command is.
ClientReleased ==
  /\ client = "closed" => main \notin {"repeat", "warming", "gathering", "closing"}
  /\ client = "closed" /\ main = "leaving" => owner = "harness"
  /\ Over => client = "closed"

\* The command ends: no task waits for ever for the semaphore, in no way that
\* others end.
CommandEnds == <>Over
=============================================================================
