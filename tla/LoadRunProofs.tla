----------------------------- MODULE LoadRunProofs -----------------------------
(***************************************************************************)
(* Proofs about the load of a benchmark run, for every scenario.  What the *)
(* counting of permits rests on is that the queue holds exactly tasks that *)
(* are queued, each once (QueueHolds): a release then moves its permit to  *)
(* one task that did not hold one.                                         *)
(***************************************************************************)
EXTENDS LoadRun, FiniteSetTheorems, SequenceTheorems, TLAPS

QueueHolds ==
  /\ \A k \in 1..Len(queue) : task[queue[k]] = "queued"
  /\ \A j, k \in 1..Len(queue) : queue[j] = queue[k] => j = k

\* Where run() stands says whether the client is open.
MainHolds ==
  /\ main = "warming" => warmed < Warmups
  /\ main \in {"repeat", "warming", "gathering", "closing"} => client = "open"
  /\ main = "leaving" => (client = "closed" <=> owner = "harness")
  /\ main \in {"shutdown", "draining", "over"} => client = "closed"

IInv == TypeOK /\ QueueHolds /\ PermitsConserved /\ RepeatsApart /\ MainHolds

------------------------------------------------------------------------------
\* Tasks that hold a permit are finitely many; those of an array of places.
HoldersOf(t) == {i \in Tasks : t[i] \in Holding}

LEMMA HoldersFinite ==
  ASSUME NEW t
  PROVE  /\ IsFiniteSet(HoldersOf(t))
         /\ Cardinality(HoldersOf(t)) \in Nat
<1>1. IsFiniteSet(Tasks)
  BY FS_Interval, ScenarioAssumption DEF Tasks
<1>2. HoldersOf(t) \subseteq Tasks
  BY DEF HoldersOf
<1>3. IsFiniteSet(HoldersOf(t))
  BY <1>1, <1>2, FS_Subset
<1> QED BY <1>3, FS_CardinalityType

\* A task that begins to hold a permit adds one to the holders.
LEMMA OneMoreHolder ==
  ASSUME NEW t, NEW u, NEW i \in Tasks,
         t[i] \notin Holding, u[i] \in Holding,
         \A j \in Tasks \ {i} : u[j] = t[j]
  PROVE  Cardinality(HoldersOf(u)) = Cardinality(HoldersOf(t)) + 1
<1>1. HoldersOf(u) = HoldersOf(t) \cup {i}
  BY DEF HoldersOf
<1>2. i \notin HoldersOf(t)
  BY DEF HoldersOf
<1> QED BY <1>1, <1>2, HoldersFinite, FS_AddElement

\* A task that stops to hold one takes one away.
LEMMA OneHolderLess ==
  ASSUME NEW t, NEW u, NEW i \in Tasks,
         t[i] \in Holding, u[i] \notin Holding,
         \A j \in Tasks \ {i} : u[j] = t[j]
  PROVE  Cardinality(HoldersOf(t)) = Cardinality(HoldersOf(u)) + 1
BY OneMoreHolder

\* Nobody holds a permit.
LEMMA NoHolders ==
  ASSUME NEW t, \A i \in Tasks : t[i] \notin Holding
  PROVE  Cardinality(HoldersOf(t)) = 0
<1>1. HoldersOf(t) = {}
  BY DEF HoldersOf
<1> QED BY <1>1, FS_EmptySet

LEMMA HoldersAre == Holders = HoldersOf(task) /\ Holders' = HoldersOf(task')
BY DEF Holders, HoldersOf
------------------------------------------------------------------------------
LEMMA Initially == Init => IInv
<1> SUFFICES ASSUME Init PROVE IInv
  OBVIOUS
<1> USE ScenarioAssumption DEF Init
<1>1. TypeOK
  <2>1. task \in [Tasks -> Places]
    BY DEF Places
  <2>2. queue \in Seq(Tasks) /\ records \in Seq([repeat : 1..Repeats, request : Tasks])
    OBVIOUS
  <2>3. repeat \in 1..Repeats /\ warmed \in 0..Warmups /\ permits \in 0..Concurrency
    OBVIOUS
  <2> QED BY <2>1, <2>2, <2>3 DEF TypeOK
<1>2. QueueHolds /\ RepeatsApart /\ MainHolds
  BY DEF QueueHolds, RepeatsApart, MainHolds
<1>3. PermitsConserved
  <2>1. \A i \in Tasks : task[i] \notin Holding
    BY DEF Holding, InFlight
  <2> QED BY <2>1, NoHolders, HoldersAre DEF PermitsConserved
<1> QED BY <1>1, <1>2, <1>3 DEF IInv

\* A release keeps the queue and the permits in order, whatever the task came to.
LEMMA ReleaseKeeps ==
  ASSUME IInv, NEW i \in Tasks, NEW place \in Places \ Unfinished,
         place # "stopping", task[i] \in Holding, Release(i, place)
  PROVE  /\ task' \in [Tasks -> Places]
         /\ permits' \in 0..Concurrency
         /\ queue' \in Seq(Tasks)
         /\ QueueHolds'
         /\ PermitsConserved'
<1> USE ScenarioAssumption
<1>0. /\ task \in [Tasks -> Places] /\ permits \in 0..Concurrency /\ queue \in Seq(Tasks)
      /\ QueueHolds /\ PermitsConserved
  BY DEF IInv, TypeOK
<1>1. CASE queue = <<>>
  <2>1. task' = [task EXCEPT ![i] = place] /\ permits' = permits + 1 /\ queue' = queue
    BY <1>1 DEF Release, Move
  <2>2. task' \in [Tasks -> Places]
    BY <1>0, <2>1
  <2>3. Cardinality(HoldersOf(task)) = Cardinality(HoldersOf(task')) + 1
    <3>1. task'[i] \notin Holding /\ \A j \in Tasks \ {i} : task'[j] = task[j]
      BY <1>0, <2>1 DEF Unfinished, Holding
    <3> QED BY <3>1, OneHolderLess
  <2>4. permits + Cardinality(HoldersOf(task)) = Concurrency
    BY <1>0, HoldersAre DEF PermitsConserved
  <2>5. permits' + Cardinality(HoldersOf(task')) = Concurrency /\ permits' \in 0..Concurrency
    BY <1>0, <2>1, <2>3, <2>4, HoldersFinite
  <2>6. QueueHolds' /\ PermitsConserved'
    BY <1>1, <2>1, <2>5, HoldersAre DEF QueueHolds, PermitsConserved
  <2> QED BY <1>0, <2>1, <2>2, <2>5, <2>6
<1>2. CASE queue # <<>>
  <2> DEFINE h == Head(queue)
  <2>1. /\ task' = [task EXCEPT ![i] = place, ![h] = "woken"]
        /\ queue' = Tail(queue) /\ permits' = permits
    BY <1>2 DEF Release
  <2>2. /\ h \in Tasks /\ task[h] = "queued" /\ h # i
        /\ queue' \in Seq(Tasks) /\ Len(queue') = Len(queue) - 1
        /\ \A k \in 1..Len(queue') : queue'[k] = queue[k + 1] /\ queue'[k] # h
    <3>1. h = queue[1] /\ Len(queue) \in Nat \ {0} /\ h \in Tasks
      BY <1>0, <1>2
    <3>2. task[h] = "queued"
      BY <1>0, <3>1 DEF QueueHolds
    <3>3. h # i
      BY <3>2 DEF Holding, InFlight
    <3>4. /\ queue' \in Seq(Tasks) /\ Len(queue') = Len(queue) - 1
          /\ \A k \in 1..Len(queue') : queue'[k] = queue[k + 1]
      BY <1>0, <1>2, <2>1
    <3>5. \A k \in 1..Len(queue') : queue'[k] # h
      BY <1>0, <3>1, <3>4 DEF QueueHolds
    <3> QED BY <3>1, <3>2, <3>3, <3>4, <3>5
  <2>3. task' \in [Tasks -> Places]
    BY <1>0, <2>1, <2>2 DEF Places, Unfinished, InFlight
  <2>4. QueueHolds'
    <3>1. \A k \in 1..Len(queue') : task'[queue'[k]] = "queued"
      <4> SUFFICES ASSUME NEW k \in 1..Len(queue') PROVE task'[queue'[k]] = "queued"
        OBVIOUS
      <4>1. k + 1 \in 1..Len(queue) /\ queue'[k] = queue[k + 1] /\ queue'[k] # h
        BY <1>0, <2>2
      <4>2. task[queue[k + 1]] = "queued" /\ queue[k + 1] \in Tasks
        BY <1>0, <4>1 DEF QueueHolds
      <4>3. queue[k + 1] # i
        BY <4>2 DEF Holding, InFlight
      <4> QED BY <1>0, <2>1, <4>1, <4>2, <4>3
    <3>2. \A j, k \in 1..Len(queue') : queue'[j] = queue'[k] => j = k
      <4> SUFFICES ASSUME NEW j \in 1..Len(queue'), NEW k \in 1..Len(queue'),
                          queue'[j] = queue'[k]
                   PROVE  j = k
        OBVIOUS
      <4>1. j + 1 \in 1..Len(queue) /\ k + 1 \in 1..Len(queue) /\ queue[j + 1] = queue[k + 1]
        BY <1>0, <2>2
      <4>2. j + 1 = k + 1
        BY <1>0, <4>1 DEF QueueHolds
      <4> QED BY <4>2
    <3> QED BY <3>1, <3>2 DEF QueueHolds
  <2>5. Cardinality(HoldersOf(task')) = Cardinality(HoldersOf(task))
    <3> DEFINE freed == [task EXCEPT ![i] = place]
    <3>1. Cardinality(HoldersOf(task)) = Cardinality(HoldersOf(freed)) + 1
      <4>1. freed[i] \notin Holding /\ \A j \in Tasks \ {i} : freed[j] = task[j]
        BY <1>0 DEF Unfinished, Holding
      <4> HIDE DEF freed
      <4> QED BY <4>1, OneHolderLess
    <3>2. Cardinality(HoldersOf(task')) = Cardinality(HoldersOf(freed)) + 1
      <4>1. freed[h] \notin Holding /\ task'[h] \in Holding
        BY <1>0, <2>1, <2>2 DEF Holding, InFlight
      <4>2. \A j \in Tasks \ {h} : task'[j] = freed[j]
        BY <1>0, <2>1, <2>2
      <4> HIDE DEF freed
      <4> QED BY <2>2, <4>1, <4>2, OneMoreHolder
    <3> QED BY <3>1, <3>2, HoldersFinite
  <2>6. PermitsConserved'
    <3>1. permits + Cardinality(HoldersOf(task)) = Concurrency /\ permits = 0
      BY <1>0, <1>2, HoldersAre DEF PermitsConserved
    <3> QED BY <2>1, <2>5, <3>1, HoldersAre DEF PermitsConserved
  <2> QED BY <1>0, <2>1, <2>2, <2>3, <2>4, <2>6
<1> QED BY <1>1, <1>2
------------------------------------------------------------------------------
\* The tasks are cancelled: whoever held a permit still does, nobody waits.
LEMMA CancelKeeps ==
  ASSUME IInv, CancelTasks
  PROVE  /\ task' \in [Tasks -> Places]
         /\ permits' \in 0..Concurrency
         /\ queue' \in Seq(Tasks)
         /\ QueueHolds'
         /\ PermitsConserved'
<1>0. task \in [Tasks -> Places] /\ permits \in 0..Concurrency /\ PermitsConserved
  BY DEF IInv, TypeOK
<1>1. /\ queue' = <<>> /\ permits' = permits
      /\ \A i \in Tasks : task'[i] = CASE task[i] \in {"new", "queued"} -> "cancelled"
                                      [] task[i] \in InFlight -> "stopping"
                                      [] OTHER -> task[i]
  BY DEF CancelTasks
<1>2. \A i \in Tasks : task'[i] \in Places /\ (task'[i] \in Holding <=> task[i] \in Holding)
  BY <1>0, <1>1 DEF Places, Unfinished, Holding, InFlight
<1>3. task' \in [Tasks -> Places]
  BY <1>2 DEF CancelTasks
<1>4. HoldersOf(task') = HoldersOf(task)
  BY <1>2 DEF HoldersOf
<1>5. QueueHolds' /\ PermitsConserved'
  BY <1>0, <1>1, <1>4, HoldersAre DEF QueueHolds, PermitsConserved
<1> QED BY <1>0, <1>1, <1>3, <1>5

\* What holds of the semaphore and the tasks holds while they do not change.
LEMMA SemaphoreIdle ==
  ASSUME IInv, UNCHANGED <<task, semaphore>>
  PROVE  /\ task' \in [Tasks -> Places]
         /\ permits' \in 0..Concurrency
         /\ queue' \in Seq(Tasks)
         /\ QueueHolds'
         /\ PermitsConserved'
<1>1. task' = task /\ permits' = permits /\ queue' = queue
  BY DEF semaphore
<1>2. /\ task \in [Tasks -> Places] /\ permits \in 0..Concurrency /\ queue \in Seq(Tasks)
      /\ QueueHolds /\ PermitsConserved
  BY DEF IInv, TypeOK
<1> QED BY <1>1, <1>2, HoldersAre DEF QueueHolds, PermitsConserved

\* The steps of run() keep the invariant.
LEMMA RunKeeps == ASSUME IInv, Run \/ InterruptGather \/ InterruptRun PROVE IInv'
<1> USE ScenarioAssumption
<1>0. TypeOK /\ RepeatsApart /\ MainHolds
  BY DEF IInv
<1>1. ASSUME SendWarmup \/ WarmupAnswered \/ WarmupFails PROVE IInv'
  <2>1. UNCHANGED <<task, semaphore>> /\ main \in {"repeat", "warming"}
    BY <1>1 DEF SendWarmup, WarmupAnswered, WarmupFails
  <2>2. /\ main' \in {"warming", "repeat", "closing"} /\ warmed' \in 0..Warmups
        /\ main' = "warming" => warmed' < Warmups
        /\ failed' \in BOOLEAN /\ repeat' = repeat /\ records' = records
        /\ UNCHANGED <<owner, client>>
    <3>1. CASE SendWarmup
      BY <1>0, <3>1 DEF TypeOK, SendWarmup
    <3>2. CASE WarmupAnswered
      BY <1>0, <3>2 DEF TypeOK, MainHolds, WarmupAnswered
    <3>3. CASE WarmupFails
      BY <1>0, <3>3 DEF TypeOK, WarmupFails
    <3> QED BY <1>1, <3>1, <3>2, <3>3
  <2>3. TypeOK' /\ MainHolds'
    BY <1>0, <2>1, <2>2, SemaphoreIdle DEF TypeOK, MainHolds
  <2>4. RepeatsApart'
    BY <1>0, <2>1 DEF RepeatsApart
  <2> QED BY <2>1, <2>3, <2>4, SemaphoreIdle DEF IInv
<1>2. ASSUME StartRepeat PROVE IInv'
  <2>1. TypeOK' /\ MainHolds' /\ RepeatsApart' /\ QueueHolds'
    BY <1>0, <1>2
    DEF TypeOK, MainHolds, RepeatsApart, QueueHolds, StartRepeat, Places, Unfinished
  <2>2. Cardinality(HoldersOf(task')) = 0
    <3>1. \A i \in Tasks : task'[i] \notin Holding
      BY <1>2 DEF StartRepeat, Holding, InFlight
    <3> QED BY <3>1, NoHolders
  <2>3. PermitsConserved'
    BY <1>2, <2>2, HoldersAre DEF StartRepeat, PermitsConserved
  <2> QED BY <2>1, <2>3 DEF IInv
<1>3. ASSUME GatherReturns PROVE IInv'
  <2>1. UNCHANGED <<task, semaphore>>
    BY <1>3 DEF GatherReturns
  <2>2. records' \in Seq([repeat : 1..Repeats, request : Tasks])
    <3>1. [i \in Tasks |-> Row(i)] \in Seq([repeat : 1..Repeats, request : Tasks])
      BY <1>0 DEF TypeOK, Row, Tasks
    <3> QED BY <1>0, <1>3, <3>1 DEF TypeOK, GatherReturns
  <2>3. /\ main = "gathering" /\ main' \in {"repeat", "closing"} /\ repeat' \in 1..Repeats
        /\ warmed' \in 0..Warmups /\ UNCHANGED <<failed, owner, client>>
    BY <1>0, <1>3 DEF TypeOK, GatherReturns
  <2>5. TypeOK' /\ MainHolds'
    BY <1>0, <2>1, <2>2, <2>3, SemaphoreIdle DEF TypeOK, MainHolds
  <2>4. RepeatsApart'
    BY <1>3 DEF RepeatsApart, GatherReturns, AllDone
  <2> QED BY <2>1, <2>4, <2>5, SemaphoreIdle DEF IInv
<1>4. ASSUME GatherRaises \/ InterruptRun PROVE IInv'
  <2>1. /\ UNCHANGED <<task, semaphore>> /\ UNCHANGED <<repeat, warmed, owner, client, records>>
        /\ main \in {"warming", "gathering"} /\ main' = "closing" /\ failed' = TRUE
    BY <1>4 DEF GatherRaises, InterruptRun
  <2>2. TypeOK' /\ MainHolds' /\ RepeatsApart'
    BY <1>0, <2>1, SemaphoreIdle DEF TypeOK, MainHolds, RepeatsApart
  <2> QED BY <2>1, <2>2, SemaphoreIdle DEF IInv
<1>5. ASSUME HarnessCloses \/ CommandCloses \/ End PROVE IInv'
  <2>1. /\ UNCHANGED <<task, semaphore>> /\ UNCHANGED <<repeat, warmed, failed, owner, records>>
    BY <1>5 DEF HarnessCloses, CommandCloses, End
  <2>2. TypeOK' /\ MainHolds' /\ RepeatsApart'
    BY <1>0, <1>5, <2>1, SemaphoreIdle
    DEF TypeOK, MainHolds, RepeatsApart, HarnessCloses, CommandCloses, End
  <2> QED BY <2>1, <2>2, SemaphoreIdle DEF IInv
<1>6. ASSUME InterruptGather \/ CancelRest PROVE IInv'
  <2>1. /\ CancelTasks /\ UNCHANGED <<repeat, warmed, failed, owner, client, records>>
        /\ \/ main = "gathering" /\ main' = "gathering"
           \/ main = "shutdown" /\ main' = "draining"
    BY <1>6 DEF InterruptGather, CancelRest
  <2>2. TypeOK' /\ MainHolds' /\ RepeatsApart'
    BY <1>0, <2>1, CancelKeeps DEF TypeOK, MainHolds, RepeatsApart
  <2> QED BY <2>1, <2>2, CancelKeeps DEF IInv
<1> QED BY <1>1, <1>2, <1>3, <1>4, <1>5, <1>6 DEF Run

\* So do the steps of its tasks.
LEMMA TaskKeeps == ASSUME IInv, NEW i \in Tasks, Task(i) PROVE IInv'
<1> USE ScenarioAssumption
<1>0. TypeOK /\ RepeatsApart /\ MainHolds /\ QueueHolds /\ PermitsConserved
  BY DEF IInv
<1>1. main' = main /\ UNCHANGED <<repeat, warmed, failed, owner, client, records>>
  BY DEF Task, Acquire, Send, Answered, Fails, Unwind
<1>2. task[i] \in Unfinished \cup {"stopping"}
  BY DEF Task, Acquire, Send, Answered, Fails, Unwind, Unfinished, InFlight
<1>3. main \notin {"repeat", "warming"}
  BY <1>0, <1>2 DEF RepeatsApart, Unfinished, InFlight
<1>4. RepeatsApart' /\ MainHolds'
  BY <1>0, <1>1, <1>3 DEF RepeatsApart, MainHolds
<1>5. SUFFICES /\ task' \in [Tasks -> Places] /\ permits' \in 0..Concurrency
               /\ queue' \in Seq(Tasks) /\ QueueHolds' /\ PermitsConserved'
  BY <1>0, <1>1, <1>4 DEF IInv, TypeOK
<1>6. CASE Answered(i)
  BY <1>6, ReleaseKeeps DEF Answered, Holding, InFlight, Places, Unfinished
<1>7. CASE Fails(i)
  BY <1>7, ReleaseKeeps DEF Fails, Holding, InFlight, Places, Unfinished
<1>10. CASE Unwind(i)
  BY <1>10, ReleaseKeeps DEF Unwind, Holding, InFlight, Places, Unfinished
<1>8. CASE Send(i)
  <2>1. Cardinality(HoldersOf(task')) = Cardinality(HoldersOf(task))
    <3>1. HoldersOf(task') = HoldersOf(task)
      BY <1>0, <1>8 DEF HoldersOf, Send, Move, TypeOK, Holding, InFlight
    <3> QED BY <3>1
  <2>2. PermitsConserved'
    BY <1>0, <1>8, <2>1, HoldersAre DEF Send, PermitsConserved, semaphore
  <2> QED BY <1>0, <1>8, <2>2 DEF Send, Move, semaphore, TypeOK, QueueHolds, Places, Unfinished, InFlight
<1>9. CASE Acquire(i)
  <2>1. CASE permits > 0 /\ queue = <<>>
    <3>1. task' = [task EXCEPT ![i] = "woken"] /\ permits' = permits - 1 /\ queue' = queue
      BY <1>9, <2>1 DEF Acquire, Move
    <3>2. Cardinality(HoldersOf(task')) = Cardinality(HoldersOf(task)) + 1
      <4>1. /\ task[i] \notin Holding /\ task'[i] \in Holding
            /\ \A j \in Tasks \ {i} : task'[j] = task[j]
        BY <1>0, <1>9, <3>1 DEF Acquire, Holding, InFlight, TypeOK
      <4> QED BY <4>1, OneMoreHolder
    <3>3. PermitsConserved' /\ permits' \in 0..Concurrency
      BY <1>0, <2>1, <3>1, <3>2, HoldersAre, HoldersFinite DEF PermitsConserved, TypeOK
    <3> QED BY <1>0, <2>1, <3>1, <3>3 DEF TypeOK, QueueHolds, Places, Unfinished, InFlight
  <2>2. CASE ~(permits > 0 /\ queue = <<>>)
    <3>1. /\ task' = [task EXCEPT ![i] = "queued"] /\ permits' = permits
          /\ queue' = Append(queue, i) /\ task[i] = "new"
      BY <1>9, <2>2 DEF Acquire, Move
    <3>2. permits = 0
      BY <1>0, <2>2 DEF PermitsConserved, TypeOK
    <3>3. HoldersOf(task') = HoldersOf(task)
      BY <1>0, <3>1 DEF HoldersOf, TypeOK, Holding, InFlight
    <3>4. PermitsConserved'
      BY <1>0, <3>1, <3>2, <3>3, HoldersAre DEF PermitsConserved
    <3>5. /\ queue' \in Seq(Tasks) /\ Len(queue') = Len(queue) + 1 /\ Len(queue) \in Nat
          /\ queue'[Len(queue')] = i
          /\ \A k \in 1..Len(queue) : queue'[k] = queue[k] /\ queue[k] # i /\ queue[k] \in Tasks
      BY <1>0, <3>1 DEF TypeOK, QueueHolds
    <3>6. \A k \in 1..Len(queue') : task'[queue'[k]] = "queued"
      BY <1>0, <3>1, <3>5 DEF TypeOK, QueueHolds
    <3>7. \A j, k \in 1..Len(queue') : queue'[j] = queue'[k] => j = k
      BY <1>0, <3>5 DEF QueueHolds
    <3> QED BY <1>0, <3>1, <3>4, <3>5, <3>6, <3>7 DEF TypeOK, QueueHolds, Places, Unfinished
  <2> QED BY <2>1, <2>2
<1> QED BY <1>6, <1>7, <1>8, <1>9, <1>10 DEF Task

LEMMA Stutters == ASSUME IInv, UNCHANGED vars PROVE IInv'
<1>1. /\ UNCHANGED <<task, semaphore>>
      /\ UNCHANGED <<main, repeat, warmed, failed, owner, client, records>>
  BY DEF vars
<1> QED BY <1>1, SemaphoreIdle DEF IInv, TypeOK, RepeatsApart, MainHolds

\* The inductive invariant holds in every state of a run.
THEOREM Invariance == Spec => []IInv
<1>1. ASSUME IInv, [Next]_vars PROVE IInv'
  BY <1>1, RunKeeps, TaskKeeps, Stutters DEF Next
<1> QED BY <1>1, Initially, PTL DEF Spec
------------------------------------------------------------------------------
\* The run's state is well typed, for every scenario.
THEOREM TypeCorrect == Spec => []TypeOK
<1>1. IInv => TypeOK
  BY DEF IInv
<1> QED BY <1>1, Invariance, PTL

\* No permit is lost or made up, however requests end (harness.py,
\* _bounded_request).
THEOREM PermitsAreConserved == Spec => []PermitsConserved
<1>1. IInv => PermitsConserved
  BY DEF IInv
<1> QED BY <1>1, Invariance, PTL

\* Never more than concurrency requests are in flight, for every scenario.
THEOREM LoadIsBounded == Spec => []LoadBounded
<1>1. IInv => LoadBounded
  <2> SUFFICES ASSUME IInv PROVE LoadBounded
    OBVIOUS
  <2>1. permits \in 0..Concurrency /\ permits + Cardinality(Holders) = Concurrency
    BY DEF IInv, TypeOK, PermitsConserved
  <2>2. Cardinality(Holders) \in Nat
    BY HoldersAre, HoldersFinite
  <2> QED BY <2>1, <2>2, ScenarioAssumption DEF LoadBounded
<1> QED BY <1>1, Invariance, PTL

\* A repeat begins only behind the last request of the one before.
THEOREM RepeatsAreApart == Spec => []RepeatsApart
<1>1. IInv => RepeatsApart
  BY DEF IInv
<1> QED BY <1>1, Invariance, PTL

\* The client is closed by whoever made it, not before run() is done with it, and
\* before the command is over, in every way the run may end (harness.py, run, and
\* __main__.py, _run).
THEOREM ClientIsReleased == Spec => []ClientReleased
<1>1. IInv => ClientReleased
  BY DEF IInv, TypeOK, MainHolds, ClientReleased, Over
<1> QED BY <1>1, Invariance, PTL
------------------------------------------------------------------------------
\* These are the records of the first n repeats, in order.
RecordsOf(recs, n) ==
  /\ Len(recs) = n * Requests
  /\ \A r \in 1..n, i \in Tasks :
       recs[(r - 1) * Requests + i] = [repeat |-> r, request |-> i]

\* While repeats go on the records are those of the repeats that are over; a run
\* that gets past them without an exception has all, and its tasks are done.
RecordsInv ==
  /\ main \in {"repeat", "warming", "gathering"} => RecordsOf(records, repeat - 1)
  /\ main \in {"closing", "leaving", "shutdown", "draining", "over"} /\ ~failed =>
       RecordsOf(records, Repeats) /\ AllDone

\* The places of earlier repeats lie below those of a later one.
LEMMA PlacesOfRepeats ==
  ASSUME NEW n \in Nat, NEW m \in Nat \ {0}
  PROVE  /\ n * m \in Nat /\ (n + 1) * m = n * m + m
         /\ \A r \in 1..n, i \in 1..m : (r - 1) * m + i \in 1..(n * m)
<1>1. n * m \in Nat /\ (n + 1) * m = n * m + m
  OBVIOUS
<1>2. ASSUME NEW r \in 1..n, NEW i \in 1..m PROVE (r - 1) * m + i \in 1..(n * m)
  <2>1. (r - 1) * m \in Nat /\ r * m = (r - 1) * m + m
    OBVIOUS
  <2>2. r * m <= n * m
    <3>1. PICK d \in Nat : n = r + d
      <4>1. n - r \in Nat /\ n = r + (n - r)
        OBVIOUS
      <4> QED BY <4>1
    <3>2. n * m = r * m + d * m /\ d * m \in Nat /\ r * m \in Nat
      BY <3>1
    <3> QED BY <3>2
  <2> QED BY <1>1, <2>1, <2>2
<1> QED BY <1>1, <1>2

\* A gather that returns adds the records of its repeat behind the others.
LEMMA GatherAdds ==
  ASSUME TypeOK, RecordsOf(records, repeat - 1), GatherReturns
  PROVE  RecordsOf(records', repeat)
<1> USE ScenarioAssumption
<1> DEFINE n == repeat - 1
           rows == [i \in Tasks |-> Row(i)]
           S == [repeat : 1..Repeats, request : Tasks]
<1>1. n \in Nat /\ repeat = n + 1 /\ repeat \in 1..Repeats /\ records \in Seq(S)
  BY DEF TypeOK
<1>2. rows \in Seq(S) /\ Len(rows) = Requests
  BY <1>1 DEF Row, Tasks
<1>3. records' = records \o rows /\ Len(records) = n * Requests
  BY DEF GatherReturns, RecordsOf
<1>4. /\ n * Requests \in Nat /\ (n + 1) * Requests = n * Requests + Requests
      /\ \A r \in 1..n, i \in Tasks : (r - 1) * Requests + i \in 1..(n * Requests)
  BY <1>1, PlacesOfRepeats DEF Tasks
<1> HIDE DEF S, n
<1>5. /\ Len(records') = Len(records) + Len(rows)
      /\ \A k \in 1..Len(records) : records'[k] = records[k]
      /\ \A k \in 1..Len(rows) : records'[Len(records) + k] = rows[k]
  <2> HIDE DEF rows
  <2>1. Len(records) \in Nat /\ Len(rows) \in Nat
    BY <1>1, <1>2
  <2>2. /\ Len(records') = Len(records) + Len(rows)
        /\ \A k \in 1..Len(records) + Len(rows) :
             records'[k] = IF k <= Len(records) THEN records[k] ELSE rows[k - Len(records)]
    BY <1>1, <1>2, <1>3, ConcatProperties
  <2>3. ASSUME NEW k \in 1..Len(records) PROVE records'[k] = records[k]
    BY <2>1, <2>2
  <2>4. ASSUME NEW k \in 1..Len(rows) PROVE records'[Len(records) + k] = rows[k]
    <3>1. /\ Len(records) + k \in 1..Len(records) + Len(rows)
          /\ ~(Len(records) + k <= Len(records)) /\ (Len(records) + k) - Len(records) = k
      BY <2>1
    <3>2. records'[Len(records) + k] = rows[(Len(records) + k) - Len(records)]
      BY <2>2, <3>1
    <3> QED BY <3>1, <3>2
  <2> QED BY <2>2, <2>3, <2>4
<1>6. Len(records') = repeat * Requests
  BY <1>1, <1>2, <1>3, <1>4, <1>5
<1>7. ASSUME NEW r \in 1..repeat, NEW i \in Tasks
      PROVE  records'[(r - 1) * Requests + i] = [repeat |-> r, request |-> i]
  <2>1. CASE r \in 1..n
    <3>1. (r - 1) * Requests + i \in 1..Len(records)
      BY <1>3, <1>4, <2>1
    <3>2. records[(r - 1) * Requests + i] = [repeat |-> r, request |-> i]
      BY <2>1 DEF RecordsOf, n
    <3> QED BY <1>5, <3>1, <3>2
  <2>2. CASE r = repeat
    <3>1. (r - 1) * Requests + i = Len(records) + i
      BY <1>1, <1>3, <2>2
    <3>2. i \in 1..Len(rows) /\ rows[i] = [repeat |-> r, request |-> i]
      BY <1>2, <2>2 DEF Row, Tasks
    <3>3. records'[Len(records) + i] = rows[i]
      BY <1>5, <3>2
    <3> QED BY <3>1, <3>2, <3>3
  <2> QED BY <1>1, <2>1, <2>2
<1> QED BY <1>6, <1>7 DEF RecordsOf

LEMMA RecordsInitially == Init => RecordsInv
BY ScenarioAssumption DEF Init, RecordsInv, RecordsOf

LEMMA RecordsKept == ASSUME IInv, RecordsInv, [Next]_vars PROVE RecordsInv'
<1> USE ScenarioAssumption
<1>0. TypeOK /\ MainHolds
  BY DEF IInv
<1>1. CASE GatherReturns
  <2>1. RecordsOf(records', repeat)
    <3>1. RecordsOf(records, repeat - 1)
      BY <1>1 DEF RecordsInv, GatherReturns
    <3> QED BY <1>0, <1>1, <3>1, GatherAdds
  <2>2. CASE repeat < Repeats
    <3>1. main' = "repeat" /\ repeat' - 1 = repeat
      BY <1>0, <1>1, <2>2 DEF GatherReturns, TypeOK
    <3> QED BY <2>1, <3>1 DEF RecordsInv
  <2>3. CASE ~(repeat < Repeats)
    <3>1. main' = "closing" /\ repeat = Repeats /\ AllDone'
      BY <1>0, <1>1, <2>3 DEF GatherReturns, TypeOK, AllDone
    <3> QED BY <2>1, <3>1 DEF RecordsInv
  <2> QED BY <2>2, <2>3
<1>2. CASE SendWarmup \/ WarmupAnswered \/ StartRepeat
  <2>1. main \in {"repeat", "warming"} /\ main' \in {"repeat", "warming", "gathering"}
    BY <1>2 DEF SendWarmup, WarmupAnswered, StartRepeat
  <2>2. records' = records /\ repeat' = repeat
    BY <1>2 DEF SendWarmup, WarmupAnswered, StartRepeat
  <2> QED BY <2>1, <2>2 DEF RecordsInv
<1>3. CASE WarmupFails \/ GatherRaises \/ InterruptRun
  <2>1. main' = "closing" /\ failed'
    BY <1>3 DEF WarmupFails, GatherRaises, InterruptRun
  <2> QED BY <2>1 DEF RecordsInv
<1>4. CASE HarnessCloses \/ CommandCloses \/ End
  <2>1. /\ main \in {"closing", "leaving", "draining"} /\ main' \in {"leaving", "shutdown", "over"}
        /\ UNCHANGED <<task, failed, records>>
    BY <1>4 DEF HarnessCloses, CommandCloses, End
  <2> QED BY <2>1 DEF RecordsInv, AllDone
<1>5. CASE InterruptGather \/ CancelRest
  <2>1. /\ CancelTasks /\ UNCHANGED <<repeat, failed, records>>
        /\ \/ main = "gathering" /\ main' = "gathering"
           \/ main = "shutdown" /\ main' = "draining"
    BY <1>5 DEF InterruptGather, CancelRest
  <2>2. AllDone => AllDone'
    BY <2>1 DEF CancelTasks, AllDone, InFlight
  <2> QED BY <2>1, <2>2 DEF RecordsInv
<1>6. ASSUME NEW i \in Tasks, Task(i) PROVE RecordsInv'
  <2>1. ~AllDone
    BY <1>6 DEF Task, Acquire, Send, Answered, Fails, Unwind, AllDone
  <2>2. UNCHANGED <<main, repeat, failed, records>>
    BY <1>6 DEF Task, Acquire, Send, Answered, Fails, Unwind
  <2> QED BY <2>1, <2>2 DEF RecordsInv
<1>7. CASE UNCHANGED vars
  BY <1>7 DEF vars, RecordsInv, AllDone
<1> QED BY <1>1, <1>2, <1>3, <1>4, <1>5, <1>6, <1>7 DEF Next, Run

\* A run that writes its records has one for each item of each repeat, in order,
\* for every scenario.
THEOREM RecordsAreComplete == Spec => []RecordsComplete
<1>1. RecordsInv => RecordsComplete
  BY DEF RecordsInv, RecordsOf, RecordsComplete, AllDone
<1> QED BY <1>1, Invariance, RecordsInitially, RecordsKept, PTL DEF Spec
=============================================================================
