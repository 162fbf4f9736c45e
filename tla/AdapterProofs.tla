---------------------------- MODULE AdapterProofs ----------------------------
(***************************************************************************)
(* Proofs about one call of an adapter, for answers of any length: the     *)
(* chunks are well formed, and the usage is what was told last.  What a    *)
(* call ends with, against the whole answer, rests on a second inductive   *)
(* invariant, Progress, on the events read so far.                         *)
(***************************************************************************)
EXTENDS Adapter, SequenceTheorems, FiniteSetTheorems, TLAPS

\* The chunks of a call are a sequence, their usage two event numbers.
Usages == [input : Nat, output : Nat]
ChunkType == [sequence : Nat, final : BOOLEAN, usage : Usages]

AdapterType ==
  /\ call \in Calls
  /\ answer.head \in Heads
  /\ pc \in {"start", "await", "yield", "end"}
  /\ read \in Nat
  /\ usage \in Usages
  /\ chunks \in Seq(ChunkType)

\* A call that has not ended runs.
RunsUntilEnd == pc # "end" => outcome = "running"

\* A count is named by one of the first n events, of a kind that tells it, and
\* no event since has taken it back or told another.
Current(i, n, tell, revise) ==
  i # 0 => /\ i \in 1..n
           /\ answer.events[i] \in tell
           /\ \A j \in i + 1..n : answer.events[j] \notin revise

InputAtHand(u, n) == Current(u.input, n, {"usage", "start"}, {"usage", "half", "start"})
OutputAtHand(u, n) ==
  Current(u.output, n, {"usage", "delta", "unsound"}, {"usage", "half", "delta", "unsound"})
AtHand(u, n) == InputAtHand(u, n) /\ OutputAtHand(u, n)

\* The usage of a final chunk is the usage at hand.
FinalUsage ==
  outcome = "final" =>
    LET told == chunks[Len(chunks)].usage IN
    /\ AtHand(told, read)
    /\ told.output # 0 => answer.events[told.output] # "unsound"

IInv ==
  /\ AdapterType
  /\ RunsUntilEnd
  /\ StreamWellFormed
  /\ pc # "end" => AtHand(usage, read)
  /\ FinalUsage
------------------------------------------------------------------------------
\* No failure is mistaken for the end of a stream.
LEMMA FailureIsNotFinal ==
  ASSUME call \in Calls, answer.head \in Heads
  PROVE  /\ HeadClass(call, answer.head) # "final"
         /\ HeadClass(call, answer.head) # "running"
         /\ \A e : EventClass(call, e) # "final" /\ EventClass(call, e) # "running"
<1>1. HeadClass(call, answer.head) \notin {"final", "running"}
  BY DEF Heads, HeadClass, StatusClass
<1>2. ASSUME NEW e PROVE EventClass(call, e) \notin {"final", "running"}
  BY DEF EventClass, Losses, Calls, Formats
<1> QED BY <1>1, <1>2

\* A count stays current behind an event that does not revise it.
LEMMA CurrentAfter ==
  ASSUME NEW n \in Nat, NEW i \in Nat, NEW tell, NEW revise,
         Current(i, n, tell, revise), answer.events[n + 1] \notin revise
  PROVE  Current(i, n + 1, tell, revise)
<1>1. \A j \in i + 1..n + 1 : j \in i + 1..n \/ j = n + 1
  OBVIOUS
<1>2. i \in 1..n => i \in 1..n + 1
  OBVIOUS
<1> QED BY <1>1, <1>2 DEF Current

\* The event just read tells a current count.
LEMMA CurrentNow ==
  ASSUME NEW n \in Nat, NEW tell, NEW revise, answer.events[n + 1] \in tell
  PROVE  Current(n + 1, n + 1, tell, revise)
<1>1. n + 1 \in 1..n + 1 /\ n + 1 + 1..n + 1 = {}
  OBVIOUS
<1> QED BY <1>1 DEF Current

\* Reading one more event keeps what is at hand true of the events read.
LEMMA UsageAfterAtHand ==
  ASSUME NEW n \in Nat, NEW u \in Usages, AtHand(u, n)
  PROVE  /\ UsageAfter(u, answer.events[n + 1], n + 1) \in Usages
         /\ AtHand(UsageAfter(u, answer.events[n + 1], n + 1), n + 1)
<1> DEFINE e == answer.events[n + 1]
           v == UsageAfter(u, e, n + 1)
<1>0. n + 1 \in Nat /\ u.input \in Nat /\ u.output \in Nat
  BY DEF Usages
<1>1. CASE e = "usage"
  <2>1. v = [input |-> n + 1, output |-> n + 1]
    BY <1>1, Zenon DEF UsageAfter
  <2>2. InputAtHand(v, n + 1)
    BY <1>1, <2>1, CurrentNow DEF InputAtHand
  <2>3. OutputAtHand(v, n + 1)
    BY <1>1, <2>1, CurrentNow DEF OutputAtHand
  <2> QED BY <1>0, <2>1, <2>2, <2>3 DEF AtHand, Usages
<1>2. CASE e = "half"
  <2>1. v = [input |-> 0, output |-> 0]
    BY <1>2 DEF UsageAfter, NoUsage
  <2> QED BY <2>1 DEF AtHand, InputAtHand, OutputAtHand, Current, Usages
<1>3. CASE e = "start"
  <2>1. v = [input |-> n + 1, output |-> u.output]
    BY <1>3 DEF UsageAfter, Usages
  <2>2. InputAtHand(v, n + 1)
    BY <1>3, <2>1, CurrentNow DEF InputAtHand
  <2>3. OutputAtHand(v, n + 1)
    BY <1>0, <1>3, <2>1, CurrentAfter DEF AtHand, OutputAtHand
  <2> QED BY <1>0, <2>1, <2>2, <2>3 DEF AtHand, Usages
<1>4. CASE e \in {"delta", "unsound"}
  <2>1. v = [input |-> u.input, output |-> n + 1]
    BY <1>4 DEF UsageAfter, Usages
  <2>2. InputAtHand(v, n + 1)
    BY <1>0, <1>4, <2>1, CurrentAfter DEF AtHand, InputAtHand
  <2>3. OutputAtHand(v, n + 1)
    BY <1>4, <2>1, CurrentNow DEF OutputAtHand
  <2> QED BY <1>0, <2>1, <2>2, <2>3 DEF AtHand, Usages
<1>5. CASE e \notin {"usage", "half", "start", "delta", "unsound"}
  <2>1. v = u
    BY <1>5 DEF UsageAfter
  <2>2. InputAtHand(v, n + 1)
    BY <1>0, <1>5, <2>1, CurrentAfter DEF AtHand, InputAtHand
  <2>3. OutputAtHand(v, n + 1)
    BY <1>0, <1>5, <2>1, CurrentAfter DEF AtHand, OutputAtHand
  <2> QED BY <2>1, <2>2, <2>3 DEF AtHand
<1> QED BY <1>1, <1>2, <1>3, <1>4, <1>5
------------------------------------------------------------------------------
\* The final chunk ends a call well, or is refused.
LEMMA DeliverKeeps ==
  ASSUME IInv, pc = "await", NEW u \in Usages, Deliver(u), UNCHANGED wire,
         read' \in Nat, usage' \in Usages, AtHand(u, read)',
         u' = u
  PROVE  IInv'
<1> USE DEF IInv, AdapterType, wire
<1>1. outcome = "running" /\ chunks \in Seq(ChunkType)
  BY DEF RunsUntilEnd
<1>2. CASE u.output # 0 /\ answer.events[u.output] = "unsound"
  <2>1. pc' = "end" /\ outcome' = "crashed" /\ chunks' = chunks
    BY <1>2 DEF Deliver, End
  <2> QED BY <1>1, <2>1 DEF RunsUntilEnd, StreamWellFormed, FinalUsage
<1>3. CASE ~(u.output # 0 /\ answer.events[u.output] = "unsound")
  <2> DEFINE new == [sequence |-> Len(chunks), final |-> TRUE, usage |-> u]
  <2>1. pc' = "end" /\ outcome' = "final" /\ chunks' = Append(chunks, new)
    BY <1>3 DEF Deliver, End, Chunk
  <2>2. new \in ChunkType
    BY <1>1 DEF ChunkType
  <2>3. /\ chunks' \in Seq(ChunkType) /\ Len(chunks') = Len(chunks) + 1
        /\ \A i \in DOMAIN chunks : chunks'[i] = chunks[i]
        /\ chunks'[Len(chunks) + 1] = new
    BY <1>1, <2>1, <2>2
  <2>4. DOMAIN chunks = 1..Len(chunks) /\ DOMAIN chunks' = 1..Len(chunks) + 1
    BY <1>1, <2>3
  <2>5. StreamWellFormed'
    BY <1>1, <2>1, <2>3, <2>4 DEF StreamWellFormed
  <2>6. FinalUsage'
    BY <1>3, <2>1, <2>3 DEF FinalUsage
  <2> QED BY <2>1, <2>3, <2>5, <2>6 DEF RunsUntilEnd
<1> QED BY <1>2, <1>3

\* A call that ends in a failure has handed out no final chunk.
LEMMA FailureKeeps ==
  ASSUME IInv, pc # "end", NEW result, result # "final", End(result),
         UNCHANGED <<wire, usage, chunks>>, read' \in Nat
  PROVE  IInv'
<1>1. outcome = "running" /\ pc' = "end" /\ outcome' = result
  BY DEF IInv, RunsUntilEnd, End
<1> QED BY <1>1
        DEF IInv, AdapterType, wire, RunsUntilEnd, StreamWellFormed, FinalUsage

\* The event that ends a call tells no count.
LEMMA LastEventAtHand ==
  ASSUME IInv, pc # "end", UNCHANGED <<wire, usage>>, read' = read + 1,
         Event = "done"
  PROVE  AtHand(usage, read)'
<1>1. read \in Nat /\ usage.input \in Nat /\ usage.output \in Nat
  BY DEF IInv, AdapterType, Usages
<1>2. InputAtHand(usage, read + 1)
  BY <1>1, CurrentAfter DEF IInv, AtHand, InputAtHand, Event
<1>3. OutputAtHand(usage, read + 1)
  BY <1>1, CurrentAfter DEF IInv, AtHand, OutputAtHand, Event
<1> QED BY <1>2, <1>3 DEF AtHand, InputAtHand, OutputAtHand, Current, wire

LEMMA AdapterInit == Init => IInv
<1> SUFFICES ASSUME Init PROVE IInv
  OBVIOUS
<1>1. answer.head \in Heads
  BY DEF Init, Heads
<1>2. usage \in Usages
  BY DEF Init, Usages, NoUsage
<1>3. AtHand(usage, read)
  BY DEF Init, AtHand, InputAtHand, OutputAtHand, Current, NoUsage
<1> QED BY <1>1, <1>2, <1>3
        DEF Init, IInv, AdapterType, RunsUntilEnd, StreamWellFormed, FinalUsage

LEMMA AdapterNext == IInv /\ [Next]_vars => IInv'
<1> SUFFICES ASSUME IInv, [Next]_vars PROVE IInv'
  OBVIOUS
<1>0. /\ call \in Calls /\ answer.head \in Heads /\ read \in Nat /\ usage \in Usages
      /\ chunks \in Seq(ChunkType)
      /\ pc # "end" => AtHand(usage, read)
  BY DEF IInv, AdapterType
<1>1. CASE Open
  <2>1. CASE answer.head # 0
    BY <1>1, <2>1 DEF Open, IInv, AdapterType, wire, RunsUntilEnd, StreamWellFormed,
       FinalUsage, AtHand, InputAtHand, OutputAtHand, Current
  <2>2. CASE answer.head = 0
    BY <1>0, <1>1, <2>2, FailureKeeps DEF Open, wire
  <2> QED BY <2>1, <2>2
<1>2. CASE EndOfAnswer
  BY <1>0, <1>2, DeliverKeeps
     DEF EndOfAnswer, wire, AtHand, InputAtHand, OutputAtHand, Current
<1>3. CASE LastEvent
  <2>1. read' = read + 1 /\ Ends(call, Event) /\ pc = "await" /\ UNCHANGED <<wire, usage>>
    BY <1>3 DEF LastEvent
  <2>2. CASE EventClass(call, Event) = "none"
    <3>1. Event = "done"
      BY <2>1, <2>2 DEF Ends
    <3>2. AtHand(usage, read)'
      BY <2>1, <3>1, LastEventAtHand
    <3>3. Deliver(usage)
      BY <1>3, <2>2 DEF LastEvent
    <3> QED BY <1>0, <2>1, <3>2, <3>3, DeliverKeeps
  <2>3. CASE EventClass(call, Event) # "none"
    <3>1. End(EventClass(call, Event)) /\ chunks' = chunks
      BY <1>3, <2>3 DEF LastEvent, Raised
    <3> QED BY <1>0, <2>1, <3>1, FailureIsNotFinal, FailureKeeps
  <2> QED BY <2>2, <2>3
<1>4. CASE StreamEvent
  <2>1. /\ pc = "await" /\ read' = read + 1 /\ UNCHANGED <<wire, outcome>>
        /\ usage' = UsageAfter(usage, Event, read + 1)
    BY <1>4 DEF StreamEvent
  <2>2. usage' \in Usages /\ AtHand(usage, read)'
    BY <1>0, <2>1, UsageAfterAtHand
       DEF Event, wire, AtHand, InputAtHand, OutputAtHand, Current
  <2>3. outcome = "running" /\ outcome' = "running"
    BY <2>1 DEF IInv, RunsUntilEnd
  <2>4. CASE ~Handed(Event)
    BY <1>0, <1>4, <2>1, <2>2, <2>3, <2>4
       DEF StreamEvent, IInv, AdapterType, wire, RunsUntilEnd, StreamWellFormed, FinalUsage
  <2>5. CASE Handed(Event)
    <3> DEFINE new == [sequence |-> Len(chunks), final |-> FALSE, usage |-> NoUsage]
    <3>1. chunks' = Append(chunks, new) /\ pc' = "yield"
      BY <1>4, <2>5 DEF StreamEvent, Chunk
    <3>2. new \in ChunkType
      BY <1>0 DEF ChunkType, Usages, NoUsage
    <3>3. /\ chunks' \in Seq(ChunkType) /\ Len(chunks') = Len(chunks) + 1
          /\ \A i \in DOMAIN chunks : chunks'[i] = chunks[i]
          /\ chunks'[Len(chunks) + 1] = new
      BY <1>0, <3>1, <3>2
    <3>4. DOMAIN chunks = 1..Len(chunks) /\ DOMAIN chunks' = 1..Len(chunks) + 1
      BY <1>0, <3>3
    <3>5. StreamWellFormed'
      BY <1>0, <2>3, <3>3, <3>4 DEF IInv, StreamWellFormed
    <3> QED BY <1>0, <2>1, <2>2, <2>3, <3>1, <3>3, <3>5
            DEF IInv, AdapterType, wire, RunsUntilEnd, FinalUsage
  <2> QED BY <2>4, <2>5
<1>5. CASE ChatBody
  <2>1. /\ pc = "await" /\ read' = read + 1 /\ UNCHANGED wire
        /\ usage' = UsageAfter(usage, Event, read + 1)
        /\ Deliver(usage')
    BY <1>5 DEF ChatBody
  <2>2. PICK u \in Usages : u = usage'
    BY <1>0, <2>1, UsageAfterAtHand DEF Event
  <2>3. AtHand(u, read)'
    BY <1>0, <2>1, <2>2, UsageAfterAtHand
       DEF Event, wire, AtHand, InputAtHand, OutputAtHand, Current
  <2> QED BY <1>0, <2>1, <2>2, <2>3, DeliverKeeps
<1>6. CASE Pull
  BY <1>6 DEF Pull, IInv, AdapterType, wire, RunsUntilEnd, StreamWellFormed,
     FinalUsage, AtHand, InputAtHand, OutputAtHand, Current
<1>7. CASE Abandon
  BY <1>0, <1>7, FailureKeeps DEF Abandon, wire
<1>9. CASE Refused
  BY <1>0, <1>9, FailureIsNotFinal, FailureKeeps DEF Refused, wire
<1>8. CASE UNCHANGED vars
  BY <1>8 DEF vars, wire, IInv, AdapterType, RunsUntilEnd, StreamWellFormed,
     FinalUsage, AtHand, InputAtHand, OutputAtHand, Current
<1> QED BY <1>1, <1>2, <1>3, <1>4, <1>5, <1>6, <1>7, <1>8, <1>9 DEF Next

\* The invariant of a call, for every bound on the events and every answer.
THEOREM AdapterInvariant == Spec => []IInv
<1> QED BY AdapterInit, AdapterNext, PTL DEF Spec

\* Adapter.StreamWellFormed: whatever the upstream sends, the chunks that stream()
\* hands over count from zero, and a final one is the last and ends the call.
THEOREM StreamWellFormedHolds == Spec => []StreamWellFormed
<1>1. IInv => StreamWellFormed
  BY DEF IInv
<1> QED BY <1>1, AdapterInvariant, PTL

\* Adapter.BilledAsReported: the usage that a call delivers is what the provider
\* told last, and it has a price only if the provider reported it.
THEOREM BilledAsReportedHolds == Spec => []BilledAsReported
<1>1. IInv => BilledAsReported
  <2> SUFFICES ASSUME IInv, outcome = "final" PROVE BilledAsReported
    BY DEF BilledAsReported
  <2> DEFINE told == chunks[Len(chunks)].usage
             Newest(kinds) == {i \in 1..read :
               /\ answer.events[i] \in kinds
               /\ \A j \in i + 1..read : answer.events[j] \notin kinds}
  <2>1. AtHand(told, read) /\ (told.output # 0 => answer.events[told.output] # "unsound")
    BY DEF IInv, FinalUsage
  <2>2. told.input # 0 =>
          told.input \in Newest({"usage", "half", "start"})
          /\ answer.events[told.input] # "half"
    BY <2>1 DEF AtHand, InputAtHand, Current
  <2>3. told.output # 0 =>
          told.output \in Newest({"usage", "half", "delta", "unsound"})
          /\ answer.events[told.output] \in {"usage", "delta"}
    BY <2>1 DEF AtHand, OutputAtHand, Current
  <2>4. {"usage", "half"} \cap {answer.events[i] : i \in {told.input, told.output} \ {0}}
          \subseteq {"usage"}
    BY <2>2, <2>3
  <2>5. Priced(told) => \E i \in 1..read : answer.events[i] \in {"usage", "delta"}
    BY <2>3 DEF Priced
  <2> QED BY <2>2, <2>3, <2>4, <2>5 DEF BilledAsReported
<1> QED BY <1>1, AdapterInvariant, PTL

------------------------------------------------------------------------------
\* The pieces of text among the first n events.
Texts(n) == {i \in 1..n : answer.events[i] = "text"}

\* A call that has not ended has looked at events behind which there may be more,
\* and handed over their text.
Progress ==
  /\ answer.events \in Seq(Kinds(call))
  /\ ~call.stream => Len(answer.events) <= 1
  /\ pc = "start" => read = 0 /\ chunks = <<>>
  /\ pc \in {"await", "yield"} => answer.head # 0
  /\ ~Accepted(call, answer.head) =>
       \A i \in DOMAIN answer.events : answer.events[i] \in Interruptions
  /\ pc # "end" =>
       /\ read <= Len(answer.events)
       /\ \A i \in 1..read : ~Ends(call, answer.events[i])
       /\ call.stream => Len(chunks) = Cardinality(Texts(read))
  /\ FirstFailureDecides

\* Reading on: a text is one more, and no other event is.
LEMMA TextsAfter ==
  ASSUME NEW n \in Nat
  PROVE  /\ Cardinality(Texts(n)) \in Nat
         /\ answer.events[n + 1] = "text" =>
              Cardinality(Texts(n + 1)) = Cardinality(Texts(n)) + 1
         /\ answer.events[n + 1] # "text" => Texts(n + 1) = Texts(n)
<1>1. IsFiniteSet(Texts(n))
  <2>1. IsFiniteSet(1..n) /\ Texts(n) \subseteq 1..n
    BY FS_Interval DEF Texts
  <2> QED BY <2>1, FS_Subset
<1>2. ASSUME answer.events[n + 1] = "text"
      PROVE  Texts(n + 1) = Texts(n) \cup {n + 1} /\ n + 1 \notin Texts(n)
  BY <1>2 DEF Texts
<1>3. ASSUME answer.events[n + 1] # "text"
      PROVE  Texts(n + 1) = Texts(n)
  <2>1. \A i : i \in 1..n + 1 <=> i \in 1..n \/ i = n + 1
    OBVIOUS
  <2> QED BY <1>3, <2>1 DEF Texts
<1> QED BY <1>1, <1>2, <1>3, FS_AddElement, FS_CardinalityType

\* What a whole answer comes to, told from the events read: all of them, and none
\* ends the call, or the last one read does.
LEMMA VerdictRead ==
  ASSUME answer.head # 0, answer.events \in Seq(Kinds(call)),
         NEW n \in Nat, \A i \in 1..n : ~Ends(call, answer.events[i])
  PROVE  /\ n = Len(answer.events) =>
              Verdict(call, answer.head, answer.events) =
                IF Accepted(call, answer.head) THEN "final"
                ELSE HeadClass(call, answer.head)
         /\ n < Len(answer.events) /\ Ends(call, answer.events[n + 1]) =>
              Verdict(call, answer.head, answer.events) =
                IF answer.events[n + 1] = "done" THEN "final"
                ELSE EventClass(call, answer.events[n + 1])
<1> DEFINE ends == {i \in DOMAIN answer.events : Ends(call, answer.events[i])}
           first == CHOOSE i \in ends : \A j \in ends : i <= j
<1>1. DOMAIN answer.events = 1..Len(answer.events) /\ Len(answer.events) \in Nat
  OBVIOUS
<1>2. CASE n = Len(answer.events)
  <2>1. ends = {}
    BY <1>1, <1>2
  <2> QED BY <1>2, <2>1 DEF Verdict
<1>3. CASE n < Len(answer.events) /\ Ends(call, answer.events[n + 1])
  <2>1. n + 1 \in ends
    BY <1>1, <1>3
  <2>2. \A j \in ends : j \in Nat /\ n + 1 <= j
    BY <1>1
  <2>3. first \in ends /\ \A j \in ends : first <= j
    BY <2>1, <2>2
  <2>4. first = n + 1
    BY <2>1, <2>2, <2>3
  <2> HIDE DEF first
  <2>5. Verdict(call, answer.head, answer.events) =
          IF answer.events[first] = "done" THEN "final"
          ELSE EventClass(call, answer.events[first])
    BY <2>1 DEF Verdict, first
  <2> QED BY <1>3, <2>4, <2>5
<1> QED BY <1>2, <1>3

LEMMA ProgressInit == Init => Progress
<1> SUFFICES ASSUME Init PROVE Progress
  OBVIOUS
<1>0. answer.events \in Bodies(call, answer.head)
  BY DEF Init
<1>1. PICK n \in Nat : /\ answer.events \in [1..n -> Kinds(call)]
                       /\ ~call.stream => n <= 1
                       /\ ~Accepted(call, answer.head) =>
                            answer.events \in [1..n -> Interruptions]
  <2>1. Interruptions \subseteq Kinds(call)
    BY DEF Kinds
  <2>2. CASE answer.events = <<>>
    <3>1. \A S : <<>> \in [1..0 -> S]
      OBVIOUS
    <3>2. 0 \in Nat /\ 0 <= 1
      OBVIOUS
    <3> QED
      <4> WITNESS 0 \in Nat
      <4> QED BY <2>2, <3>1, <3>2
  <2>3. CASE ~Accepted(call, answer.head) /\ answer.events # <<>>
    <3>1. answer.events \in [1..1 -> Interruptions]
      BY <1>0, <2>3 DEF Bodies
    <3>2. answer.events \in [1..1 -> Kinds(call)]
      BY <2>1, <3>1
    <3>3. 1 \in Nat /\ 1 <= 1
      OBVIOUS
    <3> QED
      <4> WITNESS 1 \in Nat
      <4> QED BY <3>1, <3>2, <3>3
  <2>4. CASE Accepted(call, answer.head) /\ call.stream
    <3>1. answer.head # 0
      BY <2>4 DEF Accepted
    <3>2. answer.events \in UNION {[1..n -> Kinds(call)] : n \in 0..MaxEvents}
      BY <1>0, <2>4, <3>1 DEF Bodies
    <3>3. PICK n \in 0..MaxEvents : answer.events \in [1..n -> Kinds(call)]
      BY <3>2
    <3> QED BY <2>4, <3>3, EventAssumption
  <2>5. CASE Accepted(call, answer.head) /\ ~call.stream
    <3>1. answer.head # 0
      BY <2>5 DEF Accepted
    <3>2. answer.events \in [1..1 -> Kinds(call)]
      BY <1>0, <2>5, <3>1 DEF Bodies
    <3>3. 1 \in Nat /\ 1 <= 1
      OBVIOUS
    <3> QED
      <4> WITNESS 1 \in Nat
      <4> QED BY <2>5, <3>2, <3>3
  <2> QED BY <2>2, <2>3, <2>4, <2>5
<1>2. /\ answer.events \in Seq(Kinds(call)) /\ Len(answer.events) \in Nat
      /\ ~call.stream => Len(answer.events) <= 1
      /\ ~Accepted(call, answer.head) =>
           \A i \in DOMAIN answer.events : answer.events[i] \in Interruptions
  <2>1. \A m \in Nat : [1..m -> Kinds(call)] \subseteq Seq(Kinds(call))
    OBVIOUS
  <2>2. Len(answer.events) = n /\ DOMAIN answer.events = 1..n
    BY <1>1, <2>1
  <2> QED BY <1>1, <2>1, <2>2
<1>3. Texts(0) = {} /\ Cardinality({}) = 0
  BY FS_EmptySet DEF Texts
<1>4. pc = "start" /\ read = 0 /\ chunks = <<>> /\ outcome = "running"
  BY DEF Init
<1>5. Len(chunks) = 0
  BY <1>4
<1>6. \A i \in 1..0 : FALSE
  OBVIOUS
<1>7. FirstFailureDecides
  BY <1>4 DEF FirstFailureDecides
<1>8. pc # "end" /\ pc \notin {"await", "yield"} /\ read <= Len(answer.events)
  BY <1>2, <1>4
<1>9. /\ \A i \in 1..read : ~Ends(call, answer.events[i])
      /\ call.stream => Len(chunks) = Cardinality(Texts(read))
  BY <1>3, <1>4, <1>5, <1>6
<1> QED BY <1>2, <1>4, <1>7, <1>8, <1>9 DEF Progress

\* Delivering is what a call does at the end of a good answer.
LEMMA DeliverDecides ==
  ASSUME IInv, Progress, pc = "await", UNCHANGED wire,
         NEW u \in Usages, NEW n \in Nat, read' = n, Deliver(u),
         OutputAtHand(u, n),
         Verdict(call, answer.head, answer.events) = "final",
         call.stream => Len(chunks) = Cardinality(Texts(n))
  PROVE  Progress'
<1> USE DEF IInv, AdapterType, wire
<1>1. pc' = "end" /\ answer' = answer /\ call' = call
  BY DEF Deliver, End
<1>2. Len(chunks) \in Nat /\ Cardinality(Texts(n)) \in Nat
  BY TextsAfter
<1>3. CASE u.output # 0 /\ answer.events[u.output] = "unsound"
  <2>1. outcome' = "crashed" /\ chunks' = chunks
    BY <1>3 DEF Deliver, End
  <2>2. u.output \in 1..n
    BY <1>3 DEF OutputAtHand, Current
  <2>3. FirstFailureDecides'
    BY <1>1, <1>2, <1>3, <2>1, <2>2 DEF FirstFailureDecides, Texts
  <2> QED BY <1>1, <2>3 DEF Progress
<1>4. CASE ~(u.output # 0 /\ answer.events[u.output] = "unsound")
  <2>1. outcome' = "final" /\ chunks' = Append(chunks, Chunk(TRUE, u))
    BY <1>4 DEF Deliver, End
  <2>2. Len(chunks') = Len(chunks) + 1
    BY <2>1
  <2>3. FirstFailureDecides'
    BY <1>1, <1>2, <2>1, <2>2 DEF FirstFailureDecides, Texts
  <2> QED BY <1>1, <2>3 DEF Progress
<1> QED BY <1>3, <1>4

LEMMA ProgressNext == IInv /\ Progress /\ [Next]_vars => Progress'
<1> SUFFICES ASSUME IInv, Progress, [Next]_vars PROVE Progress'
  OBVIOUS
<1> DEFINE verdict == Verdict(call, answer.head, answer.events)
<1>0. /\ call \in Calls /\ answer.head \in Heads /\ read \in Nat /\ usage \in Usages
      /\ chunks \in Seq(ChunkType) /\ Len(chunks) \in Nat
      /\ call.stream \in BOOLEAN
      /\ pc # "end" => outcome = "running" /\ AtHand(usage, read)
  BY DEF IInv, AdapterType, RunsUntilEnd, Calls
<1>1. CASE Open
  <2>1. CASE answer.head # 0
    BY <1>1, <2>1 DEF Open, wire, Progress, FirstFailureDecides, Texts
  <2>2. CASE answer.head = 0
    <3>1. pc = "start" /\ pc' = "end" /\ outcome' = "timeout"
          /\ UNCHANGED <<call, answer, read, chunks>>
      BY <1>1, <2>2 DEF Open, End, wire
    <3>2. verdict = "timeout"
      BY <2>2 DEF Verdict
    <3>3. Len(chunks) = 0 /\ read = 0
      BY <1>0, <3>1 DEF Progress
    <3>4. Texts(0) = {} /\ Cardinality({}) = 0
      BY FS_EmptySet DEF Texts
    <3>5. FirstFailureDecides'
      BY <3>1, <3>2, <3>3, <3>4 DEF FirstFailureDecides, Texts
    <3> QED BY <3>1, <3>5 DEF Progress
  <2> QED BY <2>1, <2>2
<1>2. CASE EndOfAnswer
  <2>1. verdict = "final"
    BY <1>0, <1>2, VerdictRead DEF EndOfAnswer, Progress
  <2> QED
    BY <1>0, <1>2, <2>1, DeliverDecides DEF EndOfAnswer, wire, Progress, AtHand
<1>3. CASE LastEvent
  <2>1. /\ pc = "await" /\ read < Len(answer.events) /\ Ends(call, Event)
        /\ read' = read + 1 /\ UNCHANGED <<wire, usage>>
        /\ Event = answer.events[read + 1]
    BY <1>3 DEF LastEvent, Event
  <2>2. verdict = IF Event = "done" THEN "final" ELSE EventClass(call, Event)
    BY <1>0, <2>1, VerdictRead DEF Progress
  <2>3. Event # "text"
    BY <2>1 DEF Ends, EventClass, Losses
  <2>4. Texts(read + 1) = Texts(read)
    BY <1>0, <2>1, <2>3, TextsAfter
  <2>5. CASE EventClass(call, Event) = "none"
    <3>1. Event = "done" /\ Deliver(usage)
      BY <1>3, <2>1, <2>5 DEF LastEvent, Ends
    <3>2. AtHand(usage, read + 1)
      BY <1>0, <2>1, <3>1, LastEventAtHand
         DEF AtHand, InputAtHand, OutputAtHand, Current, wire
    <3> QED
      BY <1>0, <2>1, <2>2, <2>4, <3>1, <3>2, DeliverDecides DEF Progress, AtHand
  <2>6. CASE EventClass(call, Event) # "none"
    <3>1. Event # "done"
      BY <2>6 DEF EventClass, Losses
    <3>2. /\ pc' = "end" /\ outcome' = EventClass(call, Event) /\ chunks' = chunks
          /\ call' = call /\ answer' = answer
      BY <1>3, <2>1, <2>6 DEF LastEvent, Raised, End, wire
    <3>3. outcome' = verdict /\ outcome' # "final"
      BY <1>0, <2>2, <3>1, <3>2, FailureIsNotFinal
    <3>4. call.stream => Len(chunks) = Cardinality(Texts(read + 1))
      BY <2>1, <2>4 DEF Progress
    <3>5. FirstFailureDecides'
      BY <1>0, <2>1, <3>2, <3>3, <3>4 DEF FirstFailureDecides, Texts
    <3> QED BY <3>2, <3>5 DEF Progress
  <2> QED BY <2>5, <2>6
<1>4. CASE StreamEvent
  <2>1. /\ pc = "await" /\ read < Len(answer.events) /\ ~Ends(call, Event)
        /\ read' = read + 1 /\ UNCHANGED <<call, answer, outcome>>
        /\ Event = answer.events[read + 1]
        /\ pc' \in {"await", "yield"}
    BY <1>4 DEF StreamEvent, Event, wire
  <2>2. \A i \in 1..read + 1 : ~Ends(call, answer.events[i])
    <3>1. \A i \in 1..read + 1 : i \in 1..read \/ i = read + 1
      BY <1>0
    <3> QED BY <2>1, <3>1 DEF Progress
  <2>3. Len(chunks') = Cardinality(Texts(read + 1))
    <3>1. Len(chunks) = Cardinality(Texts(read))
      BY <1>4, <2>1 DEF StreamEvent, Progress
    <3>2. CASE Event = "text"
      <4>1. chunks' = Append(chunks, Chunk(FALSE, NoUsage))
        BY <1>4, <3>2 DEF StreamEvent, Handed
      <4>2. Len(chunks') = Len(chunks) + 1
        BY <1>0, <4>1
      <4> QED BY <1>0, <2>1, <3>1, <3>2, <4>2, TextsAfter
    <3>3. CASE Event # "text"
      BY <1>0, <1>4, <2>1, <3>1, <3>3, TextsAfter DEF StreamEvent, Handed
    <3> QED BY <3>2, <3>3
  <2>4. FirstFailureDecides'
    BY <1>0, <2>1 DEF FirstFailureDecides
  <2> QED BY <1>0, <2>1, <2>2, <2>3, <2>4 DEF Progress, Texts
<1>5. CASE ChatBody
  <2>1. /\ ~call.stream /\ pc = "await" /\ read < Len(answer.events)
        /\ ~Ends(call, Event) /\ read' = read + 1 /\ UNCHANGED wire
        /\ usage' = UsageAfter(usage, Event, read + 1) /\ Deliver(usage')
        /\ Event = answer.events[read + 1]
    BY <1>5 DEF ChatBody, Event
  <2>2. Accepted(call, answer.head)
    <3>1. read + 1 \in DOMAIN answer.events
      BY <1>0, <2>1 DEF Progress
    <3>2. \A e \in Interruptions : Ends(call, e)
      <4>1. \A e \in Losses : EventClass(call, e) = "timeout"
        BY DEF EventClass, Losses
      <4>2. EventClass(call, "foreign") # "none"
        BY DEF EventClass, Losses
      <4> QED BY <4>1, <4>2 DEF Interruptions, Ends
    <3> QED BY <2>1, <3>1, <3>2 DEF Progress
  <2>3. read = 0 /\ Len(answer.events) = 1
    <3>1. Len(answer.events) \in Nat /\ Len(answer.events) <= 1
      BY <2>1 DEF Progress
    <3>2. read < Len(answer.events)
      BY <2>1
    <3>3. \A m, k \in Nat : k < m /\ m <= 1 => k = 0 /\ m = 1
      OBVIOUS
    <3> QED BY <1>0, <3>1, <3>2, <3>3
  <2>4. \A i \in 1..1 : ~Ends(call, answer.events[i])
    BY <2>1, <2>3
  <2>5. verdict = "final"
    BY <2>1, <2>2, <2>3, <2>4, VerdictRead DEF Progress
  <2>6. PICK u \in Usages : u = usage'
    BY <1>0, <2>1, UsageAfterAtHand
  <2>7. OutputAtHand(u, read + 1)
    BY <1>0, <2>1, <2>6, UsageAfterAtHand DEF AtHand
  <2> QED BY <1>0, <2>1, <2>5, <2>6, <2>7, DeliverDecides
<1>6. CASE Pull
  BY <1>6 DEF Pull, wire, Progress, FirstFailureDecides, Texts
<1>7. CASE Abandon
  BY <1>7 DEF Abandon, End, wire, Progress, FirstFailureDecides, Texts
<1>9. CASE Refused
  <2>1. /\ pc = "await" /\ read = Len(answer.events) /\ ~Accepted(call, answer.head)
        /\ pc' = "end" /\ outcome' = HeadClass(call, answer.head)
        /\ UNCHANGED <<call, answer, read, chunks>>
    BY <1>9 DEF Refused, End, wire
  <2>2. verdict = HeadClass(call, answer.head)
    BY <1>0, <2>1, VerdictRead DEF Progress
  <2>3. outcome' # "final"
    BY <1>0, <2>1, FailureIsNotFinal
  <2>4. FirstFailureDecides'
    BY <2>1, <2>2, <2>3 DEF FirstFailureDecides, Progress, Texts
  <2> QED BY <2>1, <2>4 DEF Progress
<1>8. CASE UNCHANGED vars
  BY <1>8 DEF vars, wire, Progress, FirstFailureDecides, Texts
<1> QED BY <1>1, <1>2, <1>3, <1>4, <1>5, <1>6, <1>7, <1>8, <1>9 DEF Next

\* Adapter.FirstFailureDecides: a call fails with the class of the first failure it
\* meets as it reads, a refusal's body before its status, whatever lies behind it, and
\* the text before it was handed over.
THEOREM FirstFailureDecidesHolds == Spec => []FirstFailureDecides
<1>1. Progress => FirstFailureDecides
  BY DEF Progress
<1> QED BY <1>1, ProgressInit, ProgressNext, AdapterInvariant, PTL DEF Spec
==============================================================================
