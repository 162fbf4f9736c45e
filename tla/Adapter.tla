------------------------------- MODULE Adapter -------------------------------
(***************************************************************************)
(* One call of an adapter, chat() or stream(), against an upstream that    *)
(* may send anything and may stop anywhere.  A stream is a generator: it   *)
(* stands still at its yields until its consumer asks for more, or closes  *)
(* it, and its consumer may cancel it while it waits for the upstream.     *)
(*                                                                         *)
(* Modelled: OpenAICompatAdapter and AnthropicManagedAdapter.  Left out:   *)
(* the request they build, the texts of messages, the finish reason, the   *)
(* Retry-After header.                                                     *)
(***************************************************************************)
EXTENDS Upstream, FiniteSets

CONSTANT MaxEvents   \* bound: the events of one answer

ASSUME EventAssumption == MaxEvents \in Nat

VARIABLES
  call,     \* the format and the mode
  answer,   \* what the upstream sends: [head, events]
  pc,       \* "start" (the head is awaited), "await", "yield", or "end"
  read,     \* the number of events looked at
  usage,    \* the usage at hand
  chunks,   \* the chunks handed over, [sequence, final, usage]
  outcome   \* "running", "final", the class raised, "crashed", "closed"

vars == <<call, answer, pc, read, usage, chunks, outcome>>
wire == <<call, answer>>

\* The events an answer to a call can have.
Bodies(c, head) ==
  CASE head = 0 -> {<<>>}
    [] head # 0 /\ ~Accepted(c, head) -> {<<>>} \cup [1..1 -> Interruptions]
    [] Accepted(c, head) /\ c.stream -> UNION {[1..n -> Kinds(c)] : n \in 0..MaxEvents}
    [] Accepted(c, head) /\ ~c.stream -> [1..1 -> Kinds(c)]

Init ==
  /\ call \in Calls
  /\ \E head \in Heads : answer \in [head : {head}, events : Bodies(call, head)]
  /\ pc = "start" /\ read = 0 /\ usage = NoUsage
  /\ chunks = <<>> /\ outcome = "running"

\* Mutant of Chunk: the final chunk counts as the one before it.
ChunkRenumbered(final, u) ==
  [sequence |-> IF final /\ chunks # <<>> THEN Len(chunks) - 1 ELSE Len(chunks),
   final |-> final, usage |-> u]

Chunk(final, u) == [sequence |-> Len(chunks), final |-> final, usage |-> u]

End(result) == pc' = "end" /\ outcome' = result

\* The request was sent and the head comes, or does not.  What follows it is
\* awaited in any case, be it a refusal.
Open ==
  /\ pc = "start"
  /\ IF answer.head = 0
     THEN End("timeout")
     ELSE pc' = "await" /\ UNCHANGED outcome
  /\ UNCHANGED <<wire, read, usage, chunks>>

\* The body of a refusal has come whole, and its status is raised.
Refused ==
  /\ pc = "await" /\ read = Len(answer.events)
  /\ ~Accepted(call, answer.head)
  /\ End(HeadClass(call, answer.head))
  /\ UNCHANGED <<wire, read, usage, chunks>>

Event == answer.events[read + 1]

\* The final chunk of a stream, or the result of a chat.  The model of the chunk
\* refuses counts that are not.
Deliver(u) ==
  IF u.output # 0 /\ answer.events[u.output] = "unsound"
  THEN End("crashed") /\ UNCHANGED chunks
  ELSE /\ chunks' = Append(chunks, Chunk(TRUE, u))
       /\ End("final")

\* The upstream ends the answer without more events.
EndOfAnswer ==
  /\ pc = "await" /\ read = Len(answer.events)
  /\ Accepted(call, answer.head)
  /\ Deliver(usage)
  /\ UNCHANGED <<wire, read, usage>>

\* Mutant of Raised: a refusal is raised as such though its body was lost.
RaisedEarly(event) ==
  IF Accepted(call, answer.head) THEN EventClass(call, event)
  ELSE HeadClass(call, answer.head)

\* What is raised for an event: in the body of a refusal as well its own class.
Raised(event) == EventClass(call, event)

\* An event that ends the call: the marker, or a failure.
LastEvent ==
  /\ pc = "await" /\ read < Len(answer.events) /\ Ends(call, Event)
  /\ read' = read + 1
  /\ IF EventClass(call, Event) = "none"
     THEN Deliver(usage)
     ELSE End(Raised(Event)) /\ UNCHANGED chunks
  /\ UNCHANGED <<wire, usage>>

\* Mutant of Handed: an empty delta is handed over as well.
HandedAny(event) == event \in {"text", "blank"}

\* Whether a stream yields a chunk for the event.
Handed(event) == event = "text"

\* An event of a stream behind which there may be more.
StreamEvent ==
  /\ call.stream
  /\ pc = "await" /\ read < Len(answer.events) /\ ~Ends(call, Event)
  /\ read' = read + 1
  /\ usage' = UsageAfter(usage, Event, read + 1)
  /\ IF Handed(Event)
     THEN /\ chunks' = Append(chunks, Chunk(FALSE, NoUsage))
          /\ pc' = "yield"
     ELSE UNCHANGED <<chunks, pc>>
  /\ UNCHANGED <<wire, outcome>>

\* The body of an answer that is not streamed.
ChatBody ==
  /\ ~call.stream
  /\ pc = "await" /\ read < Len(answer.events) /\ ~Ends(call, Event)
  /\ read' = read + 1
  /\ usage' = UsageAfter(usage, Event, read + 1)
  /\ Deliver(usage')
  /\ UNCHANGED wire

\* The consumer asks for the next chunk.
Pull == pc = "yield" /\ pc' = "await" /\ UNCHANGED <<wire, read, usage, chunks, outcome>>

\* The consumer closes the generator at a yield or cancels the call where it waits
\* for the head, for an event or for the body of a refusal: an exception that no
\* handler of the adapters catches.
Abandon ==
  /\ pc # "end"
  /\ End("closed")
  /\ UNCHANGED <<wire, read, usage, chunks>>

Next ==
  \/ Open \/ Refused \/ EndOfAnswer \/ LastEvent \/ StreamEvent \/ ChatBody
  \/ Pull \/ Abandon

Spec == Init /\ [][Next]_vars
------------------------------------------------------------------------------
\* The numbers and kinds of the chunks, whatever the upstream sends: they count
\* from zero without a gap, the final one is the last, and a call that ends in
\* anything but its final chunk has handed out none.
StreamWellFormed ==
  /\ \A i \in DOMAIN chunks :
       /\ chunks[i].sequence = i - 1
       /\ chunks[i].final <=> i = Len(chunks) /\ outcome = "final"
  /\ outcome = "final" => chunks # <<>>

\* A call fails with the class of the first failure that the adapter meets as it
\* reads, and with no other; what lies behind that, or behind the end marker, is not
\* looked at, and all text before it was handed over.  A status is met only behind
\* its body: a refusal whose body is lost is a timeout, which may be tried elsewhere,
\* be its status one that may not.
FirstFailureDecides ==
  outcome \notin {"running", "closed"} =>
    /\ \/ outcome = Verdict(call, answer.head, answer.events)
       \/ /\ outcome = "crashed"   \* the final chunk could not be made
          /\ Verdict(call, answer.head, answer.events) = "final"
          /\ \E i \in 1..read : answer.events[i] = "unsound"
    /\ call.stream =>
         Len(chunks) = Cardinality({i \in 1..read : answer.events[i] = "text"})
                       + (IF outcome = "final" THEN 1 ELSE 0)

\* What is billed is what the provider said last: a count in a final chunk is the
\* newest of its kind before the end of the answer, and an answer cut off before its
\* closing report has no price.  In the OpenAI format a report that lacks a count
\* takes back the one before; a delta of the Anthropic format that has none, which
\* leaves it, is an event of no interest here.
BilledAsReported ==
  outcome = "final" =>
    LET told == chunks[Len(chunks)].usage
        Newest(kinds) == {i \in 1..read : /\ answer.events[i] \in kinds
                                         /\ \A j \in i + 1..read : answer.events[j] \notin kinds}
    IN  /\ told.input # 0 => told.input \in Newest({"usage", "half", "start"})
        /\ told.output # 0 => told.output \in Newest({"usage", "half", "delta", "unsound"})
        /\ {"usage", "half"} \cap {answer.events[i] : i \in {told.input, told.output} \ {0}}
              \subseteq {"usage"}
        /\ Priced(told) => \E i \in 1..read : answer.events[i] \in {"usage", "delta"}
==============================================================================
