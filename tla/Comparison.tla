------------------------------ MODULE Comparison ------------------------------
(***************************************************************************)
(* Comparisons of runs, and the reports that embed them                    *)
(* (benchmark/__main__.py, comparison.py, report.py).  A compare command   *)
(* reads two runs and their summaries, writes the comparison of the pair,  *)
(* and builds the reports of both runs again; a report command builds one. *)
(* A build takes the private cost from its own environment and the         *)
(* comparison from what lies beside the run.  Commands overlap, are        *)
(* refused and are killed between their steps.                             *)
(*                                                                         *)
(* Manifest says which runs there are, Costing what they cost, Evidence    *)
(* how one file after the other is written; here a file is written in one  *)
(* step.  Left out: latency, the Markdown, comparison.json files put in    *)
(* place by hand.                                                          *)
(***************************************************************************)
EXTENDS Costing, Manifest, Sequences

CONSTANTS
  Runs,
  Home,           \* the directory each run is in
  Commands,
  Cases,          \* what the commands start from: each run with its manifest and
                  \* repeats, the quality interval of each pair, and (a bound)
                  \* the number of commands
  NoEffect,       \* the records of the two cannot be paired
  NoInterval,
  MinRepeats,     \* 3 in the code
  MinSuccesses    \* 200 in the code

VARIABLES
  evidence,   \* what the harness left: each run's env, records and costs
  effect,     \* the quality interval of each pair, second minus first
  summary,    \* summary.json of each run: [basis, embedded]
  file,       \* comparison-<a>-vs-<b>.json of each pair
  writes,     \* the number of comparisons written, their mtime
  command,    \* where each command stands
  starts,     \* the commands still to be started
  calm,       \* history: no command overlapped another, was refused or killed
  reported    \* history: the basis of each run's last report by a report command

disk == <<summary, file, writes>>
fixed == <<evidence, effect>>
history == <<starts, calm, reported>>
vars == <<fixed, disk, command, history>>

\* No comparison: those that are written count from one.
Nothing == [written |-> 0]

Pairs == {p \in Runs \X Runs : p[1] # p[2]}
Swapped(p) == <<p[2], p[1]>>
Intervals == [low : Int, high : Int]

\* An interval of differences, taken the other way round.
Mirror(interval) == [low |-> -interval.high, high |-> -interval.low]

\* A run has a repeat at least.  The quality of a pair is drawn in the order of its
\* records with the seed its scenarios share, so that naming it the other way round
\* turns each difference around.
ASSUME CasesAssumption ==
  \A x \in Cases :
    /\ \A r \in Runs : /\ x.evidence[r].repeats \in Seq(Repeats) \ {<<>>}
                       /\ x.evidence[r].measured \in Nat
    /\ \A p \in Pairs :
         \/ x.effect[p] = NoEffect /\ x.effect[Swapped(p)] = NoEffect
         \/ /\ x.effect[p] \in Intervals
            /\ x.effect[Swapped(p)] = Mirror(x.effect[p])

ASSUME IntervalAssumption == NoInterval \notin Intervals

\* BENCHMARK_PRIVATE_BILLED_HOURS, or BySpan if it is not set.
Bases(runs) == {BySpan} \cup {evidence[r].measured : r \in runs}
Idle == [step |-> "idle"]

Init ==
  /\ \E x \in Cases : evidence = x.evidence /\ effect = x.effect /\ starts = x.starts
  /\ \A r \in Runs : Admitted(evidence[r].env)
  /\ summary = [r \in Runs |-> [basis |-> BySpan, embedded |-> Nothing]]
  /\ file = [p \in Pairs |-> Nothing] /\ writes = 0
  /\ command = [c \in Commands |-> Idle]
  /\ calm = TRUE
  /\ reported = [r \in Runs |-> BySpan]
------------------------------------------------------------------------------
\* Mutant of DeltaInterval: the bounds are taken from like bounds.
DeltaOfLikeBounds(a, b) ==
  IF ~Bounded(a) \/ ~Bounded(b) THEN NoInterval
  ELSE [low |-> Interval(b).low - Interval(a).low,
        high |-> Interval(b).high - Interval(a).high]

\* _cost_delta: the widest difference the two intervals allow, second minus first.
DeltaInterval(a, b) ==
  IF ~Bounded(a) \/ ~Bounded(b) THEN NoInterval
  ELSE [low |-> Interval(b).low - Interval(a).high,
        high |-> Interval(b).high - Interval(a).low]

\* Mutant of Direction: the first run wins by cost alone.
DirectionByCost(delta, quality) ==
  CASE delta = NoInterval -> "none"
    [] delta # NoInterval /\ delta.high < 0 /\ quality.low >= 0 -> "second"
    [] delta # NoInterval /\ delta.low > 0 -> "first"
    [] OTHER -> "none"

\* The treatment that is cheaper and not worse.
Direction(delta, quality) ==
  CASE delta = NoInterval -> "none"
    [] delta # NoInterval /\ delta.high < 0 /\ quality.low >= 0 -> "second"
    [] delta # NoInterval /\ delta.low > 0 /\ quality.high <= 0 -> "first"
    [] OTHER -> "none"

Successes(run) == Total([i \in DOMAIN run.repeats |-> run.repeats[i].successes])

\* The gates one run must pass.
Sound(run) ==
  /\ ManifestOf(run.env).publishable
  /\ NonLocal(ManifestOf(run.env))
  /\ Len(run.repeats) >= MinRepeats
  /\ Successes(run) >= MinSuccesses

\* The costs of both runs, those of their summaries.
CostsOf(p, basisA, basisB) ==
  LET a == evidence[p[1]] b == evidence[p[2]]
  IN  <<ViewA(a, basisA), ViewA(b, basisB), ViewB(a, basisA), ViewB(b, basisB)>>

\* The direction of a pair, by its intervals.
Delta(p) == DeltaInterval(evidence[p[1]], evidence[p[2]])
Judged(p) == Direction(Delta(p), effect[p])

\* _claimability: what a claim about the pair must not fail.
Claimable(p, costs) ==
  LET a == evidence[p[1]] b == evidence[p[2]]
  IN  /\ Sound(a) /\ Sound(b)
      /\ a.dataset = b.dataset /\ a.cell = b.cell
      /\ \A i \in DOMAIN costs : costs[i] # NoCost
      /\ Delta(p) # NoInterval
      /\ Judged(p) # "none"

\* build_comparison.
Compared(p, basisA, basisB) ==
  LET costs == CostsOf(p, basisA, basisB)
  IN  [pair |-> p, bases |-> <<basisA, basisB>>, costs |-> costs,
       direction |-> Judged(p), supported |-> Claimable(p, costs),
       written |-> writes + 1]
------------------------------------------------------------------------------
Become(c, state) == command' = [command EXCEPT ![c] = state]
Quiet(c) == \A d \in Commands \ {c} : command[d] = Idle

Begin(c, state) ==
  /\ command[c] = Idle /\ starts > 0
  /\ starts' = starts - 1
  /\ calm' = (calm /\ Quiet(c))
  /\ Become(c, state)

\* The report command builds the report of one run.
Report(c) ==
  \E r \in Runs : \E basis \in Bases({r}) :
    /\ Begin(c, [step |-> "build", preferred |-> <<>>, todo |-> <<r>>, basis |-> basis,
                 draft |-> Nothing])
    /\ UNCHANGED <<fixed, disk, reported>>

\* The compare command reads the first run and its summary.
Compare(c) ==
  \E p \in Pairs : \E basis \in Bases({p[1], p[2]}) :
    /\ Begin(c, [step |-> "read", preferred |-> p, basis |-> basis,
                 first |-> summary[p[1]].basis])
    /\ UNCHANGED <<fixed, disk, reported>>

\* The second one, and what follows from both.  Records that do not pair raise.
ReadSecond(c) ==
  /\ command[c].step = "read"
  /\ LET p == command[c].preferred IN
     IF effect[p] = NoEffect
     THEN Become(c, Idle) /\ calm' = FALSE
     ELSE /\ Become(c, [step |-> "write", preferred |-> p, basis |-> command[c].basis,
                        draft |-> Compared(p, command[c].first, summary[p[2]].basis)])
          /\ UNCHANGED calm
  /\ UNCHANGED <<fixed, disk, starts, reported>>

\* The comparison is written beside the first run.  A second run that lies
\* elsewhere is not reported again.
WriteComparison(c) ==
  /\ command[c].step = "write"
  /\ LET p == command[c].preferred IN
     /\ file' = [file EXCEPT ![p] = [command[c].draft EXCEPT !.written = writes + 1]]
     /\ Become(c, [step |-> "build", preferred |-> p, basis |-> command[c].basis,
                   draft |-> Nothing,
                   todo |-> IF Home[p[1]] = Home[p[2]] THEN p ELSE <<p[1]>>])
  /\ writes' = writes + 1
  /\ UNCHANGED <<fixed, summary, history>>

\* The comparisons beside a run that mention it.
Mentions(r) ==
  {file[p] : p \in {q \in Pairs : /\ file[q] # Nothing /\ r \in {q[1], q[2]}
                                  /\ Home[q[1]] = Home[r]}}

\* Mutant of Newest: the order is not reversed.
Oldest(found) == {x \in found : \A y \in found : x.written <= y.written}

Newest(found) == {x \in found : \A y \in found : x.written >= y.written}

\* _comparison_for_run: the comparison a build embeds.
ComparisonsFor(r, preferred) ==
  CASE preferred # <<>> -> {file[preferred]}
    [] preferred = <<>> /\ Mentions(r) # {} -> Newest(Mentions(r))
    [] OTHER -> {Nothing}

\* A build reads: its costs by its environment, the comparison as it is now.
Build(c) ==
  /\ command[c].step = "build"
  /\ \E x \in ComparisonsFor(Head(command[c].todo), command[c].preferred) :
       Become(c, [command[c] EXCEPT
         !.step = "save", !.draft = [basis |-> command[c].basis, embedded |-> x]])
  /\ UNCHANGED <<fixed, disk, history>>

Refused(run) == run.mismatched /\ ManifestOf(run.env).publishable

\* A build writes, and only then refuses a publishable run that was not served
\* by its own kind of provider.
Save(c) ==
  /\ command[c].step = "save"
  /\ LET r == Head(command[c].todo)
         rest == Tail(command[c].todo) IN
     /\ summary' = [summary EXCEPT ![r] = command[c].draft]
     /\ Become(c, IF Refused(evidence[r]) \/ rest = <<>> THEN Idle
                  ELSE [command[c] EXCEPT !.step = "build", !.todo = rest])
     /\ calm' = (calm /\ ~Refused(evidence[r]))
     /\ reported' = IF command[c].preferred = <<>>
                    THEN [reported EXCEPT ![r] = command[c].basis] ELSE reported
  /\ UNCHANGED <<fixed, file, writes, starts>>

Kill(c) ==
  /\ command[c] # Idle
  /\ Become(c, Idle)
  /\ calm' = FALSE
  /\ UNCHANGED <<fixed, disk, starts, reported>>

Next ==
  \E c \in Commands :
    \/ Report(c) \/ Compare(c) \/ ReadSecond(c) \/ WriteComparison(c)
    \/ Build(c) \/ Save(c) \/ Kill(c)

Spec == Init /\ [][Next]_vars
------------------------------------------------------------------------------
\* Every comparison there is, in a file of its own or embedded in a report.
Told == ({file[p] : p \in Pairs} \cup {summary[r].embedded : r \in Runs}) \ {Nothing}
Claims == {x \in Told : x.supported}
Win(x) == IF x.direction = "second" THEN 2 ELSE 1
Winner(x) == x.pair[Win(x)]
Loser(x) == x.pair[3 - Win(x)]

\* What a run really cost, the requests nobody could price included.
Dues(run) ==
  PerCorrect(PathCost(run, BySpan) +
               (IF run.mode = "private" THEN 0
                ELSE Total([i \in DOMAIN run.repeats |-> run.repeats[i].unpriced])),
             Correct(run))

\* A claim is true of the runs it is about, by their records: the winner cost less
\* for each task it got right, by the time its requests span, and was not worse.
\* The one thing that may make it false is a winner with requests that told no
\* usage, which aggregate_managed counts as free.  The costs it states agree if
\* neither report was built with measured hours, which the intervals do not know.
WinnerIsBetter ==
  \A x \in Claims :
    /\ \/ Dues(evidence[Winner(x)]) < Dues(evidence[Loser(x)])
       \/ \E i \in DOMAIN evidence[Winner(x)].repeats :
            evidence[Winner(x)].repeats[i].unpriced > 0
    /\ effect[<<Loser(x), Winner(x)>>].low >= 0
    /\ x.bases = <<BySpan, BySpan>> =>
         x.costs[Win(x)] < x.costs[3 - Win(x)]

\* Which of two runs is named first does not matter: no two comparisons of the
\* same two runs, however old, support different winners or disagree on whether
\* there is one.
OrderOfNamingIsFree ==
  \A x, y \in Told :
    {x.pair[1], x.pair[2]} = {y.pair[1], y.pair[2]} =>
      /\ x.supported = y.supported
      /\ x.supported => Winner(x) = Winner(y)

\* Both runs of a claim would be published, if their reports are: what the
\* comparison does not ask was asked by the manifest, the spelling of the local
\* default excepted.
ClaimsArePublishable ==
  \A x \in Claims : \A r \in {x.pair[1], x.pair[2]} :
    \/ Publishable(ManifestOf(evidence[r].env))
    \/ evidence[r].env.location \in {"blank", "spelled"}

\* As long as commands come one after the other and all of them end well, each
\* report embeds the newest comparison that mentions its run, whoever of the pair
\* is named first and whichever command built the report.
NewestEmbedded ==
  calm /\ (\A c \in Commands : command[c] = Idle) =>
    \A r \in Runs :
      IF Mentions(r) = {} THEN summary[r].embedded = Nothing
      ELSE /\ summary[r].embedded \in Mentions(r)
           /\ \A x \in Mentions(r) : summary[r].embedded.written >= x.written

\* The final report of a run keeps the measured hours its report command was given.
MeasuredCostStays ==
  (\A c \in Commands : command[c] = Idle) =>
    \A r \in Runs : reported[r] # BySpan => summary[r].basis = reported[r]
==============================================================================
