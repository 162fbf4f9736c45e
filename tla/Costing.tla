------------------------------- MODULE Costing -------------------------------
(***************************************************************************)
(* What a run costs for each task it got right: costing/engine.py as       *)
(* benchmark/report.py uses it.  A run is told by the kinds of providers   *)
(* that served it, and by its repeats, each with the seconds its requests  *)
(* span, what its managed requests cost and how many tasks were right.     *)
(*                                                                         *)
(* Costs are exact decimals in the code; here they are integers in a unit  *)
(* small enough for the quotients of the instance to be exact.  The rates  *)
(* of the GPU, the CPU and the model's storage are one rate.               *)
(***************************************************************************)
EXTENDS Integers, FiniteSetsExt, Functions

CONSTANTS
  Minimum,   \* private.minimum_billing_seconds
  Rate,      \* of the private nodes, a second
  Shared,    \* of the platform and its operations, a second
  Unit,      \* the unit of costs
  NoCost     \* None

ASSUME CostingAssumption ==
  /\ Minimum \in Nat /\ Rate \in Nat /\ Shared \in Nat
  /\ Unit \in Nat \ {0}
  /\ NoCost \notin Int

\* What a repeat is told by.
Repeats == [seconds : Nat, managed : Nat, unpriced : Nat, correct : Nat, successes : Nat]

Total(f) == FoldFunction(+, 0, f)

Correct(run) == Total([i \in DOMAIN run.repeats |-> run.repeats[i].correct])

\* The time of each repeat that is billed by its span.
Span(run) ==
  [i \in DOMAIN run.repeats |->
     IF run.repeats[i].seconds < Minimum THEN Minimum ELSE run.repeats[i].seconds]

\* _private_billed_hours: the operator's measurement, if there is one, in the
\* place of the spans.
BySpan == 0
Billed(run, basis) == IF basis = BySpan THEN Total(Span(run)) ELSE basis

\* What each repeat adds to a path's cost, as the intervals have it: by its span.
Managed(run) == [i \in DOMAIN run.repeats |-> run.repeats[i].managed]
Private(run) == [i \in DOMAIN run.repeats |-> Span(run)[i] * Rate]
Numerators(run) ==
  CASE run.mode = "managed" -> Managed(run)
    [] run.mode = "private" -> Private(run)
    [] run.mode = "hybrid" ->
         [i \in DOMAIN run.repeats |-> Managed(run)[i] + Private(run)[i]]

\* The cost of the path the run is about, by what is billed.
PathCost(run, basis) ==
  CASE run.mode = "managed" -> Total(Managed(run))
    [] run.mode = "private" -> Billed(run, basis) * Rate
    [] run.mode = "hybrid" -> Total(Managed(run)) + Billed(run, basis) * Rate

\* CostEngine.view.
PerCorrect(total, correct) == IF correct = 0 THEN NoCost ELSE (total * Unit) \div correct

Priced(run) == run.mode \in {"managed", "private", "hybrid"}

ViewA(run, basis) ==
  IF Priced(run) THEN PerCorrect(PathCost(run, basis), Correct(run)) ELSE NoCost

\* The platform and its operations are added to each path alike.
ViewB(run, basis) ==
  IF Priced(run)
  THEN PerCorrect(PathCost(run, basis) + Billed(run, basis) * Shared, Correct(run))
  ELSE NoCost

\* repeat_ratio_ci: the percentiles of at most three repeats, drawn again and
\* again, are the least and the greatest ratio of a repeat.  A path with a managed
\* part has an interval only if records show that its providers were used.
Shown(run) ==
  /\ run.mode \in {"managed", "hybrid"} => "managed" \in run.providers
  /\ run.mode = "hybrid" => "private" \in run.providers

Bounded(run) ==
  /\ Priced(run) /\ Shown(run)
  /\ \A i \in DOMAIN run.repeats : run.repeats[i].correct > 0

Interval(run) ==
  LET ratios == {PerCorrect(Numerators(run)[i], run.repeats[i].correct) :
                   i \in DOMAIN run.repeats}
  IN  [low |-> Min(ratios), high |-> Max(ratios)]
==============================================================================
