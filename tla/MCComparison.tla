----------------------------- MODULE MCComparison -----------------------------
(***************************************************************************)
(* A managed, a private and a hybrid run, the last in another directory.   *)
(* Costs and manifests vary one at a time around runs that are sound.      *)
(***************************************************************************)
EXTENDS Comparison, TLC, FiniteSets

CONSTANTS t0, t1, t3, c1, c2

MCHome == [r \in Runs |-> IF r = t3 THEN "other" ELSE "raw"]

Sound0 == [publishable |-> TRUE, autoscale |-> FALSE, cells |-> TRUE, head |-> "known",
           sha |-> "other", dirty |-> "false", override |-> FALSE, location |-> "real",
           node |-> "real", kind |-> "real", path |-> "unset", deploy |-> "sound"]
Environs == {e \in Environments :
  /\ Admitted(e)
  /\ Cardinality({f \in DOMAIN e : e[f] # Sound0[f]}) <= 1}

Repeat(seconds, managed, unpriced, correct) ==
  [seconds |-> seconds, managed |-> managed, unpriced |-> unpriced,
   correct |-> correct, successes |-> 2]

Run(env, mode, repeats) ==
  [env |-> env, mode |-> mode, repeats |-> repeats, measured |-> 30,
   providers |-> IF mode = "hybrid" THEN {"managed", "private"} ELSE {mode},
   dataset |-> "d1", cell |-> "WL-01/balanced", mismatched |-> FALSE]

Served == <<Repeat(1, 0, 0, 2), Repeat(3, 0, 0, 2), Repeat(4, 0, 0, 1)>>
Bought(a, b, u) == <<Repeat(1, a, u, 2), Repeat(1, a, 0, 2), Repeat(1, b, 0, 1)>>
Mixed == <<Repeat(1, 1, 0, 2), Repeat(1, 2, 0, 2), Repeat(2, 1, 0, 1)>>

Managed0 == {Run(Sound0, "managed", Bought(a, b, u)) :
               a \in {1, 9}, b \in {1, 2, 9}, u \in {0, 8}}
Private1 == Run(Sound0, "private", Served)
Odd1 == {[Private1 EXCEPT !.env = e] : e \in Environs} \cup
        {[Private1 EXCEPT !.mismatched = TRUE], [Private1 EXCEPT !.dataset = "d2"],
         [Private1 EXCEPT !.cell = "WL-01/economy"],
         [Private1 EXCEPT !.mode = "local-mock"], [Private1 EXCEPT !.mode = "hybrid"],
         [Private1 EXCEPT !.mode = "managed", !.mismatched = TRUE],
         [Private1 EXCEPT !.repeats = SubSeq(Served, 1, 2)],
         [Private1 EXCEPT !.repeats[3].correct = 0],
         [Private1 EXCEPT !.repeats[3].successes = 0]}
Hybrid3 == Run(Sound0, "hybrid", Mixed)

Assigned(a, b) == (t0 :> a) @@ (t1 :> b) @@ (t3 :> Hybrid3)
Costs == {Assigned(a, Private1) : a \in Managed0}
Manifests == {Assigned(Run(Sound0, "managed", Bought(9, 9, 0)), b) : b \in Odd1}

Bounds(low, high) == [low |-> low, high |-> high]
Effect(x) ==
  [p \in Pairs |-> CASE p = <<t0, t1>> -> x
                     [] p = <<t1, t0>> /\ x = NoEffect -> x
                     [] p = <<t1, t0>> /\ x # NoEffect -> Bounds(-x.high, -x.low)
                     [] OTHER -> Bounds(0, 0)]
Effects == {Effect(Bounds(l, h)) : l \in {-1, 0}, h \in {0, 1}}

MCCases ==
  [evidence : Costs, effect : Effects, starts : {2}] \cup
  [evidence : Manifests, effect : {Effect(Bounds(0, 1))}, starts : {2}] \cup
  [evidence : {Assigned(Run(Sound0, "managed", Bought(9, 9, 0)), Private1)},
   effect : {Effect(Bounds(0, 1)), Effect(NoEffect)}, starts : {3}]
Symmetry == Permutations(Commands)
==============================================================================
