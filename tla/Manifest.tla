------------------------------ MODULE Manifest ------------------------------
(***************************************************************************)
(* Three gates that keep a run out of the evidence, in three places: the   *)
(* harness refuses to start a publishable run (benchmark/manifest.py), the *)
(* comparison does not support a claim about it (comparison.py), and the   *)
(* publisher refuses it (scripts/publish-run.py).  Each looks at what it   *)
(* is given in a way of its own.                                           *)
(*                                                                         *)
(* Texts are abstracted to what the gates tell apart: "local" is the very  *)
(* word of the local default, "spelled" the same word in another case or   *)
(* with blanks around it, "blank" is blanks only.                          *)
(***************************************************************************)

\* What the operator sets up for one run of the harness.
Environments ==
  [publishable : BOOLEAN,                           \* scenario.publishable
   autoscale   : BOOLEAN,                           \* the treatment is t5-autoscale
   cells       : BOOLEAN,                           \* the SLO document has all cells
   head        : {"known", "unknown"},              \* .git/HEAD
   sha         : {"sound", "other"},                \* BENCHMARK_GIT_SHA
   dirty       : {"unset", "true", "false", "odd"}, \* BENCHMARK_TREE_DIRTY
   override    : BOOLEAN,                           \* --allow-dirty
   location    : {"unset", "empty", "blank", "local", "spelled", "real"},
   node        : {"unset", "empty", "real"},
   kind        : {"unset", "empty", "real"},
   path        : {"unset", "empty", "real"},
   deploy      : {"none", "unsound", "sound", "keda"}]   \* DEPLOY_MANIFEST

\* RepositoryState.detect: a tree nobody vouches for is dirty.
Revision(env) == IF env.head = "known" \/ env.sha = "sound" THEN "known" ELSE "unknown"
Dirty(env) == env.dirty # "false"

\* The placement with its defaults.
Default(value) == IF value = "unset" THEN "local" ELSE value
Elsewhere(value) == Default(value) \notin {"empty", "local"}

\* Mutant of Vouched: the revision is not asked for.
VouchedByTree(env) == ~Dirty(env) \/ env.override

\* The source of a publishable run.
Vouched(env) == (~Dirty(env) \/ env.override) /\ Revision(env) = "known"

\* _validate_publishable_placement.
Placed(env) == Elsewhere(env.location) /\ Elsewhere(env.node) /\ Elsewhere(env.kind)

\* load_deploy_manifest does not raise.
Loads(env) == env.deploy # "unsound"

\* What build_manifest wants of the captured deployment.
Deployed(env) ==
  /\ Loads(env)
  /\ env.publishable => env.deploy # "none"
  /\ env.autoscale => env.deploy \in {"none", "keda"}

\* build_manifest does not refuse the run.
Admitted(env) ==
  /\ env.dirty # "odd" /\ env.cells
  /\ env.publishable => Vouched(env) /\ Placed(env)
  /\ Deployed(env)

ManifestOf(env) ==
  [publishable |-> env.publishable, sha |-> Revision(env),
   location |-> Default(env.location), node |-> Default(env.node),
   kind |-> Default(env.kind), path |-> Default(env.path)]

\* comparison.py _placement_is_non_local: any network path will do.
NonLocal(m) ==
  /\ m.location \notin {"empty", "local"}
  /\ m.node \notin {"empty", "local"}
  /\ m.kind \notin {"empty", "local"}
  /\ m.path # "empty"

\* publish-run.py _validate_source, of a run that has its files.
Publishable(m) ==
  /\ m.publishable
  /\ m.sha # "unknown"
  /\ m.location \notin {"empty", "blank", "local", "spelled"}
==============================================================================
