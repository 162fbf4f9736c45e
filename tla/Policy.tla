-------------------------------- MODULE Policy --------------------------------
(***************************************************************************)
(* Routing policies: select_route (routing/policy.py) and the validators   *)
(* config/schema.py puts in front of it, as operators.                     *)
(*                                                                         *)
(* A policy document is a sequence of rules; a rule is a match block and a *)
(* route, the providers to try in order.  Removing providers from a route  *)
(* keeps the order of the others, so what the router and the executor keep *)
(* of a route is written as the set of the positions they keep.            *)
(***************************************************************************)
EXTENDS Naturals

CONSTANTS
  DataClasses,  \* the members of models/enums.py DataClass
  Restricted,   \* DataClass.RESTRICTED
  Tiers,        \* the members of QualityTier
  Workloads,    \* the workload identifiers a document may mention
  Allowlist,    \* RoutingPolicy.workloads, a subset of Workloads
  Providers,    \* the provider names the document declares
  External,     \* those whose external flag is set
  Any,          \* a match field that is None, the wildcard
  Denied        \* PolicyDenied was raised

ASSUME ClassAssumption == Restricted \in DataClasses
ASSUME ProviderAssumption == External \subseteq Providers
ASSUME WildcardAssumption ==
  \A values \in {DataClasses, Workloads, Tiers} : \A S \in SUBSET values : S # Any

------------------------------------------------------------------------------
\* Operators on rules.  A rule is [dataClass, workload, tier, route].

Accepts(field, value) == field = Any \/ value \in field

Matches(rule, req) ==
  /\ Accepts(rule.dataClass, req.dataClass)
  /\ Accepts(rule.workload, req.workload)
  /\ Accepts(rule.tier, req.tier)

\* The positions of a route that survive the removal of external providers.
PrivatePositions(route) == {i \in DOMAIN route : route[i] \notin External}

\* Mutant of KeptPositions: the runtime stripping is lost.
KeptPositionsUnfiltered(route, dataClass) == DOMAIN route

\* What select_route leaves of the route of the rule it chose.
KeptPositions(route, dataClass) ==
  IF dataClass = Restricted THEN PrivatePositions(route) ELSE DOMAIN route

MatchingRules(rules, req) == {r \in DOMAIN rules : Matches(rules[r], req)}

\* Mutant of IsFirst: the last match wins.
IsLast(r, S) == r \in S /\ \A s \in S : s <= r

IsFirst(r, S) == r \in S /\ \A s \in S : r <= s

Decide(r, kept) == IF kept = {} THEN Denied ELSE [rule |-> r, kept |-> kept]

\* The first matching rule wins; a rule left with nothing denies, and does not
\* hand the request to a later rule.
SelectRoute(rules, req) ==
  LET matching == MatchingRules(rules, req) IN
  IF matching = {}
  THEN Denied
  ELSE LET r == CHOOSE i \in matching : IsFirst(i, matching)
       IN Decide(r, KeptPositions(rules[r].route, req.dataClass))

\* workload_identifiers_are_bounded
WorkloadsBounded(rules) ==
  \A r \in DOMAIN rules :
    rules[r].workload \in {Any} \cup SUBSET Allowlist

\* Mutant of RestrictedIsPrivate: a wildcard data class is not seen to match
\* restricted requests.
RestrictedIsPrivateNoWildcard(rule) ==
  (rule.dataClass # Any /\ Restricted \in rule.dataClass) =>
    \A i \in DOMAIN rule.route : rule.route[i] \notin External

\* routes_are_known_and_restricted_is_private
RestrictedIsPrivate(rule) ==
  Accepts(rule.dataClass, Restricted) =>
    \A i \in DOMAIN rule.route : rule.route[i] \notin External

RoutesKnownAndPrivate(rules) ==
  \A r \in DOMAIN rules :
    /\ \A i \in DOMAIN rules[r].route : rules[r].route[i] \in Providers
    /\ RestrictedIsPrivate(rules[r])

ValidPolicy(rules) == WorkloadsBounded(rules) /\ RoutesKnownAndPrivate(rules)

\* The metadata of a request that passed admission.
Requests == [dataClass : DataClasses, workload : Allowlist, tier : Tiers]
=============================================================================
