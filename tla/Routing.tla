------------------------------- MODULE Routing -------------------------------
(***************************************************************************)
(* The deterministic policy router as a state machine: a policy document   *)
(* is read, accepted or refused by the validators, and then asked for a    *)
(* decision.  Decisions are also taken on refused documents, as            *)
(* select_route promises a runtime invariant that does not depend on the   *)
(* validation.                                                             *)
(***************************************************************************)
EXTENDS Policy

CONSTANTS
  NoDecision,  \* no decision has been taken yet
  Documents    \* the policy documents that may be read

ASSUME DocumentAssumption ==
  \A d \in Documents :
    DOMAIN d \subseteq Nat /\ \A r \in DOMAIN d : DOMAIN d[r].route # {}
ASSUME DecisionAssumption ==
  /\ Denied # NoDecision
  /\ \A d \in Documents : \A r \in DOMAIN d :
       \A kept \in SUBSET DOMAIN d[r].route :
         [rule |-> r, kept |-> kept] \notin {Denied, NoDecision}

VARIABLES
  document,  \* the RoutingPolicy.rules that were read
  accepted,  \* whether RoutingPolicy validated them, so that they serve
  request,   \* the request metadata of the last decision
  decision   \* the RouteDecision of the last request

vars == <<document, accepted, request, decision>>

------------------------------------------------------------------------------
Init ==
  /\ document \in Documents
  /\ accepted = FALSE
  /\ request = NoDecision
  /\ decision = NoDecision

\* Validation when the configuration is loaded; a refused document does not
\* serve, the process does not start.
Validate ==
  /\ ~accepted
  /\ decision = NoDecision
  /\ ValidPolicy(document)
  /\ accepted' = TRUE
  /\ UNCHANGED <<document, request, decision>>

\* A decision on a refused document stands for a policy built without the
\* validators (model_copy(update=...) skips them); its providers are known, the
\* lookup of an unknown one is not modelled.
Route(req) ==
  /\ decision = NoDecision
  /\ \A r \in DOMAIN document : \A i \in DOMAIN document[r].route :
       document[r].route[i] \in Providers
  /\ request' = req
  /\ decision' = SelectRoute(document, req)
  /\ UNCHANGED <<document, accepted>>

Next == Validate \/ \E req \in Requests : Route(req)

Spec == Init /\ [][Next]_vars

------------------------------------------------------------------------------
\* A decision names a rule of the document and positions of its route.
TypeOK ==
  /\ document \in Documents
  /\ accepted \in BOOLEAN
  /\ request \in Requests \cup {NoDecision}
  /\ \/ decision \in {NoDecision, Denied}
     \/ /\ decision.rule \in DOMAIN document
        /\ decision.kept \in SUBSET DOMAIN document[decision.rule].route
        /\ decision.kept # {}

Routed == decision \notin {NoDecision, Denied}

DecidedRule == document[decision.rule]

\* Restricted data fails closed: whatever the document says, validated or not,
\* a decision for a restricted request keeps no external provider
\* (policy.py module docstring, "independent of the load-time validation").
RestrictedFailsClosed ==
  Routed /\ request.dataClass = Restricted =>
    \A i \in decision.kept : DecidedRule.route[i] \notin External

\* The two layers agree: on a document the validators accepted, the router
\* removes nothing, and it denies only a request no rule matches.
ValidationMakesStrippingIdle ==
  accepted =>
    /\ Routed => decision.kept = DOMAIN DecidedRule.route
    /\ decision = Denied => MatchingRules(document, request) = {}

\* Declaration order decides (policy.py, "evaluated in declaration order"): no
\* rule before the chosen one accepts the request, and a request is denied only
\* when its first matching rule is left with nothing.
FirstMatchWins ==
  LET matching == MatchingRules(document, request) IN
  /\ Routed => \A r \in matching : decision.rule <= r
  /\ decision = Denied =>
       \A r \in matching :
         (\A s \in matching : r <= s) =>
           KeptPositions(document[r].route, request.dataClass) = {}

=============================================================================
