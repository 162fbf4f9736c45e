---------------------------- MODULE RoutingProofs ----------------------------
(***************************************************************************)
(* Proofs about the policy router, for every set of policy documents and   *)
(* every vocabulary.  The inductive invariant, RInv, says that a decision  *)
(* is the router's answer on the document read, and that an accepted       *)
(* document is a valid one.                                                *)
(***************************************************************************)
EXTENDS Routing, WellFoundedInduction, TLAPS

RInv ==
  /\ document \in Documents
  /\ accepted \in BOOLEAN
  /\ accepted => ValidPolicy(document)
  /\ decision = NoDecision => request = NoDecision
  /\ decision # NoDecision =>
       request \in Requests /\ decision = SelectRoute(document, request)

------------------------------------------------------------------------------
\* Some rule comes first among those that match, if any does.
LEMMA FirstExists ==
  ASSUME NEW S \in SUBSET Nat, S # {}
  PROVE  \E r \in S : IsFirst(r, S)
<1>1. PICK r \in S : \A s \in S : ~(<<s, r>> \in OpToRel(<, Nat))
  BY NatLessThanWellFounded, WFMin
<1>2. \A s \in S : ~(s < r)
  BY <1>1 DEF OpToRel
<1>3. \A s \in S : r <= s
  BY <1>2
<1> QED BY <1>3 DEF IsFirst

\* The router denies what no rule matches, and answers from the first match.
LEMMA RouterCases ==
  ASSUME NEW d \in Documents, NEW req
  PROVE  \/ /\ MatchingRules(d, req) = {}
            /\ SelectRoute(d, req) = Denied
         \/ \E r \in MatchingRules(d, req) :
              /\ IsFirst(r, MatchingRules(d, req))
              /\ SelectRoute(d, req) =
                   Decide(r, KeptPositions(d[r].route, req.dataClass))
<1> DEFINE M == MatchingRules(d, req)
<1>1. CASE M = {}
  BY <1>1 DEF SelectRoute
<1>2. CASE M # {}
  <2>1. M \in SUBSET Nat
    BY DocumentAssumption DEF MatchingRules
  <2>2. \E r \in M : IsFirst(r, M)
    BY <1>2, <2>1, FirstExists
  <2>3. PICK r \in M : r = CHOOSE i \in M : IsFirst(i, M)
    BY <2>2
  <2>4. IsFirst(r, M)
    BY <2>2, <2>3
  <2>5. SelectRoute(d, req) = Decide(r, KeptPositions(d[r].route, req.dataClass))
    BY <1>2, <2>3 DEF SelectRoute
  <2> QED BY <2>4, <2>5
<1> QED BY <1>1, <1>2

\* What is kept of a route are positions of it, none of them external for
\* restricted data.
LEMMA KeptIsPermitted ==
  ASSUME NEW route, NEW class
  PROVE  /\ KeptPositions(route, class) \subseteq DOMAIN route
         /\ class = Restricted =>
              \A i \in KeptPositions(route, class) : route[i] \notin External
BY DEF KeptPositions, PrivatePositions

------------------------------------------------------------------------------
LEMMA RInit == Init => RInv
BY DEF Init, RInv

LEMMA RNext == RInv /\ [Next]_vars => RInv'
<1> SUFFICES ASSUME RInv, [Next]_vars PROVE RInv'
  OBVIOUS
<1>1. CASE Validate
  BY <1>1 DEF RInv, Validate
<1>2. ASSUME NEW req \in Requests, Route(req) PROVE RInv'
  <2>1. decision' = SelectRoute(document, req) /\ request' = req
    BY <1>2 DEF Route
  <2>2. decision' # NoDecision
    BY <2>1, RouterCases, DecisionAssumption, KeptIsPermitted
       DEF RInv, Decide, MatchingRules
  <2> QED BY <1>2, <2>1, <2>2 DEF RInv, Route
<1>3. CASE UNCHANGED vars
  BY <1>3 DEF RInv, vars
<1> QED BY <1>1, <1>2, <1>3 DEF Next

THEOREM RSafe == Spec => []RInv
BY RInit, RNext, PTL DEF Spec

\* What a decision can be, in a reachable state.
LEMMA Decisions ==
  ASSUME RInv
  PROVE  LET matching == MatchingRules(document, request) IN
         \/ decision = NoDecision
         \/ decision = Denied /\ matching = {}
         \/ \E r \in matching :
              /\ IsFirst(r, matching)
              /\ LET kept == KeptPositions(document[r].route, request.dataClass) IN
                 /\ kept \subseteq DOMAIN document[r].route
                 /\ \/ kept = {} /\ decision = Denied
                    \/ kept # {} /\ Routed /\ decision = [rule |-> r, kept |-> kept]
<1>1. CASE decision = NoDecision
  BY <1>1
<1>2. CASE decision # NoDecision
  BY <1>2, RouterCases, KeptIsPermitted, DecisionAssumption
     DEF RInv, Decide, Routed, MatchingRules
<1> QED BY <1>1, <1>2

------------------------------------------------------------------------------
\* A decision names a rule of the document and a non-empty part of its route
\* (RouteDecision, select_route), for every document.
THEOREM RoutingTypeCorrect == Spec => []TypeOK
<1>1. RInv => TypeOK
  <2> SUFFICES ASSUME RInv PROVE TypeOK
    OBVIOUS
  <2>1. request \in Requests \cup {NoDecision}
    BY DEF RInv
  <2>2. \/ decision \in {NoDecision, Denied}
        \/ /\ decision.rule \in DOMAIN document
           /\ decision.kept \in SUBSET DOMAIN document[decision.rule].route
           /\ decision.kept # {}
    <3> DEFINE kept(r) == KeptPositions(document[r].route, request.dataClass)
    <3>1. SUFFICES ASSUME NEW r \in MatchingRules(document, request),
                          kept(r) \subseteq DOMAIN document[r].route,
                          kept(r) # {},
                          decision = [rule |-> r, kept |-> kept(r)]
                   PROVE  /\ decision.rule \in DOMAIN document
                          /\ decision.kept \in SUBSET DOMAIN document[decision.rule].route
                          /\ decision.kept # {}
      BY Decisions
    <3> QED BY <3>1 DEF MatchingRules
  <2> QED BY <2>1, <2>2 DEF TypeOK, RInv
<1> QED BY <1>1, RSafe, PTL

\* Restricted data fails closed for every document, validated or not.
THEOREM RestrictedDataFailsClosed == Spec => []RestrictedFailsClosed
<1>1. RInv => RestrictedFailsClosed
  BY Decisions, KeptIsPermitted DEF RestrictedFailsClosed, DecidedRule, Routed
<1> QED BY <1>1, RSafe, PTL

\* The first rule in declaration order that matches decides.
THEOREM FirstMatchDecides == Spec => []FirstMatchWins
<1>1. RInv => FirstMatchWins
  <2> SUFFICES ASSUME RInv PROVE FirstMatchWins
    OBVIOUS
  <2> DEFINE matching == MatchingRules(document, request)
  <2>1. Routed => \A r \in matching : decision.rule <= r
    BY Decisions DEF Routed, IsFirst
  <2>2. ASSUME decision = Denied, NEW r \in matching,
               \A s \in matching : r <= s
        PROVE  KeptPositions(document[r].route, request.dataClass) = {}
    <3>1. PICK q \in matching :
            /\ IsFirst(q, matching)
            /\ KeptPositions(document[q].route, request.dataClass) = {}
      BY <2>2, Decisions, DecisionAssumption DEF Routed
    <3>2. matching \subseteq Nat
      BY DocumentAssumption DEF RInv, MatchingRules
    <3>3. q = r
      BY <2>2, <3>1, <3>2 DEF IsFirst
    <3> QED BY <3>1, <3>3
  <2> QED BY <2>1, <2>2 DEF FirstMatchWins
<1> QED BY <1>1, RSafe, PTL

\* On a document the validators accepted the router's own stripping is idle.
THEOREM ValidatorsCoverRouter == Spec => []ValidationMakesStrippingIdle
<1>1. ASSUME RInv, accepted, NEW r \in MatchingRules(document, request),
             decision # NoDecision
      PROVE  KeptPositions(document[r].route, request.dataClass)
               = DOMAIN document[r].route
  <2>1. CASE request.dataClass = Restricted
    <3>1. Accepts(document[r].dataClass, Restricted)
      BY <1>1, <2>1 DEF MatchingRules, Matches
    <3>2. \A i \in DOMAIN document[r].route : document[r].route[i] \notin External
      BY <1>1, <3>1
         DEF RInv, ValidPolicy, RoutesKnownAndPrivate, RestrictedIsPrivate,
             MatchingRules
    <3> QED BY <2>1, <3>2 DEF KeptPositions, PrivatePositions
  <2>2. CASE request.dataClass # Restricted
    BY <2>2 DEF KeptPositions
  <2> QED BY <2>1, <2>2
<1>2. RInv => ValidationMakesStrippingIdle
  <2> SUFFICES ASSUME RInv, accepted
               PROVE  /\ Routed => decision.kept = DOMAIN DecidedRule.route
                      /\ decision = Denied => MatchingRules(document, request) = {}
    BY DEF ValidationMakesStrippingIdle
  <2>1. CASE decision = NoDecision
    BY <2>1, DecisionAssumption DEF Routed
  <2>2. CASE decision # NoDecision
    <3>1. Routed => decision.kept = DOMAIN DecidedRule.route
      BY <1>1, <2>2, Decisions DEF Routed, DecidedRule
    <3>2. ASSUME decision = Denied, NEW r \in MatchingRules(document, request)
          PROVE  KeptPositions(document[r].route, request.dataClass) # {}
      BY <1>1, <2>2, DocumentAssumption DEF RInv, MatchingRules
    <3>3. decision = Denied => MatchingRules(document, request) = {}
      BY <3>2, Decisions, <2>2 DEF Routed
    <3> QED BY <3>1, <3>3
  <2> QED BY <2>1, <2>2
<1> QED BY <1>2, RSafe, PTL
=============================================================================
