----------------------------- MODULE MCGateway -----------------------------
(***************************************************************************)
(* Gateway with two providers and three policies: one the validators       *)
(* accept, one that leads restricted data out, one that denies public      *)
(* data.                                                                   *)
(***************************************************************************)
EXTENDS Gateway

CONSTANTS private, managed, public, generic, economy

MCProviders == {private, managed}
MCExternal == {managed}
MCHints == {1}
MCFallbackOn == {"rate_limited", "timeout"}
MCDataClasses == {public, Restricted}
MCTiers == {economy}
MCWorkloads == {generic}

Rule(class, route) ==
  [dataClass |-> class, workload |-> Wildcard, tier |-> Wildcard, route |-> route]

MCPolicies ==
  {<<Rule({Restricted}, <<private>>), Rule(Wildcard, <<private, managed>>)>>,
   <<Rule(Wildcard, <<managed, private>>)>>,
   <<Rule({Restricted}, <<managed, private, managed>>)>>}

AllOf(route) == [route |-> route, kept |-> DOMAIN route]

MCDecisions ==
  {AllOf(<<private>>), AllOf(<<private, managed>>), AllOf(<<managed, private>>),
   [route |-> <<managed, private>>, kept |-> {2}],
   AllOf(<<managed, private, managed>>),
   [route |-> <<managed, private, managed>>, kept |-> {2}]}
=============================================================================
