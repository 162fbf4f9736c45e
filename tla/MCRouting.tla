----------------------------- MODULE MCRouting -----------------------------
(***************************************************************************)
(* Routing on every policy document of one or two rules over a small       *)
(* vocabulary, with wildcards, empty match lists, an unlisted workload and *)
(* an undeclared provider.                                                 *)
(***************************************************************************)
EXTENDS Routing

CONSTANTS private, managed, unknown, listed, unlisted, public, economy, premium

MCDataClasses == {public, Restricted}
MCTiers == {economy, premium}
MCWorkloads == {listed, unlisted}
MCAllowlist == {listed}
MCProviders == {private, managed}
MCExternal == {managed}

MCRoutes ==
  {<<private>>, <<managed>>, <<private, managed>>, <<managed, private>>,
   <<private, unknown>>}

MCRules ==
  [dataClass : {Any, {}, {public}, {Restricted}, {public, Restricted}},
   workload : {Any, {listed}, {unlisted}},
   tier : {Any, {economy}},
   route : MCRoutes]

MCDocuments == {<<r>> : r \in MCRules} \cup MCRules \X MCRules
=============================================================================
