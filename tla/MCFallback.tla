----------------------------- MODULE MCFallback -----------------------------
(***************************************************************************)
(* Fallback on routes of one to three of two providers, one private and    *)
(* one external, among them a route that only leads out (which a           *)
(* restricted request finds empty) and one longer than max_attempts.       *)
(***************************************************************************)
EXTENDS Fallback

CONSTANTS private, managed

MCProviders == {private, managed}
MCExternal == {managed}
MCHints == {0, 2, 5}
MCFallbackOn == {"rate_limited", "timeout"}

AllOf(route) == [route |-> route, kept |-> DOMAIN route]

MCDecisions ==
  {AllOf(<<managed>>), AllOf(<<private, managed>>),
   AllOf(<<managed, private, managed>>)}
=============================================================================
