--------------------------- MODULE FallbackContract ---------------------------
(***************************************************************************)
(* What the fallback executor promises its caller, without clocks, error   *)
(* classes or adapters: a request tries a bounded number of providers, one *)
(* after the other; once output of one of them has been handed over no     *)
(* other is tried; it ends once, in one verdict, and a failure after       *)
(* output is a verdict of its own.                                         *)
(***************************************************************************)
EXTENDS Naturals

CONSTANT Limit  \* FallbackConfig.max_attempts, at least one

VARIABLES
  tried,      \* how many providers have been called
  committed,  \* whether output has been handed to the caller
  verdict     \* how the request ended, "open" while it runs

vars == <<tried, committed, verdict>>

Verdicts == {"open", "success", "failed", "partial", "aborted"}

Init == tried = 0 /\ committed = FALSE /\ verdict = "open"

Try ==
  /\ verdict = "open"
  /\ ~committed
  /\ tried < Limit
  /\ tried' = tried + 1
  /\ UNCHANGED <<committed, verdict>>

Deliver ==
  /\ verdict = "open"
  /\ tried > 0
  /\ committed' = TRUE
  /\ UNCHANGED <<tried, verdict>>

Succeed ==
  /\ verdict = "open"
  /\ tried > 0
  /\ verdict' = "success"
  /\ UNCHANGED <<tried, committed>>

\* A failure is told apart by whether the caller already holds output.
Fail ==
  /\ verdict = "open"
  /\ verdict' = IF committed THEN "partial" ELSE "failed"
  /\ UNCHANGED <<tried, committed>>

\* The caller went away, or an adapter raised what the executor does not catch.
Abort ==
  /\ verdict = "open"
  /\ verdict' = "aborted"
  /\ UNCHANGED <<tried, committed>>

Next == Try \/ Deliver \/ Succeed \/ Fail \/ Abort

Spec == Init /\ [][Next]_vars /\ <>(verdict # "open")
===============================================================================
