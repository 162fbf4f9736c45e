------------------------------ MODULE MCEvidence ------------------------------
(***************************************************************************)
(* Evidence on small instances.                                            *)
(***************************************************************************)
EXTENDS Evidence, TLC

Symmetry == Permutations(Builders) \cup Permutations(Publishers)
=============================================================================
