--------------------------- MODULE MCFaultEvidence ---------------------------
(***************************************************************************)
(* Two commands that may draw the same port, and the sequence of           *)
(* config/local/fault-sequence.yaml.                                       *)
(***************************************************************************)
EXTENDS FaultEvidence

MCServices == [owner : Commands, inside : BOOLEAN]
MCStretches == {<<1, 2, 3>>, <<4, 5, 6>>}
MCSequence == <<"ok", "stream_ok", "ok">>
==============================================================================
