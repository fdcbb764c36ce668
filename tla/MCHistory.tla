------------------------------ MODULE MCHistory ------------------------------
(* Instances of QueryHistory for TLC. *)
EXTENDS QueryHistory

CONSTANTS a, b
TwoReplicas == {a, b}
=============================================================================
