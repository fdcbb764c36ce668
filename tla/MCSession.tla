----------------------------- MODULE MCSession -----------------------------
(* Instances of SessionStore for TLC.                                         *)
EXTENDS SessionStore, TLC

Symmetry == Permutations(Users) \cup Permutations(Calls)
=============================================================================
