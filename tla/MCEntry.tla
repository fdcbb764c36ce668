------------------------------- MODULE MCEntry -------------------------------
(* SchoolEntry on a small instance.                                        *)
EXTENDS SchoolEntry, TLC

CONSTANTS c1, c2
Symmetry == Permutations(Clients)
=============================================================================
