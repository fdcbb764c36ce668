------------------------------- MODULE MCQuery -------------------------------
(* SchoolQuery on a small instance.                                        *)
EXTENDS SchoolQuery

CONSTANTS q1, q2
=============================================================================
