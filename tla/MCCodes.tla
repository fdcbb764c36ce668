------------------------------- MODULE MCCodes -------------------------------
(* OneTimeCodes on a small instance.                                       *)
EXTENDS OneTimeCodes

CONSTANTS c1, c2, d1
=============================================================================
