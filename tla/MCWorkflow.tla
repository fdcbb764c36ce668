----------------------------- MODULE MCWorkflow -----------------------------
(* Workflow on a small instance.                                           *)
EXTENDS Workflow

CONSTANTS r1, j1, j2
=============================================================================
