----------------------------- MODULE MCJobQueue -----------------------------
(* Instances of JobQueue for TLC. *)
EXTENDS JobQueue, TLC

CONSTANTS w1, w2, s1, s2, r1, r2, f1, f2

MCWorkers      == {w1, w2}
MCSubmitters   == {s1, s2}
MCReapers      == {r1, r2}
MCFingerprints == {f1, f2}

=============================================================================
