--------------------------- MODULE JobQueueProofs ---------------------------
(***************************************************************************)
(* Theorems about JobQueue, for every number of workers, submitters, jobs  *)
(* and every bound.                                                        *)
(***************************************************************************)
EXTENDS JobQueue, FiniteSetTheorems, WellFoundedInduction, TLAPS

-----------------------------------------------------------------------------
(* Type correctness.  TypeOK alone is not inductive: a step that uses the  *)
(* job of a process needs to know that the process has one.                *)

SubmitterHasJob ==
  \A s \in Submitters : spc[s] # "idle" => /\ sjob[s] \in 1..issued
                                          /\ fpOf[sjob[s]] \in Fingerprints
WorkerHasJob == \A w \in Workers : wpc[w] # "idle" => wjob[w] \in Jobs
ReaperHasJob == \A r \in Reapers : rpc[r] \notin {"idle", "next"} => rjob[r] \in Jobs

TypeInv == TypeOK /\ SubmitterHasJob /\ WorkerHasJob /\ ReaperHasJob

\* The head of a non-empty queue is one of its jobs, and no later than any other.
LEMMA FirstIsLeast ==
  ASSUME NEW S \in SUBSET Jobs, S # {}
  PROVE  /\ First(S) \in S
         /\ \A k \in S : First(S) <= k
  <1> DEFINE R == OpToRel(<, Nat)
  <1>1. S \subseteq Nat
    BY BoundsAssumption DEF Jobs
  <1>2. \A x, y \in Nat : <<y, x>> \in R <=> y < x
    BY DEF OpToRel
  <1>3. IsWellFoundedOn(R, Nat)
    BY NatLessThanWellFounded
  <1> HIDE DEF R
  <1>4. PICK x \in S : \A y \in S : ~(<<y, x>> \in R)
    BY <1>1, <1>3, WFMin, Zenon
  <1>5. \A y \in S : ~(y < x)
    BY <1>1, <1>2, <1>4, Zenon
  <1>6. \A y \in S : x <= y
    BY <1>1, <1>5
  <1> QED
    BY <1>6 DEF First

\* The ranges the types are made of, for proofs that need not open them.
LEMMA Ranges ==
  /\ Jobs \subseteq 0..MaxJobs /\ 0 \in 0..MaxJobs /\ 0 \notin Jobs
  /\ Jobs = 1..MaxJobs /\ MaxJobs \in Nat
  /\ 0 \in 0..ResultTTL /\ ResultTTL \in 0..ResultTTL /\ ExpiredTTL \in 0..ResultTTL
  /\ 0 \in 0..RunTimeout /\ RunTimeout \in 0..RunTimeout
  /\ 0 \in 0..StaleAfter
  /\ {"queued", "running", "success", "failed", "none"} \subseteq States
  BY BoundsAssumption DEF Jobs, States, Live

\* What a step leaves alone keeps its type.
LEMMA Frame ==
  /\ ZsetsOK /\ UNCHANGED zsetVars => ZsetsOK'
  /\ KeysOK /\ UNCHANGED keyVars => KeysOK'
  /\ LocksOK /\ UNCHANGED lockVars => LocksOK'
  /\ SubmittersOK /\ SubmitterHasJob /\ UNCHANGED <<submitterVars, fpOf>>
     => SubmittersOK' /\ SubmitterHasJob'
  /\ WorkersOK /\ WorkerHasJob /\ UNCHANGED workerVars => WorkersOK' /\ WorkerHasJob'
  /\ ReapersOK /\ ReaperHasJob /\ UNCHANGED reaperVars => ReapersOK' /\ ReaperHasJob'
  <1>1. ZsetsOK /\ UNCHANGED zsetVars => ZsetsOK'
    BY DEF ZsetsOK, zsetVars
  <1>2. KeysOK /\ UNCHANGED keyVars => KeysOK'
    BY DEF KeysOK, keyVars
  <1>3. LocksOK /\ UNCHANGED lockVars => LocksOK'
    BY DEF LocksOK, lockVars
  <1>4. SubmittersOK /\ SubmitterHasJob /\ UNCHANGED <<submitterVars, fpOf>>
        => SubmittersOK' /\ SubmitterHasJob'
    BY DEF SubmittersOK, SubmitterHasJob, submitterVars
  <1>5. WorkersOK /\ WorkerHasJob /\ UNCHANGED workerVars => WorkersOK' /\ WorkerHasJob'
    BY DEF WorkersOK, WorkerHasJob, workerVars
  <1>6. ReapersOK /\ ReaperHasJob /\ UNCHANGED reaperVars => ReapersOK' /\ ReaperHasJob'
    BY DEF ReapersOK, ReaperHasJob, reaperVars
  <1> QED
    BY <1>1, <1>2, <1>3, <1>4, <1>5, <1>6

\* complete() keeps the types of the keys it writes.
LEMMA FinishKeepsKeys ==
  ASSUME KeysOK, NEW j \in Jobs, NEW outcome \in States, NEW fp \in Fingerprints \cup {Nobody},
         NEW ttl \in 0..ResultTTL, Finish(j, outcome, fp, ttl)
  PROVE  KeysOK'
  <1>1. /\ state' \in [Jobs -> States] /\ sttl' \in [Jobs -> 0..ResultTTL]
        /\ pttl' \in [Jobs -> 0..ResultTTL]
    BY Ranges DEF Finish, WriteStatus, KeysOK
  <1>2. dedupe' \in [Fingerprints -> 0..MaxJobs] /\ dttl' \in [Fingerprints -> 0..ResultTTL]
    BY Ranges DEF Finish, DeleteDedupe, KeysOK
  <1> QED
    BY <1>1, <1>2 DEF KeysOK

\* The initial state is well typed.
LEMMA TypeInit == Init => TypeInv
  <1> SUFFICES ASSUME Init PROVE TypeInv
    OBVIOUS
  <1> USE BoundsAssumption DEF Init, Jobs
  <1>1. ZsetsOK /\ KeysOK /\ LocksOK
    BY DEF ZsetsOK, KeysOK, LocksOK, States
  <1>2. SubmittersOK /\ SubmitterHasJob
    BY DEF SubmittersOK, SubmitterHasJob, SubmitterPoints
  <1>3. WorkersOK /\ WorkerHasJob
    BY DEF WorkersOK, WorkerHasJob, WorkerPoints, States
  <1>4. ReapersOK /\ ReaperHasJob
    BY DEF ReapersOK, ReaperHasJob, ReaperPoints
  <1> QED
    BY <1>1, <1>2, <1>3, <1>4 DEF TypeInv, TypeOK

\* Every step of the queue preserves well-typedness.
LEMMA TypeStep == TypeInv /\ [Next]_vars => TypeInv'
  <1> SUFFICES ASSUME TypeInv, [Next]_vars PROVE TypeInv'
    OBVIOUS
  <1> USE DEF TypeInv, TypeOK
  <1>1. ASSUME NEW s \in Submitters, NEW f \in Fingerprints, Submit(s, f) PROVE TypeInv'
    <2>1. SubmittersOK' /\ SubmitterHasJob'
      BY <1>1, Ranges DEF Submit, SubmittersOK, SubmitterHasJob, SubmitterPoints
    <2> QED
      BY <1>1, <2>1, Frame DEF Submit, redisVars
  <1>2. ASSUME NEW s \in Submitters, LockAndReadDedupe(s) PROVE TypeInv'
    <2>1. SubmittersOK' /\ SubmitterHasJob'
      BY <1>2, Ranges DEF LockAndReadDedupe, SubmittersOK, SubmitterHasJob, SubmitterPoints, KeysOK, redisVars
    <2>2. LocksOK'
      BY <1>2, Ranges DEF LockAndReadDedupe, LocksOK, lockVars
    <2> QED
      BY <1>2, <2>1, <2>2, Frame DEF LockAndReadDedupe, redisVars
  <1>3. ASSUME NEW s \in Submitters, LockTimeout(s) PROVE TypeInv'
    <2>1. SubmittersOK' /\ SubmitterHasJob'
      BY <1>3, Ranges DEF LockTimeout, SubmitterIdle, SubmittersOK, SubmitterHasJob, SubmitterPoints, redisVars
    <2> QED
      BY <1>3, <2>1, Frame DEF LockTimeout, redisVars
  <1>4. ASSUME NEW s \in Submitters, JoinExisting(s) PROVE TypeInv'
    <2>1. SubmittersOK' /\ SubmitterHasJob'
      BY <1>4, Ranges DEF JoinExisting, SubmitterIdle, SubmittersOK, SubmitterHasJob, SubmitterPoints, redisVars
    <2>2. LocksOK'
      BY <1>4, Ranges DEF JoinExisting, ReleaseEnqueueLock, LocksOK, lockVars
    <2> QED
      BY <1>4, <2>1, <2>2, Frame DEF JoinExisting, redisVars
  <1>5. ASSUME NEW s \in Submitters, ExistingIsOver(s) PROVE TypeInv'
    <2>1. SubmittersOK' /\ SubmitterHasJob'
      BY <1>5, Ranges DEF ExistingIsOver, SubmittersOK, SubmitterHasJob, SubmitterPoints, redisVars
    <2> QED
      BY <1>5, <2>1, Frame DEF ExistingIsOver, redisVars
  <1>6. ASSUME NEW s \in Submitters, DropStaleDedupe(s) PROVE TypeInv'
    <2>1. SubmittersOK' /\ SubmitterHasJob'
      BY <1>6, Ranges DEF DropStaleDedupe, SubmittersOK, SubmitterHasJob, SubmitterPoints, redisVars
    <2>2. KeysOK'
      BY <1>6, Ranges DEF DropStaleDedupe, DeleteDedupe, KeysOK, SubmittersOK, SubmitterHasJob
    <2> QED
      BY <1>6, <2>1, <2>2, Frame DEF DropStaleDedupe, redisVars
  <1>7. ASSUME NEW s \in Submitters, CountPending(s) PROVE TypeInv'
    <2>1. SubmittersOK' /\ SubmitterHasJob'
      BY <1>7, Ranges DEF CountPending, SubmittersOK, SubmitterHasJob, SubmitterPoints, redisVars
    <2> QED
      BY <1>7, <2>1, Frame DEF CountPending, redisVars
  <1>8. ASSUME NEW s \in Submitters, QueueFull(s) PROVE TypeInv'
    <2>1. SubmittersOK' /\ SubmitterHasJob'
      BY <1>8, Ranges DEF QueueFull, SubmitterIdle, SubmittersOK, SubmitterHasJob, SubmitterPoints, redisVars
    <2>2. LocksOK'
      BY <1>8, Ranges DEF QueueFull, ReleaseEnqueueLock, LocksOK, lockVars
    <2> QED
      BY <1>8, <2>1, <2>2, Frame DEF QueueFull, redisVars
  <1>9. ASSUME NEW s \in Submitters, Insert(s) PROVE TypeInv'
    <2>0. sjob[s] \in Jobs
      BY <1>9, Ranges DEF SubmittersOK, SubmitterHasJob, Insert
    <2>1. SubmittersOK' /\ SubmitterHasJob'
      BY <1>9, <2>0, Ranges DEF Insert, SubmitterIdle, SubmittersOK, SubmitterHasJob, SubmitterPoints
    <2>2. ZsetsOK'
      BY <1>9, <2>0, Ranges DEF Insert, ZsetsOK, SubmittersOK, SubmitterHasJob
    <2>3. KeysOK'
      BY <1>9, <2>0, Ranges DEF Insert, WriteStatus, KeysOK, SubmittersOK, SubmitterHasJob
    <2>4. LocksOK'
      BY <1>9, Ranges DEF Insert, ReleaseEnqueueLock, LocksOK, lockVars
    <2> QED
      BY <1>9, <2>1, <2>2, <2>3, <2>4, Frame DEF Insert, redisVars
  <1>10. ASSUME NEW s \in Submitters, SubmitterFault(s) PROVE TypeInv'
    <2>1. SubmittersOK' /\ SubmitterHasJob'
      BY <1>10, Ranges DEF SubmitterFault, SubmitterIdle, SubmittersOK, SubmitterHasJob, SubmitterPoints, redisVars
    <2>2. faults' \in 0..MaxFaults /\ torn' \in 0..faults'
      BY <1>10, BoundsAssumption DEF SubmitterFault
    <2> QED
      BY <1>10, <2>1, <2>2, Frame DEF SubmitterFault, redisVars
  <1>11. ASSUME NEW w \in Workers, ClaimPeek(w) PROVE TypeInv'
    <2>0. First(ready) \in Jobs
      BY <1>11, FirstIsLeast DEF ClaimPeek, ZsetsOK
    <2>1. WorkersOK' /\ WorkerHasJob'
      BY <1>11, <2>0, Ranges DEF ClaimPeek, WorkersOK, WorkerHasJob, WorkerGoes, WorkerPoints
    <2>2. LocksOK'
      BY <1>11, Ranges DEF ClaimPeek, LocksOK, lockVars
    <2> QED
      BY <1>11, <2>1, <2>2, Frame DEF ClaimPeek, redisVars
  <1>12. ASSUME NEW w \in Workers, AcquireSlot(w) PROVE TypeInv'
    <2>1. WorkersOK' /\ WorkerHasJob'
      BY <1>12, Ranges DEF AcquireSlot, WorkersOK, WorkerHasJob, WorkerGoes, WorkerPoints
    <2> QED
      BY <1>12, <2>1, Frame DEF AcquireSlot, redisVars
  <1>13. ASSUME NEW w \in Workers, ClaimRemove(w) PROVE TypeInv'
    <2>1. WorkersOK' /\ WorkerHasJob'
      BY <1>13, Ranges DEF ClaimRemove, WorkersOK, WorkerHasJob, WorkerGoes, WorkerPoints
    <2>2. ZsetsOK'
      BY <1>13, Ranges DEF ClaimRemove, ZsetsOK
    <2> QED
      BY <1>13, <2>1, <2>2, Frame DEF ClaimRemove, redisVars
  <1>14. ASSUME NEW w \in Workers, ClaimActivate(w) PROVE TypeInv'
    <2>1. WorkersOK' /\ WorkerHasJob'
      BY <1>14, Ranges DEF ClaimActivate, WorkersOK, WorkerHasJob, WorkerGoes, WorkerPoints
    <2>2. ZsetsOK'
      BY <1>14, Ranges DEF ClaimActivate, ZsetsOK, WorkersOK, WorkerHasJob
    <2>3. LocksOK'
      BY <1>14, Ranges DEF ClaimActivate, LocksOK, lockVars
    <2> QED
      BY <1>14, <2>1, <2>2, <2>3, Frame DEF ClaimActivate, redisVars
  <1>15. ASSUME NEW w \in Workers, FetchPayload(w) PROVE TypeInv'
    <2>1. WorkersOK' /\ WorkerHasJob'
      BY <1>15, Ranges DEF FetchPayload, WorkersOK, WorkerHasJob, WorkerGoes, WorkerPoints
    <2> QED
      BY <1>15, <2>1, Frame DEF FetchPayload, redisVars
  <1>16. ASSUME NEW w \in Workers, ReportRead(w) PROVE TypeInv'
    <2>0. state[wjob[w]] \in States /\ WriteOf[wpc[w]] \in WorkerPoints /\ AfterReport[wpc[w]] \in WorkerPoints
      BY <1>16, Ranges DEF ReportRead, WriteOf, AfterReport, WorkerPoints, WorkersOK, WorkerHasJob, KeysOK
    <2>1. WorkersOK' /\ WorkerHasJob'
      <3>1. PICK p \in WorkerPoints, r \in States :
              /\ WorkerGoes(w, p)
              /\ wraw' = [wraw EXCEPT ![w] = r]
        <4>1. CASE state[wjob[w]] \in Live
          BY <1>16, <2>0, <4>1 DEF ReportRead
        <4>2. CASE state[wjob[w]] \notin Live
          <5>1. wraw' = [wraw EXCEPT ![w] = wraw[w]] /\ wraw[w] \in States
            BY <1>16, <4>2 DEF ReportRead, WorkersOK
          <5> QED
            BY <1>16, <2>0, <4>2, <5>1 DEF ReportRead
        <4> QED BY <4>1, <4>2
      <3>2. wpc[w] # "idle" /\ UNCHANGED <<wjob, wfp, wout, left>>
        BY <1>16 DEF ReportRead, WriteOf
      <3> QED
        BY <3>1, <3>2 DEF WorkersOK, WorkerHasJob, WorkerGoes
    <2> QED
      BY <1>16, <2>1, Frame DEF ReportRead, redisVars
  <1>17. ASSUME NEW w \in Workers, ReportWrite(w) PROVE TypeInv'
    <2>1. WorkersOK' /\ WorkerHasJob'
      BY <1>17, Ranges DEF ReportWrite, AfterWrite, WorkersOK, WorkerHasJob, WorkerGoes, WorkerPoints
    <2>2. KeysOK'
      BY <1>17, Ranges DEF ReportWrite, WriteStatus, KeysOK, WorkersOK, WorkerHasJob
    <2> QED
      BY <1>17, <2>1, <2>2, Frame DEF ReportWrite, redisVars
  <1>18. ASSUME NEW w \in Workers, MarkRead(w) PROVE TypeInv'
    <2>1. WorkersOK' /\ WorkerHasJob'
      <3>1. CASE state[wjob[w]] = "queued"
        BY <1>18, <3>1, Ranges DEF MarkRead, WorkersOK, WorkerHasJob, WorkerGoes, WorkerPoints
      <3>2. CASE state[wjob[w]] # "queued"
        <4>1. WorkerIdle(w)
          BY <1>18, <3>2 DEF MarkRead
        <4> QED
          BY <4>1, Ranges DEF WorkerIdle, WorkersOK, WorkerHasJob, WorkerGoes, WorkerPoints
      <3> QED BY <3>1, <3>2
    <2> QED
      BY <1>18, <2>1, Frame DEF MarkRead, redisVars
  <1>19. ASSUME NEW w \in Workers, MarkWrite(w) PROVE TypeInv'
    <2>1. WorkersOK' /\ WorkerHasJob'
      BY <1>19, Ranges DEF MarkWrite, WorkersOK, WorkerHasJob, WorkerGoes, WorkerPoints
    <2>2. KeysOK'
      BY <1>19, Ranges DEF MarkWrite, WriteStatus, KeysOK, WorkersOK, WorkerHasJob
    <2> QED
      BY <1>19, <2>1, <2>2, Frame DEF MarkWrite, redisVars
  <1>20. ASSUME NEW w \in Workers, RunReport(w) PROVE TypeInv'
    <2>1. WorkersOK' /\ WorkerHasJob'
      BY <1>20, Ranges DEF RunReport, WorkersOK, WorkerHasJob, WorkerGoes, WorkerPoints
    <2> QED
      BY <1>20, <2>1, Frame DEF RunReport, redisVars
  <1>21. ASSUME NEW w \in Workers, RunTimesOut(w) PROVE TypeInv'
    <2>1. WorkersOK' /\ WorkerHasJob'
      BY <1>21, Ranges DEF RunTimesOut, ToComplete, RunPoints, WorkersOK, WorkerHasJob, WorkerGoes, WorkerPoints
    <2> QED
      BY <1>21, <2>1, Frame DEF RunTimesOut, redisVars
  <1>22. ASSUME NEW w \in Workers, NEW r \in Outcomes, RunFinish(w, r) PROVE TypeInv'
    <2>1. WorkersOK' /\ WorkerHasJob'
      BY <1>22, Ranges, OutcomesAssumption DEF RunFinish, ToComplete, WorkersOK, WorkerHasJob, WorkerGoes, WorkerPoints
    <2> QED
      BY <1>22, <2>1, Frame DEF RunFinish, redisVars
  <1>23. ASSUME NEW w \in Workers, CompleteRead(w) PROVE TypeInv'
    <2>1. WorkersOK' /\ WorkerHasJob'
      BY <1>23, Ranges DEF CompleteRead, WorkersOK, WorkerHasJob, WorkerGoes, WorkerPoints, KeysOK, SubmittersOK
    <2> QED
      BY <1>23, <2>1, Frame DEF CompleteRead, redisVars
  <1>24. ASSUME NEW w \in Workers, CompleteWrite(w) PROVE TypeInv'
    <2>0. /\ wjob[w] \in Jobs /\ wout[w] \in States
         /\ wfp[w] \in Fingerprints \cup {Nobody}
      BY <1>24, Ranges DEF CompleteWrite, WorkersOK, WorkerHasJob
    <2>1. WorkersOK' /\ WorkerHasJob'
      BY <1>24, Ranges DEF CompleteWrite, WorkerIdle, WorkersOK, WorkerHasJob, WorkerGoes, WorkerPoints
    <2>2. ZsetsOK'
      BY <1>24, <2>0, Ranges DEF CompleteWrite, Finish, ZsetsOK, WorkersOK, WorkerHasJob
    <2>3. KeysOK'
      <3>1. PICK ttl \in 0..ResultTTL : Finish(wjob[w], wout[w], wfp[w], ttl)
        BY <1>24, Ranges DEF CompleteWrite
      <3> QED
        BY <2>0, <3>1, FinishKeepsKeys
    <2> QED
      BY <1>24, <2>1, <2>2, <2>3, Frame DEF CompleteWrite, Finish, redisVars
  <1>25. ASSUME NEW w \in Workers, WorkerCrash(w) PROVE TypeInv'
    <2>1. WorkersOK' /\ WorkerHasJob'
      BY <1>25, Ranges DEF WorkerCrash, WorkerIdle, WorkersOK, WorkerHasJob, WorkerGoes, WorkerPoints
    <2>2. faults' \in 0..MaxFaults /\ torn' \in 0..faults'
      BY <1>25, BoundsAssumption DEF WorkerCrash
    <2> QED
      BY <1>25, <2>1, <2>2, Frame DEF WorkerCrash, redisVars
  <1>26. ASSUME NEW w \in Workers, ReportError(w) PROVE TypeInv'
    <2>1. WorkersOK' /\ WorkerHasJob'
      BY <1>26, Ranges DEF ReportError, WriteOf, AfterReport, AfterWrite, WorkersOK, WorkerHasJob, WorkerGoes, WorkerPoints
    <2>2. faults' \in 0..MaxFaults /\ torn' \in 0..faults'
      BY <1>26, BoundsAssumption DEF ReportError
    <2> QED
      BY <1>26, <2>1, <2>2, Frame DEF ReportError, redisVars
  <1>27. ASSUME NEW w \in Workers, MarkError(w) PROVE TypeInv'
    <2>1. WorkersOK' /\ WorkerHasJob'
      BY <1>27, Ranges DEF MarkError, ToComplete, WorkersOK, WorkerHasJob, WorkerGoes, WorkerPoints
    <2>2. faults' \in 0..MaxFaults /\ torn' \in 0..faults'
      BY <1>27, BoundsAssumption DEF MarkError
    <2> QED
      BY <1>27, <2>1, <2>2, Frame DEF MarkError, redisVars
  <1>28. ASSUME NEW r \in Reapers, ReapScan(r) PROVE TypeInv'
    <2>1. ReapersOK' /\ ReaperHasJob'
      BY <1>28, Ranges DEF ReapScan, ReapersOK, ReaperHasJob, ReaperGoes, ReaperPoints, ZsetsOK
    <2> QED
      BY <1>28, <2>1, Frame DEF ReapScan, redisVars
  <1>29. ASSUME NEW r \in Reapers, NEW j \in Jobs, ReapRead(r, j) PROVE TypeInv'
    <2>1. ReapersOK' /\ ReaperHasJob'
      BY <1>29, Ranges DEF ReapRead, ReapersOK, ReaperHasJob, ReaperGoes, ReaperPoints
    <2> QED
      BY <1>29, <2>1, Frame DEF ReapRead, redisVars
  <1>30. ASSUME NEW r \in Reapers, ReapFailRead(r) PROVE TypeInv'
    <2>1. ReapersOK' /\ ReaperHasJob'
      BY <1>30, Ranges DEF ReapFailRead, ReapersOK, ReaperHasJob, ReaperGoes, ReaperPoints, SubmittersOK
    <2> QED
      BY <1>30, <2>1, Frame DEF ReapFailRead, redisVars
  <1>31. ASSUME NEW r \in Reapers, ReapFailWrite(r) PROVE TypeInv'
    <2>1. ReapersOK' /\ ReaperHasJob'
      BY <1>31, Ranges DEF ReapFailWrite, ReaperNext, ReaperGoes, ReapersOK, ReaperHasJob, ReaperPoints
    <2>2. ZsetsOK'
      BY <1>31, Ranges DEF ReapFailWrite, Finish, ZsetsOK, ReapersOK
    <2>3. KeysOK'
      <3>1. rjob[r] \in Jobs /\ rfp[r] \in Fingerprints \cup {Nobody}
        BY <1>31 DEF ReapFailWrite, ReapersOK, ReaperHasJob
      <3>2. "failed" \in States /\ ResultTTL \in 0..ResultTTL /\ Finish(rjob[r], "failed", rfp[r], ResultTTL)
        BY <1>31, Ranges, BoundsAssumption DEF ReapFailWrite
      <3> QED
        BY <3>1, <3>2, FinishKeepsKeys
    <2> QED
      BY <1>31, <2>1, <2>2, <2>3, Frame DEF ReapFailWrite, Finish, redisVars
  <1>32. ASSUME NEW r \in Reapers, ReapClearActive(r) PROVE TypeInv'
    <2>1. ReapersOK' /\ ReaperHasJob'
      BY <1>32, Ranges DEF ReapClearActive, ReapersOK, ReaperHasJob, ReaperGoes, ReaperPoints
    <2>2. ZsetsOK'
      BY <1>32, Ranges DEF ReapClearActive, ZsetsOK
    <2> QED
      BY <1>32, <2>1, <2>2, Frame DEF ReapClearActive, redisVars
  <1>33. ASSUME NEW r \in Reapers, ReapClearPending(r) PROVE TypeInv'
    <2>1. ReapersOK' /\ ReaperHasJob'
      BY <1>33, Ranges DEF ReapClearPending, ReaperNext, ReaperGoes, ReapersOK, ReaperHasJob, ReaperPoints
    <2>2. ZsetsOK'
      BY <1>33, Ranges DEF ReapClearPending, ZsetsOK
    <2> QED
      BY <1>33, <2>1, <2>2, Frame DEF ReapClearPending, redisVars
  <1>34. ASSUME NEW r \in Reapers, ReaperFault(r) PROVE TypeInv'
    <2>1. ReapersOK' /\ ReaperHasJob'
      BY <1>34, Ranges DEF ReaperFault, ReapersOK, ReaperHasJob, ReaperGoes, ReaperPoints
    <2>2. faults' \in 0..MaxFaults /\ torn' \in 0..faults'
      BY <1>34, BoundsAssumption DEF ReaperFault
    <2> QED
      BY <1>34, <2>1, <2>2, Frame DEF ReaperFault, redisVars
  <1>35. ASSUME ExpireEnqueueLock PROVE TypeInv'
    <2>1. LocksOK'
      BY <1>35, Ranges DEF ExpireEnqueueLock, LocksOK, lockVars
    <2> QED
      BY <1>35, <2>1, Frame DEF ExpireEnqueueLock, redisVars
  <1>36. ASSUME ExpireClaimLock PROVE TypeInv'
    <2>1. LocksOK'
      BY <1>36, Ranges DEF ExpireClaimLock, LocksOK, lockVars
    <2> QED
      BY <1>36, <2>1, Frame DEF ExpireClaimLock, redisVars
  <1>37. ASSUME Tick PROVE TypeInv'
    <2>1. ZsetsOK'
      BY <1>37, Ranges, BoundsAssumption DEF Tick, ZsetsOK
    <2>2. KeysOK'
      <3>1. \A n \in 0..ResultTTL : Dec(n) \in 0..ResultTTL
        BY BoundsAssumption DEF Dec
      <3>2. state' \in [Jobs -> States] /\ sttl' \in [Jobs -> 0..ResultTTL]
        BY <1>37, <3>1, Ranges DEF Tick, KeysOK
      <3>3. dedupe' \in [Fingerprints -> 0..MaxJobs] /\ dttl' \in [Fingerprints -> 0..ResultTTL]
        BY <1>37, <3>1, Ranges DEF Tick, KeysOK
      <3>4. pttl' \in [Jobs -> 0..ResultTTL]
        BY <1>37, <3>1, Ranges DEF Tick, KeysOK
      <3> QED BY <3>2, <3>3, <3>4 DEF KeysOK
    <2>3. WorkersOK' /\ WorkerHasJob'
      BY <1>37, Ranges, BoundsAssumption DEF Tick, Dec, WorkersOK, WorkerHasJob
    <2> QED
      BY <1>37, <2>1, <2>2, <2>3, Frame DEF Tick, redisVars
  <1>38. CASE UNCHANGED vars
    BY <1>38, Frame DEF vars, redisVars
  <1> QED
    BY <1>1, <1>2, <1>3, <1>4, <1>5, <1>6, <1>7, <1>8, <1>9, <1>10, <1>11, <1>12, <1>13, <1>14, <1>15, <1>16, <1>17, <1>18, <1>19, <1>20, <1>21, <1>22, <1>23, <1>24, <1>25, <1>26, <1>27, <1>28, <1>29, <1>30, <1>31, <1>32, <1>33, <1>34, <1>35, <1>36, <1>37, <1>38
    DEF Next, SubmitterNext, SubmitterStep, WorkerNext, WorkerStep, ReaperStep

\* Every variable keeps its type: statuses, claims and timers stay in their ranges.
THEOREM TypeCorrect == Spec => []TypeOK
  <1>1. TypeInv => TypeOK
    BY DEF TypeInv
  <1> QED
    BY TypeInit, TypeStep, <1>1, PTL DEF Spec

-----------------------------------------------------------------------------
(* One owner per job.  The claim lock makes ZRANGE, ZREM and ZADD one pop   *)
(* as long as nobody else gets the lock in between; a job id that is still *)
(* in a submitter's hands is in nobody else's.                             *)

ClaimLocked == \A w \in Workers : wpc[w] \in ClaimSection => clmLock = w
PeekedIsReady == \A w \in Workers : wpc[w] = "zrem" => wjob[w] \in ready
UsedIsIssued ==
  /\ ready \subseteq 1..issued
  /\ \A w \in Workers : wpc[w] # "idle" => wjob[w] \in 1..issued
NewIsNew ==
  \A s \in Submitters : spc[s] # "idle" =>
     /\ sjob[s] \notin ready
     /\ \A w \in Workers : wpc[w] # "idle" => wjob[w] # sjob[s]
     /\ \A r \in Submitters \ {s} : spc[r] # "idle" => sjob[r] # sjob[s]

ClaimInv == ClaimLocked /\ PeekedIsReady /\ UsedIsIssued /\ NewIsNew /\ SingleOwner

\* The invariant reads only these variables.
claimState == <<ready, clmLock, wpc, wjob, submitterVars>>

LEMMA ClaimInit == Init => ClaimInv
  BY DEF Init, ClaimInv, ClaimLocked, PeekedIsReady, UsedIsIssued, NewIsNew, SingleOwner,
         Holds, ClaimSection

LEMMA ClaimFrame == ClaimInv /\ UNCHANGED claimState => ClaimInv'
  BY DEF claimState, submitterVars, ClaimInv, ClaimLocked, PeekedIsReady, UsedIsIssued,
         NewIsNew, SingleOwner, Holds, ClaimSection

\* A worker that goes on with a job it holds disturbs nobody.
LEMMA WorkerMoves ==
  ASSUME ClaimInv, TypeInv, NEW w \in Workers, Holds(w), NEW p, WorkerGoes(w, p),
         p \notin ClaimSection \cup {"idle"},
         UNCHANGED <<ready, clmLock, wjob, submitterVars>>
  PROVE  ClaimInv'
  <1> USE DEF ClaimInv, WorkerGoes, submitterVars, TypeInv, TypeOK, WorkersOK, Holds, ClaimSection
  <1>1. ClaimLocked' /\ PeekedIsReady'
    BY DEF ClaimLocked, PeekedIsReady
  <1>2. UsedIsIssued' /\ NewIsNew'
    BY DEF UsedIsIssued, NewIsNew
  <1>3. SingleOwner'
    BY DEF SingleOwner
  <1> QED
    BY <1>1, <1>2, <1>3

\* Neither does a worker that lets go of its job, whatever the reason.
LEMMA WorkerStops ==
  ASSUME ClaimInv, TypeInv, NEW w \in Workers, WorkerIdle(w),
         UNCHANGED <<ready, clmLock, submitterVars>>
  PROVE  ClaimInv'
  <1> USE DEF ClaimInv, WorkerIdle, WorkerGoes, submitterVars, TypeInv, TypeOK, WorkersOK,
              Holds, ClaimSection
  <1>1. ClaimLocked' /\ PeekedIsReady'
    BY DEF ClaimLocked, PeekedIsReady
  <1>2. UsedIsIssued' /\ NewIsNew'
    BY DEF UsedIsIssued, NewIsNew
  <1>3. SingleOwner'
    BY DEF SingleOwner
  <1> QED
    BY <1>1, <1>2, <1>3

\* A submitter keeps its new id while it walks through enqueue() ...
LEMMA SubmitterMoves ==
  ASSUME ClaimInv, TypeInv, NEW s \in Submitters, spc[s] # "idle", NEW p,
         spc' = [spc EXCEPT ![s] = p],
         UNCHANGED <<issued, sjob, ready, clmLock, wpc, wjob>>
  PROVE  ClaimInv'
  <1> USE DEF ClaimInv, TypeInv, TypeOK, SubmittersOK, Holds, ClaimSection
  <1>1. ClaimLocked' /\ PeekedIsReady' /\ UsedIsIssued' /\ SingleOwner'
    BY DEF ClaimLocked, PeekedIsReady, UsedIsIssued, SingleOwner
  <1>2. NewIsNew'
    BY DEF NewIsNew
  <1> QED
    BY <1>1, <1>2

\* ... and gives it up when it leaves without inserting it.
LEMMA SubmitterStops ==
  ASSUME ClaimInv, TypeInv, NEW s \in Submitters, SubmitterIdle(s),
         UNCHANGED <<ready, clmLock, wpc, wjob>>
  PROVE  ClaimInv'
  <1> USE DEF ClaimInv, TypeInv, TypeOK, SubmittersOK, SubmitterIdle, Holds, ClaimSection
  <1>1. ClaimLocked' /\ PeekedIsReady' /\ UsedIsIssued' /\ SingleOwner'
    BY DEF ClaimLocked, PeekedIsReady, UsedIsIssued, SingleOwner
  <1>2. NewIsNew'
    BY DEF NewIsNew
  <1> QED
    BY <1>1, <1>2

\* With a claim lock that outlives its section, every step keeps one owner per job.
LEMMA ClaimStep ==
  ASSUME LockExpires = FALSE
  PROVE  TypeInv /\ ClaimInv /\ [Next]_vars => ClaimInv'
  <1> SUFFICES ASSUME TypeInv, ClaimInv, [Next]_vars PROVE ClaimInv'
    OBVIOUS
  <1>1. ASSUME NEW s \in Submitters, NEW f \in Fingerprints, Submit(s, f) PROVE ClaimInv'
    <2> USE DEF ClaimInv, Submit, TypeInv, TypeOK, SubmittersOK, Holds, ClaimSection, redisVars, zsetVars, lockVars, workerVars
    <2>1. ClaimLocked' /\ PeekedIsReady' /\ SingleOwner'
      BY <1>1 DEF ClaimLocked, PeekedIsReady, SingleOwner
    <2>2. issued' = issued + 1 /\ issued \in Nat
      BY <1>1, BoundsAssumption
    <2>3. UsedIsIssued'
      BY <1>1, <2>2 DEF UsedIsIssued
    <2>4. issued + 1 \notin ready /\ \A v \in Workers : wpc[v] # "idle" => wjob[v] # issued + 1
      BY <2>2 DEF UsedIsIssued
    <2>5. \A r \in Submitters : spc[r] # "idle" => sjob[r] # issued + 1
      BY <2>2 DEF SubmitterHasJob
    <2>6. NewIsNew'
      BY <1>1, <2>4, <2>5 DEF NewIsNew
    <2> QED BY <2>1, <2>3, <2>6
  <1>2. ASSUME NEW s \in Submitters, LockAndReadDedupe(s) PROVE ClaimInv'
    <2>1. spc[s] # "idle" /\ UNCHANGED <<issued, sjob, ready, clmLock, wpc, wjob>>
      BY <1>2 DEF LockAndReadDedupe, redisVars, zsetVars, lockVars, workerVars
    <2>2. PICK p : spc' = [spc EXCEPT ![s] = p]
      BY <1>2 DEF LockAndReadDedupe
    <2> QED BY <2>1, <2>2, SubmitterMoves
  <1>3. ASSUME NEW s \in Submitters, LockTimeout(s) PROVE ClaimInv'
    BY <1>3, SubmitterStops DEF LockTimeout, redisVars, zsetVars, lockVars, workerVars
  <1>4. ASSUME NEW s \in Submitters, JoinExisting(s) PROVE ClaimInv'
    BY <1>4, SubmitterStops DEF JoinExisting, redisVars, zsetVars, lockVars, workerVars
  <1>5. ASSUME NEW s \in Submitters, ExistingIsOver(s) PROVE ClaimInv'
    BY <1>5, SubmitterMoves DEF ExistingIsOver, redisVars, zsetVars, lockVars, workerVars
  <1>6. ASSUME NEW s \in Submitters, DropStaleDedupe(s) PROVE ClaimInv'
    BY <1>6, SubmitterMoves DEF DropStaleDedupe, redisVars, zsetVars, lockVars, workerVars
  <1>7. ASSUME NEW s \in Submitters, CountPending(s) PROVE ClaimInv'
    BY <1>7, SubmitterMoves DEF CountPending, redisVars, zsetVars, lockVars, workerVars
  <1>8. ASSUME NEW s \in Submitters, QueueFull(s) PROVE ClaimInv'
    BY <1>8, SubmitterStops DEF QueueFull, redisVars, zsetVars, lockVars, workerVars
  <1>9. ASSUME NEW s \in Submitters, Insert(s) PROVE ClaimInv'
    <2> USE DEF ClaimInv, Insert, SubmitterIdle, TypeInv, TypeOK, SubmittersOK, Holds, ClaimSection, redisVars, zsetVars, lockVars, workerVars
    <2>1. ClaimLocked' /\ PeekedIsReady'
      BY <1>9 DEF ClaimLocked, PeekedIsReady
    <2>2. UsedIsIssued'
      BY <1>9 DEF UsedIsIssued, SubmitterHasJob
    <2>3. NewIsNew'
      BY <1>9 DEF NewIsNew
    <2>4. SingleOwner'
      BY <1>9 DEF SingleOwner, NewIsNew
    <2> QED BY <2>1, <2>2, <2>3, <2>4
  <1>10. ASSUME NEW s \in Submitters, SubmitterFault(s) PROVE ClaimInv'
    BY <1>10, SubmitterStops DEF SubmitterFault, redisVars, zsetVars, lockVars, workerVars
  <1>11. ASSUME NEW w \in Workers, ClaimPeek(w) PROVE ClaimInv'
    <2> USE DEF ClaimInv, ClaimPeek, WorkerGoes, TypeInv, TypeOK, WorkersOK, submitterVars, Holds, ClaimSection, redisVars, zsetVars, lockVars, workerVars
    <2>1. First(ready) \in ready
      BY <1>11, FirstIsLeast DEF ZsetsOK
    <2>2. ClaimLocked' /\ PeekedIsReady'
      BY <1>11, <2>1, NobodyAssumption DEF ClaimLocked, PeekedIsReady
    <2>3. UsedIsIssued'
      BY <1>11, <2>1 DEF UsedIsIssued
    <2>4. NewIsNew'
      BY <1>11, <2>1 DEF NewIsNew
    <2>5. SingleOwner'
      BY <1>11 DEF SingleOwner
    <2> QED BY <2>2, <2>3, <2>4, <2>5
  <1>12. ASSUME NEW w \in Workers, AcquireSlot(w) PROVE ClaimInv'
    <2>1. Holds(w) /\ UNCHANGED <<ready, clmLock, wjob, submitterVars>>
      BY <1>12 DEF AcquireSlot, Holds, redisVars, zsetVars, lockVars, workerVars
    <2>2. \E p : WorkerGoes(w, p) /\ p \notin ClaimSection \cup {"idle"}
      BY <1>12 DEF AcquireSlot, ClaimSection
    <2> QED BY <2>1, <2>2, WorkerMoves
  <1>13. ASSUME NEW w \in Workers, ClaimRemove(w) PROVE ClaimInv'
    <2> USE DEF ClaimInv, ClaimRemove, WorkerGoes, TypeInv, TypeOK, WorkersOK, submitterVars, Holds, ClaimSection, redisVars, zsetVars, lockVars, workerVars
    <2>1. ClaimLocked' /\ PeekedIsReady'
      BY <1>13 DEF ClaimLocked, PeekedIsReady
    <2>2. UsedIsIssued' /\ NewIsNew'
      BY <1>13 DEF UsedIsIssued, NewIsNew
    <2>3. \A v \in Workers \ {w} : Holds(v) => wjob[v] # wjob[w]
      BY <1>13 DEF SingleOwner, PeekedIsReady
    <2>4. SingleOwner'
      BY <1>13, <2>3 DEF SingleOwner
    <2> QED BY <2>1, <2>2, <2>4
  <1>14. ASSUME NEW w \in Workers, ClaimActivate(w) PROVE ClaimInv'
    <2> USE DEF ClaimInv, ClaimActivate, WorkerGoes, TypeInv, TypeOK, WorkersOK, submitterVars, Holds, ClaimSection, redisVars, zsetVars, lockVars, workerVars
    <2>1. ClaimLocked' /\ PeekedIsReady'
      BY <1>14, NobodyAssumption DEF ClaimLocked, PeekedIsReady
    <2>2. UsedIsIssued' /\ NewIsNew'
      BY <1>14 DEF UsedIsIssued, NewIsNew
    <2>3. SingleOwner'
      BY <1>14 DEF SingleOwner
    <2> QED BY <2>1, <2>2, <2>3
  <1>15. ASSUME NEW w \in Workers, FetchPayload(w) PROVE ClaimInv'
    <2>1. Holds(w) /\ UNCHANGED <<ready, clmLock, wjob, submitterVars>>
      BY <1>15 DEF FetchPayload, Holds, redisVars, zsetVars, lockVars, workerVars
    <2>2. \E p : WorkerGoes(w, p) /\ p \notin ClaimSection \cup {"idle"}
      BY <1>15 DEF FetchPayload, ClaimSection
    <2> QED BY <2>1, <2>2, WorkerMoves
  <1>16. ASSUME NEW w \in Workers, ReportRead(w) PROVE ClaimInv'
    <2>1. Holds(w) /\ UNCHANGED <<ready, clmLock, wjob, submitterVars>>
      BY <1>16 DEF ReportRead, WriteOf, Holds, redisVars, zsetVars, lockVars, workerVars
    <2>2. \E p : WorkerGoes(w, p) /\ p \notin ClaimSection \cup {"idle"}
      BY <1>16 DEF ReportRead, WriteOf, AfterReport, ClaimSection
    <2> QED BY <2>1, <2>2, WorkerMoves
  <1>17. ASSUME NEW w \in Workers, ReportWrite(w) PROVE ClaimInv'
    <2>1. Holds(w) /\ UNCHANGED <<ready, clmLock, wjob, submitterVars>>
      BY <1>17 DEF ReportWrite, AfterWrite, Holds, redisVars, zsetVars, lockVars, workerVars
    <2>2. \E p : WorkerGoes(w, p) /\ p \notin ClaimSection \cup {"idle"}
      BY <1>17 DEF ReportWrite, AfterWrite, ClaimSection
    <2> QED BY <2>1, <2>2, WorkerMoves
  <1>18. ASSUME NEW w \in Workers, MarkRead(w) PROVE ClaimInv'
    <2>1. CASE state[wjob[w]] = "queued"
      <3>1. Holds(w) /\ WorkerGoes(w, "markw") /\ UNCHANGED <<ready, clmLock, wjob, submitterVars>>
        BY <1>18, <2>1 DEF MarkRead, Holds, redisVars, zsetVars, lockVars, workerVars
      <3> QED BY <3>1, WorkerMoves DEF ClaimSection
    <2>2. CASE state[wjob[w]] # "queued"
      BY <1>18, <2>2, WorkerStops DEF MarkRead, redisVars, zsetVars, lockVars, workerVars
    <2> QED BY <2>1, <2>2
  <1>19. ASSUME NEW w \in Workers, MarkWrite(w) PROVE ClaimInv'
    <2>1. Holds(w) /\ UNCHANGED <<ready, clmLock, wjob, submitterVars>>
      BY <1>19 DEF MarkWrite, Holds, redisVars, zsetVars, lockVars, workerVars
    <2>2. \E p : WorkerGoes(w, p) /\ p \notin ClaimSection \cup {"idle"}
      BY <1>19 DEF MarkWrite, ClaimSection
    <2> QED BY <2>1, <2>2, WorkerMoves
  <1>20. ASSUME NEW w \in Workers, RunReport(w) PROVE ClaimInv'
    <2>1. Holds(w) /\ UNCHANGED <<ready, clmLock, wjob, submitterVars>>
      BY <1>20 DEF RunReport, Holds, redisVars, zsetVars, lockVars, workerVars
    <2>2. \E p : WorkerGoes(w, p) /\ p \notin ClaimSection \cup {"idle"}
      BY <1>20 DEF RunReport, ClaimSection
    <2> QED BY <2>1, <2>2, WorkerMoves
  <1>21. ASSUME NEW w \in Workers, RunTimesOut(w) PROVE ClaimInv'
    <2>1. Holds(w) /\ UNCHANGED <<ready, clmLock, wjob, submitterVars>>
      BY <1>21 DEF RunTimesOut, RunPoints, RunPoints, Holds, redisVars, zsetVars, lockVars, workerVars
    <2>2. \E p : WorkerGoes(w, p) /\ p \notin ClaimSection \cup {"idle"}
      BY <1>21 DEF RunTimesOut, RunPoints, ToComplete, ClaimSection
    <2> QED BY <2>1, <2>2, WorkerMoves
  <1>22. ASSUME NEW w \in Workers, NEW r \in Outcomes, RunFinish(w, r) PROVE ClaimInv'
    <2>1. Holds(w) /\ UNCHANGED <<ready, clmLock, wjob, submitterVars>>
      BY <1>22 DEF RunFinish, Holds, redisVars, zsetVars, lockVars, workerVars
    <2>2. \E p : WorkerGoes(w, p) /\ p \notin ClaimSection \cup {"idle"}
      BY <1>22 DEF RunFinish, ToComplete, ClaimSection
    <2> QED BY <2>1, <2>2, WorkerMoves
  <1>23. ASSUME NEW w \in Workers, CompleteRead(w) PROVE ClaimInv'
    <2>1. Holds(w) /\ UNCHANGED <<ready, clmLock, wjob, submitterVars>>
      BY <1>23 DEF CompleteRead, Holds, redisVars, zsetVars, lockVars, workerVars
    <2>2. \E p : WorkerGoes(w, p) /\ p \notin ClaimSection \cup {"idle"}
      BY <1>23 DEF CompleteRead, ClaimSection
    <2> QED BY <2>1, <2>2, WorkerMoves
  <1>24. ASSUME NEW w \in Workers, CompleteWrite(w) PROVE ClaimInv'
    BY <1>24, WorkerStops DEF CompleteWrite, Finish, redisVars, zsetVars, lockVars, workerVars
  <1>25. ASSUME NEW w \in Workers, WorkerCrash(w) PROVE ClaimInv'
    BY <1>25, WorkerStops DEF WorkerCrash, redisVars, zsetVars, lockVars, workerVars
  <1>26. ASSUME NEW w \in Workers, ReportError(w) PROVE ClaimInv'
    <2>1. Holds(w) /\ UNCHANGED <<ready, clmLock, wjob, submitterVars>>
      BY <1>26 DEF ReportError, WriteOf, WriteOf, AfterWrite, Holds, redisVars, zsetVars, lockVars, workerVars
    <2>2. \E p : WorkerGoes(w, p) /\ p \notin ClaimSection \cup {"idle"}
      BY <1>26 DEF ReportError, WriteOf, AfterReport, AfterWrite, ClaimSection
    <2> QED BY <2>1, <2>2, WorkerMoves
  <1>27. ASSUME NEW w \in Workers, MarkError(w) PROVE ClaimInv'
    <2>1. Holds(w) /\ UNCHANGED <<ready, clmLock, wjob, submitterVars>>
      BY <1>27 DEF MarkError, Holds, redisVars, zsetVars, lockVars, workerVars
    <2>2. \E p : WorkerGoes(w, p) /\ p \notin ClaimSection \cup {"idle"}
      BY <1>27 DEF MarkError, ToComplete, ClaimSection
    <2> QED BY <2>1, <2>2, WorkerMoves
  <1>28. ASSUME NEW r \in Reapers, ReapScan(r) PROVE ClaimInv'
    BY <1>28, ClaimFrame DEF ReapScan, claimState, submitterVars, redisVars, zsetVars, lockVars, workerVars
  <1>29. ASSUME NEW r \in Reapers, NEW j \in Jobs, ReapRead(r, j) PROVE ClaimInv'
    BY <1>29, ClaimFrame DEF ReapRead, claimState, submitterVars, redisVars, zsetVars, lockVars, workerVars
  <1>30. ASSUME NEW r \in Reapers, ReapFailRead(r) PROVE ClaimInv'
    BY <1>30, ClaimFrame DEF ReapFailRead, claimState, submitterVars, redisVars, zsetVars, lockVars, workerVars
  <1>31. ASSUME NEW r \in Reapers, ReapFailWrite(r) PROVE ClaimInv'
    BY <1>31, ClaimFrame DEF ReapFailWrite, claimState, submitterVars, redisVars, zsetVars, lockVars, workerVars, Finish
  <1>32. ASSUME NEW r \in Reapers, ReapClearActive(r) PROVE ClaimInv'
    BY <1>32, ClaimFrame DEF ReapClearActive, claimState, submitterVars, redisVars, zsetVars, lockVars, workerVars
  <1>33. ASSUME NEW r \in Reapers, ReapClearPending(r) PROVE ClaimInv'
    BY <1>33, ClaimFrame DEF ReapClearPending, claimState, submitterVars, redisVars, zsetVars, lockVars, workerVars
  <1>34. ASSUME NEW r \in Reapers, ReaperFault(r) PROVE ClaimInv'
    BY <1>34, ClaimFrame DEF ReaperFault, claimState, submitterVars, redisVars, zsetVars, lockVars, workerVars
  <1>35. ASSUME ExpireEnqueueLock PROVE ClaimInv'
    BY <1>35, ClaimFrame DEF ExpireEnqueueLock, claimState, submitterVars, redisVars, zsetVars, lockVars, workerVars
  <1>36. ASSUME ExpireClaimLock PROVE ClaimInv'
    <2> USE DEF ClaimInv, ExpireClaimLock, submitterVars, Holds, ClaimSection, redisVars, zsetVars, lockVars, workerVars
    <2>1. ClaimLocked'
      BY <1>36, NobodyAssumption DEF ClaimLocked
    <2>2. PeekedIsReady' /\ UsedIsIssued' /\ NewIsNew' /\ SingleOwner'
      BY <1>36 DEF PeekedIsReady, UsedIsIssued, NewIsNew, SingleOwner
    <2> QED BY <2>1, <2>2
  <1>37. ASSUME Tick PROVE ClaimInv'
    BY <1>37, ClaimFrame DEF Tick, claimState, submitterVars, redisVars, zsetVars, lockVars, workerVars
  <1>38. CASE UNCHANGED vars
    BY <1>38, ClaimFrame DEF vars, claimState, submitterVars, redisVars, zsetVars, lockVars, workerVars
  <1> QED
    BY <1>1, <1>2, <1>3, <1>4, <1>5, <1>6, <1>7, <1>8, <1>9, <1>10, <1>11, <1>12, <1>13, <1>14, <1>15, <1>16, <1>17, <1>18, <1>19, <1>20, <1>21, <1>22, <1>23, <1>24, <1>25, <1>26, <1>27, <1>28, <1>29, <1>30, <1>31, <1>32, <1>33, <1>34, <1>35, <1>36, <1>37, <1>38
    DEF Next, SubmitterNext, SubmitterStep, WorkerNext, WorkerStep, ReaperStep

\* No two workers work on one job, and a job that a worker holds is not up for claiming:
\* claim()'s three commands act as one pop while its lock lasts.
THEOREM OneOwnerPerJob ==
  ASSUME LockExpires = FALSE
  PROVE  Spec => []SingleOwner
  <1>1. Init => TypeInv /\ ClaimInv
    BY TypeInit, ClaimInit
  <1>2. (TypeInv /\ ClaimInv) /\ [Next]_vars => (TypeInv /\ ClaimInv)'
    BY TypeStep, ClaimStep
  <1>3. TypeInv /\ ClaimInv => SingleOwner
    BY DEF ClaimInv
  <1> QED
    BY <1>1, <1>2, <1>3, PTL DEF Spec

-----------------------------------------------------------------------------
(* The limit.  Between the ZCARD and the MULTI of an enqueue() only its own *)
(* MULTI can add to pending, because the lock is still its own.            *)

EnqueueLocked == \A s \in Submitters : spc[s] \in EnqueueSection => enqLock = s
RoomIsReserved == \A s \in Submitters : spc[s] = "insert" => Cardinality(pending) < PendingLimit

LimitInv == EnqueueLocked /\ RoomIsReserved /\ PendingWithinLimit

LEMMA LimitInit == Init => LimitInv
  BY BoundsAssumption, FS_EmptySet
  DEF Init, LimitInv, EnqueueLocked, RoomIsReserved, PendingWithinLimit, EnqueueSection

LEMMA PendingIsFinite ==
  ASSUME TypeInv
  PROVE  /\ IsFiniteSet(pending) /\ Cardinality(pending) \in Nat
         /\ \A S \in SUBSET pending : Cardinality(S) \in Nat /\ Cardinality(S) <= Cardinality(pending)
  <1>1. IsFiniteSet(Jobs)
    BY BoundsAssumption, FS_Interval DEF Jobs
  <1>2. IsFiniteSet(pending)
    BY <1>1, FS_Subset DEF TypeInv, TypeOK, ZsetsOK
  <1> QED
    BY <1>2, FS_Subset, FS_CardinalityType

\* A step that only takes jobs out of pending is harmless.
LEMMA LimitShrinks ==
  ASSUME TypeInv, LimitInv, pending' \subseteq pending, UNCHANGED <<enqLock, spc>>
  PROVE  LimitInv'
  <1>1. Cardinality(pending') \in Nat /\ Cardinality(pending') <= Cardinality(pending)
        /\ Cardinality(pending) \in Nat
    BY PendingIsFinite
  <1> QED
    BY <1>1, BoundsAssumption DEF LimitInv, EnqueueLocked, RoomIsReserved, PendingWithinLimit

\* So is a submitter outside the critical section, or leaving it.
LEMMA LimitLeaves ==
  ASSUME TypeInv, LimitInv, NEW s \in Submitters, NEW p, p \notin EnqueueSection,
         spc' = [spc EXCEPT ![s] = p],
         UNCHANGED enqLock \/ ReleaseEnqueueLock(s), UNCHANGED pending
  PROVE  LimitInv'
  <1>1. EnqueueLocked'
    BY DEF LimitInv, EnqueueLocked, ReleaseEnqueueLock, TypeInv, TypeOK, SubmittersOK
  <1>2. RoomIsReserved' /\ PendingWithinLimit'
    BY DEF LimitInv, RoomIsReserved, PendingWithinLimit, TypeInv, TypeOK, SubmittersOK, EnqueueSection
  <1> QED
    BY <1>1, <1>2 DEF LimitInv

\* With an enqueue lock that outlives its section, every step keeps the limit.
LEMMA LimitStep ==
  ASSUME LockExpires = FALSE
  PROVE  TypeInv /\ LimitInv /\ [Next]_vars => LimitInv'
  <1> SUFFICES ASSUME TypeInv, LimitInv, [Next]_vars PROVE LimitInv'
    OBVIOUS
  <1>1. ASSUME NEW s \in Submitters, NEW f \in Fingerprints, Submit(s, f) PROVE LimitInv'
    BY <1>1, LimitLeaves DEF Submit, EnqueueSection, redisVars, zsetVars, lockVars, submitterVars
  <1>2. ASSUME NEW s \in Submitters, LockAndReadDedupe(s) PROVE LimitInv'
    <2>1. EnqueueLocked'
      BY <1>2, NobodyAssumption
      DEF LockAndReadDedupe, LimitInv, EnqueueLocked, EnqueueSection, TypeInv, TypeOK, SubmittersOK, redisVars, zsetVars, lockVars, submitterVars
    <2>2. RoomIsReserved' /\ PendingWithinLimit'
      BY <1>2 DEF LockAndReadDedupe, LimitInv, RoomIsReserved, PendingWithinLimit, TypeInv, TypeOK, SubmittersOK, redisVars, zsetVars, lockVars, submitterVars
    <2> QED BY <2>1, <2>2 DEF LimitInv
  <1>3. ASSUME NEW s \in Submitters, LockTimeout(s) PROVE LimitInv'
    BY <1>3, LimitLeaves DEF LockTimeout, SubmitterIdle, EnqueueSection, redisVars, zsetVars, lockVars, submitterVars
  <1>4. ASSUME NEW s \in Submitters, JoinExisting(s) PROVE LimitInv'
    BY <1>4, LimitLeaves DEF JoinExisting, SubmitterIdle, EnqueueSection, redisVars, zsetVars, lockVars, submitterVars
  <1>5. ASSUME NEW s \in Submitters, ExistingIsOver(s) PROVE LimitInv'
    <2>1. EnqueueLocked'
      BY <1>5, NobodyAssumption
      DEF ExistingIsOver, LimitInv, EnqueueLocked, EnqueueSection, TypeInv, TypeOK, SubmittersOK, redisVars, zsetVars, lockVars, submitterVars
    <2>2. RoomIsReserved' /\ PendingWithinLimit'
      BY <1>5 DEF ExistingIsOver, LimitInv, RoomIsReserved, PendingWithinLimit, TypeInv, TypeOK, SubmittersOK, redisVars, zsetVars, lockVars, submitterVars
    <2> QED BY <2>1, <2>2 DEF LimitInv
  <1>6. ASSUME NEW s \in Submitters, DropStaleDedupe(s) PROVE LimitInv'
    <2>1. EnqueueLocked'
      BY <1>6, NobodyAssumption
      DEF DropStaleDedupe, LimitInv, EnqueueLocked, EnqueueSection, TypeInv, TypeOK, SubmittersOK, redisVars, zsetVars, lockVars, submitterVars
    <2>2. RoomIsReserved' /\ PendingWithinLimit'
      BY <1>6 DEF DropStaleDedupe, LimitInv, RoomIsReserved, PendingWithinLimit, TypeInv, TypeOK, SubmittersOK, redisVars, zsetVars, lockVars, submitterVars
    <2> QED BY <2>1, <2>2 DEF LimitInv
  <1>7. ASSUME NEW s \in Submitters, CountPending(s) PROVE LimitInv'
    <2>1. EnqueueLocked'
      BY <1>7, NobodyAssumption
      DEF CountPending, LimitInv, EnqueueLocked, EnqueueSection, TypeInv, TypeOK, SubmittersOK, redisVars, zsetVars, lockVars, submitterVars
    <2>2. RoomIsReserved' /\ PendingWithinLimit'
      BY <1>7 DEF CountPending, LimitInv, RoomIsReserved, PendingWithinLimit, TypeInv, TypeOK, SubmittersOK, redisVars, zsetVars, lockVars, submitterVars
    <2> QED BY <2>1, <2>2 DEF LimitInv
  <1>8. ASSUME NEW s \in Submitters, QueueFull(s) PROVE LimitInv'
    BY <1>8, LimitLeaves DEF QueueFull, SubmitterIdle, EnqueueSection, redisVars, zsetVars, lockVars, submitterVars
  <1>9. ASSUME NEW s \in Submitters, Insert(s) PROVE LimitInv'
    <2>1. /\ pending' = pending \cup {sjob[s]} /\ spc' = [spc EXCEPT ![s] = "idle"]
          /\ enqLock = s /\ enqLock' = Nobody /\ Cardinality(pending) < PendingLimit
      BY <1>9 DEF Insert, SubmitterIdle, ReleaseEnqueueLock, LimitInv, EnqueueLocked, RoomIsReserved, EnqueueSection
    <2>2. Cardinality(pending') <= Cardinality(pending) + 1 /\ Cardinality(pending) \in Nat
          /\ Cardinality(pending') \in Nat
      BY <2>1, PendingIsFinite, FS_AddElement
    <2>3. \A r \in Submitters : spc'[r] \notin EnqueueSection
      BY <2>1 DEF LimitInv, EnqueueLocked, EnqueueSection, TypeInv, TypeOK, SubmittersOK
    <2> QED
      BY <2>1, <2>2, <2>3, BoundsAssumption
      DEF LimitInv, EnqueueLocked, RoomIsReserved, PendingWithinLimit, EnqueueSection
  <1>10. ASSUME NEW s \in Submitters, SubmitterFault(s) PROVE LimitInv'
    BY <1>10, LimitLeaves DEF SubmitterFault, SubmitterIdle, EnqueueSection, redisVars, zsetVars, lockVars, submitterVars
  <1>11. ASSUME NEW w \in Workers, ClaimPeek(w) PROVE LimitInv'
    BY <1>11, LimitShrinks DEF ClaimPeek, redisVars, zsetVars, lockVars, submitterVars
  <1>12. ASSUME NEW w \in Workers, AcquireSlot(w) PROVE LimitInv'
    BY <1>12, LimitShrinks DEF AcquireSlot, redisVars, zsetVars, lockVars, submitterVars
  <1>13. ASSUME NEW w \in Workers, ClaimRemove(w) PROVE LimitInv'
    BY <1>13, LimitShrinks DEF ClaimRemove, redisVars, zsetVars, lockVars, submitterVars
  <1>14. ASSUME NEW w \in Workers, ClaimActivate(w) PROVE LimitInv'
    BY <1>14, LimitShrinks DEF ClaimActivate, redisVars, zsetVars, lockVars, submitterVars
  <1>15. ASSUME NEW w \in Workers, FetchPayload(w) PROVE LimitInv'
    BY <1>15, LimitShrinks DEF FetchPayload, redisVars, zsetVars, lockVars, submitterVars
  <1>16. ASSUME NEW w \in Workers, ReportRead(w) PROVE LimitInv'
    BY <1>16, LimitShrinks DEF ReportRead, redisVars, zsetVars, lockVars, submitterVars
  <1>17. ASSUME NEW w \in Workers, ReportWrite(w) PROVE LimitInv'
    BY <1>17, LimitShrinks DEF ReportWrite, redisVars, zsetVars, lockVars, submitterVars
  <1>18. ASSUME NEW w \in Workers, MarkRead(w) PROVE LimitInv'
    BY <1>18, LimitShrinks DEF MarkRead, redisVars, zsetVars, lockVars, submitterVars
  <1>19. ASSUME NEW w \in Workers, MarkWrite(w) PROVE LimitInv'
    BY <1>19, LimitShrinks DEF MarkWrite, redisVars, zsetVars, lockVars, submitterVars
  <1>20. ASSUME NEW w \in Workers, RunReport(w) PROVE LimitInv'
    BY <1>20, LimitShrinks DEF RunReport, redisVars, zsetVars, lockVars, submitterVars
  <1>21. ASSUME NEW w \in Workers, RunTimesOut(w) PROVE LimitInv'
    BY <1>21, LimitShrinks DEF RunTimesOut, redisVars, zsetVars, lockVars, submitterVars
  <1>22. ASSUME NEW w \in Workers, NEW r \in Outcomes, RunFinish(w, r) PROVE LimitInv'
    BY <1>22, LimitShrinks DEF RunFinish, redisVars, zsetVars, lockVars, submitterVars
  <1>23. ASSUME NEW w \in Workers, CompleteRead(w) PROVE LimitInv'
    BY <1>23, LimitShrinks DEF CompleteRead, redisVars, zsetVars, lockVars, submitterVars
  <1>24. ASSUME NEW w \in Workers, CompleteWrite(w) PROVE LimitInv'
    BY <1>24, LimitShrinks DEF CompleteWrite, redisVars, zsetVars, lockVars, submitterVars, Finish
  <1>25. ASSUME NEW w \in Workers, WorkerCrash(w) PROVE LimitInv'
    BY <1>25, LimitShrinks DEF WorkerCrash, redisVars, zsetVars, lockVars, submitterVars
  <1>26. ASSUME NEW w \in Workers, ReportError(w) PROVE LimitInv'
    BY <1>26, LimitShrinks DEF ReportError, redisVars, zsetVars, lockVars, submitterVars
  <1>27. ASSUME NEW w \in Workers, MarkError(w) PROVE LimitInv'
    BY <1>27, LimitShrinks DEF MarkError, redisVars, zsetVars, lockVars, submitterVars
  <1>28. ASSUME NEW r \in Reapers, ReapScan(r) PROVE LimitInv'
    BY <1>28, LimitShrinks DEF ReapScan, redisVars, zsetVars, lockVars, submitterVars
  <1>29. ASSUME NEW r \in Reapers, NEW j \in Jobs, ReapRead(r, j) PROVE LimitInv'
    BY <1>29, LimitShrinks DEF ReapRead, redisVars, zsetVars, lockVars, submitterVars
  <1>30. ASSUME NEW r \in Reapers, ReapFailRead(r) PROVE LimitInv'
    BY <1>30, LimitShrinks DEF ReapFailRead, redisVars, zsetVars, lockVars, submitterVars
  <1>31. ASSUME NEW r \in Reapers, ReapFailWrite(r) PROVE LimitInv'
    BY <1>31, LimitShrinks DEF ReapFailWrite, redisVars, zsetVars, lockVars, submitterVars, Finish
  <1>32. ASSUME NEW r \in Reapers, ReapClearActive(r) PROVE LimitInv'
    BY <1>32, LimitShrinks DEF ReapClearActive, redisVars, zsetVars, lockVars, submitterVars
  <1>33. ASSUME NEW r \in Reapers, ReapClearPending(r) PROVE LimitInv'
    BY <1>33, LimitShrinks DEF ReapClearPending, redisVars, zsetVars, lockVars, submitterVars
  <1>34. ASSUME NEW r \in Reapers, ReaperFault(r) PROVE LimitInv'
    BY <1>34, LimitShrinks DEF ReaperFault, redisVars, zsetVars, lockVars, submitterVars
  <1>35. ASSUME ExpireEnqueueLock PROVE LimitInv'
    BY <1>35, NobodyAssumption
    DEF ExpireEnqueueLock, LimitInv, EnqueueLocked, RoomIsReserved, PendingWithinLimit, redisVars, zsetVars, lockVars, submitterVars
  <1>36. ASSUME ExpireClaimLock PROVE LimitInv'
    BY <1>36, LimitShrinks DEF ExpireClaimLock, redisVars, zsetVars, lockVars, submitterVars
  <1>37. ASSUME Tick PROVE LimitInv'
    BY <1>37, LimitShrinks DEF Tick, redisVars, zsetVars, lockVars, submitterVars
  <1>38. CASE UNCHANGED vars
    BY <1>38, LimitShrinks DEF vars, redisVars, zsetVars, lockVars, submitterVars
  <1> QED
    BY <1>1, <1>2, <1>3, <1>4, <1>5, <1>6, <1>7, <1>8, <1>9, <1>10, <1>11, <1>12, <1>13, <1>14, <1>15, <1>16, <1>17, <1>18, <1>19, <1>20, <1>21, <1>22, <1>23, <1>24, <1>25, <1>26, <1>27, <1>28, <1>29, <1>30, <1>31, <1>32, <1>33, <1>34, <1>35, <1>36, <1>37, <1>38
    DEF Next, SubmitterNext, SubmitterStep, WorkerNext, WorkerStep, ReaperStep

\* JOB_PENDING_LIMIT is never exceeded, for any number of replicas, as long as an enqueue()
\* finishes within the lease of its lock.
THEOREM LimitIsKept ==
  ASSUME LockExpires = FALSE
  PROVE  Spec => []PendingWithinLimit
  <1>1. Init => TypeInv /\ LimitInv
    BY TypeInit, LimitInit
  <1>2. (TypeInv /\ LimitInv) /\ [Next]_vars => (TypeInv /\ LimitInv)'
    BY TypeStep, LimitStep
  <1>3. TypeInv /\ LimitInv => PendingWithinLimit
    BY DEF LimitInv
  <1> QED
    BY <1>1, <1>2, <1>3, PTL DEF Spec

-----------------------------------------------------------------------------
(* Counting.  A job waits, is moved by one worker, is claimed and is then  *)
(* forgotten, in this order: what a reaper or the active zset has named  *)
(* once is never up for claiming again, so that the removals of complete() *)
(* and reap_stale() cannot take a job that waits out of pending.           *)

\* The jobs that have been claimed and those the reapers work on.
Taken == active \cup UNION {rtodo[r] \cup {rjob[r]} : r \in Reapers}

ClaimIsCounted == \A w \in Workers : wpc[w] = "zadd" => wjob[w] \in pending
TakenIsOver ==
  /\ \A j \in Taken : j <= issued /\ j \notin ready
  /\ \A w \in Workers : wpc[w] = "zadd" => wjob[w] \notin Taken
  /\ \A s \in Submitters : spc[s] # "idle" => sjob[s] \notin Taken
ClearedIsInactive == \A r \in Reapers : rpc[r] = "clear2" => rjob[r] \notin active

CountInv == QueuedIsCounted /\ ClaimIsCounted /\ TakenIsOver /\ ClearedIsInactive

LEMMA CountInit == Init => CountInv
  BY DEF Init, CountInv, QueuedIsCounted, ClaimIsCounted, TakenIsOver, ClearedIsInactive, Taken

\* The invariant reads only these variables.
LEMMA CountFrame ==
  ASSUME CountInv, UNCHANGED <<ready, active, pending, submitterVars, wpc, wjob, reaperVars>>
  PROVE  CountInv'
  BY DEF submitterVars, reaperVars, CountInv, QueuedIsCounted, ClaimIsCounted, TakenIsOver, ClearedIsInactive, Taken

\* A worker between two other commands, or that leaves without a command, moves no job.
LEMMA CountWorker ==
  ASSUME TypeInv, CountInv, NEW w \in Workers, NEW p, p # "zadd", WorkerGoes(w, p),
         UNCHANGED wjob \/ \E j : wjob' = [wjob EXCEPT ![w] = j],
         UNCHANGED <<ready, active, pending, submitterVars, reaperVars>>
  PROVE  CountInv'
  <1>1. /\ \A v \in Workers : wpc'[v] = "zadd" => wpc[v] = "zadd" /\ wjob'[v] = wjob[v]
        /\ UNCHANGED <<ready, active, pending, issued, spc, sjob, rpc, rtodo, rjob>>
    BY DEF TypeInv, TypeOK, WorkersOK, WorkerGoes, submitterVars, reaperVars
  <1> QED
    BY <1>1 DEF CountInv, QueuedIsCounted, ClaimIsCounted, TakenIsOver, ClearedIsInactive, Taken

\* Nor does a submitter before its MULTI, or that leaves without it.
LEMMA CountSubmitter ==
  ASSUME TypeInv, CountInv, NEW s \in Submitters, spc[s] # "idle",
         SubmitterIdle(s) \/ (UNCHANGED <<issued, sjob>> /\ \E p : spc' = [spc EXCEPT ![s] = p]),
         UNCHANGED <<ready, active, pending, wpc, wjob, reaperVars>>
  PROVE  CountInv'
  <1>1. /\ \A r \in Submitters : spc'[r] # "idle" => spc[r] # "idle" /\ sjob'[r] = sjob[r]
        /\ UNCHANGED <<ready, active, pending, issued, wpc, wjob, rpc, rtodo, rjob>>
    BY DEF TypeInv, TypeOK, SubmittersOK, SubmitterIdle, reaperVars
  <1> QED
    BY <1>1 DEF CountInv, QueuedIsCounted, ClaimIsCounted, TakenIsOver, ClearedIsInactive, Taken

\* The mark of a process without a job is no job.
LEMMA ZeroIsNoJob ==
  ASSUME TypeInv
  PROVE  /\ 0 \notin ready /\ 0 <= issued
         /\ \A w \in Workers : wpc[w] = "zadd" => wjob[w] # 0
         /\ \A s \in Submitters : spc[s] # "idle" => sjob[s] # 0
  <1>1. 0 \notin ready /\ issued \in Nat
    BY BoundsAssumption DEF TypeInv, TypeOK, ZsetsOK, SubmittersOK, Jobs
  <1>2. \A w \in Workers : wpc[w] = "zadd" => wjob[w] # 0
    BY BoundsAssumption DEF TypeInv, WorkerHasJob, Jobs
  <1>3. \A s \in Submitters : spc[s] # "idle" => sjob[s] # 0
    BY <1>1 DEF TypeInv, SubmitterHasJob
  <1> QED
    BY <1>1, <1>2, <1>3

\* A reaper names no job that was not claimed, and forgets only the one it works on.
LEMMA CountReaper ==
  ASSUME TypeInv, CountInv, NEW r \in Reapers, NEW p, NEW todo, NEW j, NEW fp,
         ReaperGoes(r, p, todo, j, fp), todo \cup {j} \subseteq Taken \cup {0},
         UNCHANGED <<ready, wpc, wjob, submitterVars>>, active' \subseteq active,
         \A k \in pending : k \in pending' \/ (k = rjob[r] /\ k \notin active'),
         p = "clear2" => j \notin active'
  PROVE  CountInv'
  <1> USE DEF CountInv
  <1>1. rjob[r] \in Taken /\ rtodo[r] \subseteq Taken
    BY DEF Taken
  <1>2. /\ \A q \in Reapers : rtodo'[q] \cup {rjob'[q]} \subseteq Taken \cup {0}
        /\ \A q \in Reapers : rpc'[q] = "clear2" => rjob'[q] \notin active'
    <2>1. \A q \in Reapers : rtodo[q] \cup {rjob[q]} \subseteq Taken
      BY DEF Taken
    <2>2. /\ rpc' = [rpc EXCEPT ![r] = p] /\ rtodo' = [rtodo EXCEPT ![r] = todo]
          /\ rjob' = [rjob EXCEPT ![r] = j]
      BY DEF ReaperGoes
    <2> QED
      BY <2>1, <2>2 DEF TypeInv, TypeOK, ReapersOK, ClearedIsInactive
  <1>3. Taken' \subseteq Taken \cup {0}
    BY <1>2 DEF Taken
  <1>4. QueuedIsCounted' /\ ClaimIsCounted'
    BY <1>1 DEF QueuedIsCounted, ClaimIsCounted, TakenIsOver
  <1>5. TakenIsOver'
    BY <1>3, ZeroIsNoJob DEF TakenIsOver, submitterVars
  <1> QED
    BY <1>2, <1>4, <1>5 DEF ClearedIsInactive

\* With one owner per job, every step keeps the jobs that wait or are claimed counted.
LEMMA CountStep ==
  TypeInv /\ ClaimInv /\ CountInv /\ [Next]_vars => CountInv'
  <1> SUFFICES ASSUME TypeInv, ClaimInv, CountInv, [Next]_vars PROVE CountInv'
    OBVIOUS
  <1>1. ASSUME NEW s \in Submitters, NEW f \in Fingerprints, Submit(s, f) PROVE CountInv'
    <2>1. /\ issued' = issued + 1 /\ issued \in Nat /\ spc[s] = "idle"
          /\ spc' = [spc EXCEPT ![s] = "lock"] /\ sjob' = [sjob EXCEPT ![s] = issued + 1]
          /\ UNCHANGED <<ready, active, pending, wpc, wjob, rpc, rtodo, rjob>>
      BY <1>1, BoundsAssumption DEF Submit, TypeInv, TypeOK, SubmittersOK, redisVars, zsetVars, lockVars, submitterVars, workerVars, reaperVars
    <2>2. \A j \in Taken : j \in Int /\ j <= issued
      <3>1. Taken \subseteq 0..MaxJobs
        <4>1. \A r \in Reapers : rtodo[r] \subseteq 0..MaxJobs /\ rjob[r] \in 0..MaxJobs
          BY Ranges DEF TypeInv, TypeOK, ReapersOK
        <4>2. active \subseteq 0..MaxJobs
          BY Ranges DEF TypeInv, TypeOK, ZsetsOK
        <4> QED
          BY <4>1, <4>2 DEF Taken
      <3>2. \A j \in Taken : j <= issued
        BY DEF CountInv, TakenIsOver
      <3> QED
        BY <3>1, <3>2, BoundsAssumption
    <2>3. issued + 1 \notin Taken /\ \A j \in Taken : j <= issued + 1
      BY <2>1, <2>2
    <2>4. Taken' = Taken
      BY <2>1 DEF Taken
    <2>5. \A r \in Submitters : spc'[r] # "idle" => sjob'[r] \notin Taken
      BY <2>1, <2>3 DEF CountInv, TakenIsOver, TypeInv, TypeOK, SubmittersOK
    <2> QED
      BY <2>1, <2>3, <2>4, <2>5 DEF CountInv, QueuedIsCounted, ClaimIsCounted, TakenIsOver, ClearedIsInactive
  <1>2. ASSUME NEW s \in Submitters, LockAndReadDedupe(s) PROVE CountInv'
    BY <1>2, CountSubmitter DEF LockAndReadDedupe, redisVars, zsetVars, lockVars, submitterVars, workerVars, reaperVars
  <1>3. ASSUME NEW s \in Submitters, LockTimeout(s) PROVE CountInv'
    BY <1>3, CountSubmitter DEF LockTimeout, redisVars, zsetVars, lockVars, submitterVars, workerVars, reaperVars
  <1>4. ASSUME NEW s \in Submitters, JoinExisting(s) PROVE CountInv'
    BY <1>4, CountSubmitter DEF JoinExisting, redisVars, zsetVars, lockVars, submitterVars, workerVars, reaperVars
  <1>5. ASSUME NEW s \in Submitters, ExistingIsOver(s) PROVE CountInv'
    BY <1>5, CountSubmitter DEF ExistingIsOver, redisVars, zsetVars, lockVars, submitterVars, workerVars, reaperVars
  <1>6. ASSUME NEW s \in Submitters, DropStaleDedupe(s) PROVE CountInv'
    BY <1>6, CountSubmitter DEF DropStaleDedupe, redisVars, zsetVars, lockVars, submitterVars, workerVars, reaperVars
  <1>7. ASSUME NEW s \in Submitters, CountPending(s) PROVE CountInv'
    BY <1>7, CountSubmitter DEF CountPending, redisVars, zsetVars, lockVars, submitterVars, workerVars, reaperVars
  <1>8. ASSUME NEW s \in Submitters, QueueFull(s) PROVE CountInv'
    BY <1>8, CountSubmitter DEF QueueFull, redisVars, zsetVars, lockVars, submitterVars, workerVars, reaperVars
  <1>9. ASSUME NEW s \in Submitters, Insert(s) PROVE CountInv'
    <2>1. /\ sjob[s] \notin Taken /\ spc[s] # "idle" /\ SubmitterIdle(s)
          /\ ready' = ready \cup {sjob[s]} /\ pending' = pending \cup {sjob[s]}
          /\ UNCHANGED <<active, wpc, wjob, rpc, rtodo, rjob>>
      BY <1>9 DEF Insert, CountInv, TakenIsOver, redisVars, zsetVars, lockVars, submitterVars, workerVars, reaperVars
    <2>2. UNCHANGED <<issued, Taken>>
          /\ \A r \in Submitters : spc'[r] # "idle" => spc[r] # "idle" /\ sjob'[r] = sjob[r]
      BY <2>1 DEF Taken, SubmitterIdle, TypeInv, TypeOK, SubmittersOK
    <2> QED
      BY <2>1, <2>2 DEF CountInv, QueuedIsCounted, ClaimIsCounted, TakenIsOver, ClearedIsInactive
  <1>10. ASSUME NEW s \in Submitters, SubmitterFault(s) PROVE CountInv'
    BY <1>10, CountSubmitter DEF SubmitterFault, redisVars, zsetVars, lockVars, submitterVars, workerVars, reaperVars
  <1>11. ASSUME NEW w \in Workers, ClaimPeek(w) PROVE CountInv'
    BY <1>11, CountWorker DEF ClaimPeek, redisVars, zsetVars, lockVars, submitterVars, workerVars, reaperVars
  <1>12. ASSUME NEW w \in Workers, AcquireSlot(w) PROVE CountInv'
    BY <1>12, CountWorker DEF AcquireSlot, redisVars, zsetVars, lockVars, submitterVars, workerVars, reaperVars
  <1>13. ASSUME NEW w \in Workers, ClaimRemove(w) PROVE CountInv'
    <2>1. /\ wjob[w] \in ready /\ ready' = ready \ {wjob[w]}
          /\ wpc' = [wpc EXCEPT ![w] = "zadd"] /\ UNCHANGED <<wjob, active, pending, issued, spc, sjob, rpc, rtodo, rjob>>
      BY <1>13 DEF ClaimRemove, ClaimInv, PeekedIsReady, WorkerGoes, redisVars, zsetVars, lockVars, submitterVars, workerVars, reaperVars
    <2>2. wjob[w] \in pending /\ wjob[w] \notin Taken /\ Taken' = Taken
      BY <2>1 DEF CountInv, QueuedIsCounted, TakenIsOver, Taken
    <2>3. \A v \in Workers : wpc'[v] = "zadd" => wpc[v] = "zadd" \/ v = w
      BY <2>1 DEF TypeInv, TypeOK, WorkersOK
    <2> QED
      BY <2>1, <2>2, <2>3 DEF CountInv, QueuedIsCounted, ClaimIsCounted, TakenIsOver, ClearedIsInactive
  <1>14. ASSUME NEW w \in Workers, ClaimActivate(w) PROVE CountInv'
    <2> DEFINE j == wjob[w]
    <2>1. /\ wpc[w] = "zadd" /\ active' = active \cup {j} /\ wpc' = [wpc EXCEPT ![w] = "fetch"]
          /\ UNCHANGED <<wjob, ready, pending, issued, spc, sjob, rpc, rtodo, rjob>>
      BY <1>14 DEF ClaimActivate, WorkerGoes, redisVars, zsetVars, lockVars, submitterVars, workerVars, reaperVars
    <2>2. j \in pending /\ j \notin Taken
      BY <2>1 DEF CountInv, ClaimIsCounted, TakenIsOver
    <2>3. j \notin ready /\ \A v \in Workers \ {w} : wpc[v] = "zadd" => wjob[v] # j
      BY <2>1 DEF ClaimInv, SingleOwner, Holds
    <2>4. j <= issued /\ \A s \in Submitters : spc[s] # "idle" => sjob[s] # j
      BY <2>1, BoundsAssumption DEF ClaimInv, UsedIsIssued, NewIsNew, TypeInv, TypeOK, SubmittersOK
    <2>5. \A v \in Workers : wpc'[v] = "zadd" => wpc[v] = "zadd" /\ v # w
      BY <2>1 DEF TypeInv, TypeOK, WorkersOK
    <2>6. Taken' = Taken \cup {j}
      BY <2>1 DEF Taken
    <2> HIDE DEF j
    <2>7. TakenIsOver'
      BY <2>1, <2>3, <2>4, <2>5, <2>6 DEF CountInv, TakenIsOver
    <2>8. QueuedIsCounted' /\ ClaimIsCounted'
      BY <2>1, <2>2, <2>5 DEF CountInv, QueuedIsCounted, ClaimIsCounted
    <2>9. ClearedIsInactive'
      BY <2>1, <2>2 DEF CountInv, ClearedIsInactive, Taken
    <2> QED
      BY <2>7, <2>8, <2>9 DEF CountInv
  <1>15. ASSUME NEW w \in Workers, FetchPayload(w) PROVE CountInv'
    <2>1. UNCHANGED <<wjob, ready, active, pending, submitterVars, reaperVars>>
      BY <1>15 DEF FetchPayload, redisVars, zsetVars, lockVars, submitterVars, workerVars, reaperVars
    <2>2. \E p : WorkerGoes(w, p) /\ p # "zadd"
      BY <1>15 DEF FetchPayload
    <2> QED BY <2>1, <2>2, CountWorker
  <1>16. ASSUME NEW w \in Workers, ReportRead(w) PROVE CountInv'
    <2>1. UNCHANGED <<wjob, ready, active, pending, submitterVars, reaperVars>>
      BY <1>16 DEF ReportRead, redisVars, zsetVars, lockVars, submitterVars, workerVars, reaperVars
    <2>2. \E p : WorkerGoes(w, p) /\ p # "zadd"
      BY <1>16 DEF ReportRead, WriteOf, AfterReport
    <2> QED BY <2>1, <2>2, CountWorker
  <1>17. ASSUME NEW w \in Workers, ReportWrite(w) PROVE CountInv'
    <2>1. UNCHANGED <<wjob, ready, active, pending, submitterVars, reaperVars>>
      BY <1>17 DEF ReportWrite, redisVars, zsetVars, lockVars, submitterVars, workerVars, reaperVars
    <2>2. \E p : WorkerGoes(w, p) /\ p # "zadd"
      BY <1>17 DEF ReportWrite, AfterWrite
    <2> QED BY <2>1, <2>2, CountWorker
  <1>18. ASSUME NEW w \in Workers, MarkRead(w) PROVE CountInv'
    <2>1. CASE state[wjob[w]] = "queued"
      BY <1>18, <2>1, CountWorker DEF MarkRead, redisVars, zsetVars, lockVars, submitterVars, workerVars, reaperVars
    <2>2. CASE state[wjob[w]] # "queued"
      BY <1>18, <2>2, CountWorker DEF MarkRead, WorkerIdle, redisVars, zsetVars, lockVars, submitterVars, workerVars, reaperVars
    <2> QED BY <2>1, <2>2
  <1>19. ASSUME NEW w \in Workers, MarkWrite(w) PROVE CountInv'
    BY <1>19, CountWorker DEF MarkWrite, redisVars, zsetVars, lockVars, submitterVars, workerVars, reaperVars
  <1>20. ASSUME NEW w \in Workers, RunReport(w) PROVE CountInv'
    BY <1>20, CountWorker DEF RunReport, redisVars, zsetVars, lockVars, submitterVars, workerVars, reaperVars
  <1>21. ASSUME NEW w \in Workers, RunTimesOut(w) PROVE CountInv'
    BY <1>21, CountWorker DEF RunTimesOut, ToComplete, redisVars, zsetVars, lockVars, submitterVars, workerVars, reaperVars
  <1>22. ASSUME NEW w \in Workers, NEW r \in Outcomes, RunFinish(w, r) PROVE CountInv'
    BY <1>22, CountWorker DEF RunFinish, ToComplete, redisVars, zsetVars, lockVars, submitterVars, workerVars, reaperVars
  <1>23. ASSUME NEW w \in Workers, CompleteRead(w) PROVE CountInv'
    <2>1. UNCHANGED <<wjob, ready, active, pending, submitterVars, reaperVars>>
      BY <1>23 DEF CompleteRead, redisVars, zsetVars, lockVars, submitterVars, workerVars, reaperVars
    <2>2. \E p : WorkerGoes(w, p) /\ p # "zadd"
      BY <1>23 DEF CompleteRead
    <2> QED BY <2>1, <2>2, CountWorker
  <1>24. ASSUME NEW w \in Workers, CompleteWrite(w) PROVE CountInv'
    <2> DEFINE j == wjob[w]
    <2>1. /\ Holds(w) /\ active' = active \ {j} /\ pending' = pending \ {j} /\ wpc' = [wpc EXCEPT ![w] = "idle"]
          /\ wjob' = [wjob EXCEPT ![w] = 0]
          /\ UNCHANGED <<ready, issued, spc, sjob, rpc, rtodo, rjob>>
      BY <1>24 DEF CompleteWrite, Finish, WorkerIdle, WorkerGoes, Holds, redisVars, zsetVars, lockVars, submitterVars, workerVars, reaperVars
    <2>2. j \notin ready /\ \A v \in Workers \ {w} : wpc[v] = "zadd" => wjob[v] # j
      BY <2>1 DEF ClaimInv, SingleOwner, Holds
    <2>3. \A v \in Workers : wpc'[v] = "zadd" => wpc[v] = "zadd" /\ v # w /\ wjob'[v] = wjob[v]
      BY <2>1 DEF TypeInv, TypeOK, WorkersOK
    <2>4. Taken' \subseteq Taken
      BY <2>1 DEF Taken
    <2> HIDE DEF j
    <2>5. TakenIsOver'
      BY <2>1, <2>3, <2>4 DEF CountInv, TakenIsOver
    <2>6. QueuedIsCounted' /\ ClaimIsCounted' /\ ClearedIsInactive'
      BY <2>1, <2>2, <2>3 DEF CountInv, QueuedIsCounted, ClaimIsCounted, ClearedIsInactive
    <2> QED
      BY <2>5, <2>6 DEF CountInv
  <1>25. ASSUME NEW w \in Workers, WorkerCrash(w) PROVE CountInv'
    BY <1>25, CountWorker DEF WorkerCrash, WorkerIdle, redisVars, zsetVars, lockVars, submitterVars, workerVars, reaperVars
  <1>26. ASSUME NEW w \in Workers, ReportError(w) PROVE CountInv'
    <2>1. UNCHANGED <<wjob, ready, active, pending, submitterVars, reaperVars>>
      BY <1>26 DEF ReportError, redisVars, zsetVars, lockVars, submitterVars, workerVars, reaperVars
    <2>2. \E p : WorkerGoes(w, p) /\ p # "zadd"
      BY <1>26 DEF ReportError, WriteOf, AfterReport, AfterWrite
    <2> QED BY <2>1, <2>2, CountWorker
  <1>27. ASSUME NEW w \in Workers, MarkError(w) PROVE CountInv'
    BY <1>27, CountWorker DEF MarkError, ToComplete, redisVars, zsetVars, lockVars, submitterVars, workerVars, reaperVars
  <1>0. \A r \in Reapers : rtodo[r] \cup {rjob[r]} \subseteq Taken
    BY DEF Taken
  <1>28. ASSUME NEW r \in Reapers, ReapScan(r) PROVE CountInv'
    BY <1>28, <1>0, CountReaper DEF ReapScan, Taken, redisVars, zsetVars, lockVars, submitterVars, workerVars
  <1>29. ASSUME NEW r \in Reapers, NEW j \in Jobs, ReapRead(r, j) PROVE CountInv'
    BY <1>29, <1>0, CountReaper DEF ReapRead, redisVars, zsetVars, lockVars, submitterVars, workerVars
  <1>30. ASSUME NEW r \in Reapers, ReapFailRead(r) PROVE CountInv'
    BY <1>30, <1>0, CountReaper DEF ReapFailRead, redisVars, zsetVars, lockVars, submitterVars, workerVars
  <1>31. ASSUME NEW r \in Reapers, ReapFailWrite(r) PROVE CountInv'
    BY <1>31, <1>0, CountReaper DEF ReapFailWrite, Finish, ReaperNext, redisVars, zsetVars, lockVars, submitterVars, workerVars
  <1>32. ASSUME NEW r \in Reapers, ReapClearActive(r) PROVE CountInv'
    BY <1>32, <1>0, CountReaper DEF ReapClearActive, redisVars, zsetVars, lockVars, submitterVars, workerVars
  <1>33. ASSUME NEW r \in Reapers, ReapClearPending(r) PROVE CountInv'
    BY <1>33, <1>0, CountReaper DEF ReapClearPending, ReaperNext, CountInv, ClearedIsInactive, redisVars, zsetVars, lockVars, submitterVars, workerVars
  <1>34. ASSUME NEW r \in Reapers, ReaperFault(r) PROVE CountInv'
    BY <1>34, <1>0, CountReaper DEF ReaperFault, redisVars, zsetVars, lockVars, submitterVars, workerVars
  <1>35. ASSUME ExpireEnqueueLock PROVE CountInv'
    BY <1>35, CountFrame DEF ExpireEnqueueLock, redisVars, zsetVars, lockVars, submitterVars, workerVars, reaperVars
  <1>36. ASSUME ExpireClaimLock PROVE CountInv'
    BY <1>36, CountFrame DEF ExpireClaimLock, redisVars, zsetVars, lockVars, submitterVars, workerVars, reaperVars
  <1>37. ASSUME Tick PROVE CountInv'
    BY <1>37, CountFrame DEF Tick, redisVars, zsetVars, lockVars, submitterVars, workerVars, reaperVars
  <1>38. CASE UNCHANGED vars
    BY <1>38, CountFrame DEF vars, redisVars, zsetVars, lockVars, submitterVars, workerVars, reaperVars
  <1> QED
    BY <1>1, <1>2, <1>3, <1>4, <1>5, <1>6, <1>7, <1>8, <1>9, <1>10, <1>11, <1>12, <1>13, <1>14, <1>15, <1>16, <1>17, <1>18, <1>19, <1>20, <1>21, <1>22, <1>23, <1>24, <1>25, <1>26, <1>27, <1>28, <1>29, <1>30, <1>31, <1>32, <1>33, <1>34, <1>35, <1>36, <1>37, <1>38
    DEF Next, SubmitterNext, SubmitterStep, WorkerNext, WorkerStep, ReaperStep

\* Every job that waits or is claimed counts against the limit: no order of the removals in
\* complete() and reap_stale() frees its place in the queue early.
THEOREM QueuedJobsAreCounted ==
  ASSUME LockExpires = FALSE
  PROVE  Spec => []QueuedIsCounted
  <1>1. Init => TypeInv /\ ClaimInv /\ CountInv
    BY TypeInit, ClaimInit, CountInit
  <1>2. (TypeInv /\ ClaimInv /\ CountInv) /\ [Next]_vars => (TypeInv /\ ClaimInv /\ CountInv)'
    BY TypeStep, ClaimStep, CountStep
  <1>3. TypeInv /\ ClaimInv /\ CountInv => QueuedIsCounted
    BY DEF CountInv
  <1> QED
    BY <1>1, <1>2, <1>3, PTL DEF Spec

-----------------------------------------------------------------------------
(* A place in the queue is lost by faults only, whatever a lease does: a   *)
(* job leaves one of the zsets that lead to it in the same command in      *)
(* which it leaves pending, or to a process that takes it further.  What   *)
(* such a process has in hand is lost if it dies then, which torn counts.  *)

\* What most steps keep.
NoneLost == Orphans' \subseteq Orphans /\ UNCHANGED torn

LEMMA OrphanFrame ==
  ASSUME UNCHANGED <<ready, active, pending, wpc, wjob, reaperVars, torn>>
  PROVE  NoneLost
  BY DEF NoneLost, Orphans, Reachable, reaperVars

\* A worker outside claim()'s window leads to no job in pending by itself.
LEMMA OrphanWorker ==
  ASSUME TypeInv, NEW w \in Workers, wpc[w] # "zadd", NEW p, WorkerGoes(w, p),
         UNCHANGED wjob \/ \E j : wjob' = [wjob EXCEPT ![w] = j],
         UNCHANGED <<ready, active, pending, reaperVars, torn>>
  PROVE  NoneLost
  <1>1. \A v \in Workers : wpc[v] = "zadd" => wpc'[v] = "zadd" /\ wjob'[v] = wjob[v]
    BY DEF TypeInv, TypeOK, WorkersOK, WorkerGoes
  <1> QED
    BY <1>1 DEF NoneLost, Orphans, Reachable, reaperVars

\* Nor does a reaper, as long as what it takes out of active or clear2 is forgotten or cleared next.
LEMMA OrphanReaper ==
  ASSUME TypeInv, NEW r \in Reapers, NEW p, NEW todo, NEW j, NEW fp,
         ReaperGoes(r, p, todo, j, fp), UNCHANGED <<ready, wpc, wjob, torn>>, pending' \subseteq pending,
         \A k \in active \cap pending' : k \in active' \/ (p = "clear2" /\ k = j),
         rpc[r] = "clear2" => rjob[r] \notin pending'
  PROVE  NoneLost
  <1>1. \A q \in Reapers : /\ q # r => rpc'[q] = rpc[q] /\ rjob'[q] = rjob[q]
                           /\ q = r => rpc'[q] = p /\ rjob'[q] = j
    BY DEF TypeInv, TypeOK, ReapersOK, ReaperGoes
  <1>2. ASSUME NEW k \in pending', k \notin Orphans
        PROVE  \/ k \in ready' \cup active' \cup {wjob'[w] : w \in {v \in Workers : wpc'[v] = "zadd"}}
               \/ \E q \in Reapers : rpc'[q] = "clear2" /\ rjob'[q] = k
    <2>0. \/ k \in ready \cup {wjob[w] : w \in {v \in Workers : wpc[v] = "zadd"}} \/ k \in active
          \/ \E q \in Reapers : rpc[q] = "clear2" /\ rjob[q] = k
      BY <1>2 DEF Orphans, Reachable
    <2>1. CASE k \in active
      BY <1>1, <1>2, <2>1
    <2>2. CASE \E q \in Reapers : rpc[q] = "clear2" /\ rjob[q] = k
      BY <1>1, <1>2, <2>2
    <2>3. CASE k \in ready \cup {wjob[w] : w \in {v \in Workers : wpc[v] = "zadd"}}
      BY <2>3
    <2> QED
      BY <2>0, <2>1, <2>2, <2>3
  <1> QED
    BY <1>2 DEF NoneLost, Orphans, Reachable

\* A process that dies with a job in hand loses that job.
OneLost == (\E j \in Int : Orphans' \subseteq Orphans \cup {j}) /\ torn' = torn + 1

LEMMA CrashLosesOne ==
  ASSUME TypeInv, NEW w \in Workers, WorkerCrash(w)
  PROVE  NoneLost \/ OneLost
  <1>1. torn \in Int /\ wjob[w] \in Int
    BY BoundsAssumption DEF TypeInv, TypeOK, WorkersOK
  <1>2. CASE wpc[w] # "zadd"
    <2>1. UNCHANGED torn
      BY <1>1, <1>2 DEF WorkerCrash
    <2> QED
      BY <1>2, <2>1, OrphanWorker DEF WorkerCrash, WorkerIdle, redisVars, zsetVars, lockVars, submitterVars, reaperVars
  <1>3. CASE wpc[w] = "zadd"
    <2>1. torn' = torn + 1 /\ UNCHANGED <<ready, active, pending, rpc, rjob>>
      BY <1>3 DEF WorkerCrash, redisVars, zsetVars, reaperVars
    <2>2. \A v \in Workers \ {w} : wpc'[v] = wpc[v] /\ wjob'[v] = wjob[v]
      BY DEF WorkerCrash, WorkerIdle, WorkerGoes, TypeInv, TypeOK, WorkersOK
    <2>3. Orphans' \subseteq Orphans \cup {wjob[w]}
      BY <2>1, <2>2 DEF Orphans, Reachable
    <2> QED
      BY <1>1, <2>1, <2>3 DEF OneLost
  <1> QED
    BY <1>2, <1>3

LEMMA ReaperFaultLosesOne ==
  ASSUME TypeInv, NEW r \in Reapers, ReaperFault(r)
  PROVE  NoneLost \/ OneLost
  <1>1. torn \in Int /\ rjob[r] \in Int
    BY BoundsAssumption DEF TypeInv, TypeOK, ReapersOK
  <1>2. CASE rpc[r] # "clear2"
    <2>1. UNCHANGED torn
      BY <1>1, <1>2 DEF ReaperFault
    <2> QED
      BY <1>2, <2>1, OrphanReaper DEF ReaperFault, redisVars, zsetVars, workerVars
  <1>3. CASE rpc[r] = "clear2"
    <2>1. torn' = torn + 1 /\ UNCHANGED <<ready, active, pending, wpc, wjob>>
      BY <1>3 DEF ReaperFault, redisVars, zsetVars, workerVars
    <2>2. \A q \in Reapers \ {r} : rpc'[q] = rpc[q] /\ rjob'[q] = rjob[q]
      BY DEF ReaperFault, ReaperGoes, TypeInv, TypeOK, ReapersOK
    <2>3. Orphans' \subseteq Orphans \cup {rjob[r]}
      BY <2>1, <2>2 DEF Orphans, Reachable
    <2> QED
      BY <1>1, <2>1, <2>3 DEF OneLost
  <1> QED
    BY <1>2, <1>3

LEMMA OrphanStep == TypeInv /\ [Next]_vars => NoneLost \/ OneLost
  <1> SUFFICES ASSUME TypeInv, [Next]_vars PROVE NoneLost \/ OneLost
    OBVIOUS
  <1>1. ASSUME NEW s \in Submitters, NEW f \in Fingerprints, Submit(s, f) PROVE NoneLost
    BY <1>1, OrphanFrame DEF Submit, redisVars, zsetVars, lockVars, submitterVars, workerVars, reaperVars
  <1>2. ASSUME NEW s \in Submitters, LockAndReadDedupe(s) PROVE NoneLost
    BY <1>2, OrphanFrame DEF LockAndReadDedupe, redisVars, zsetVars, lockVars, submitterVars, workerVars, reaperVars
  <1>3. ASSUME NEW s \in Submitters, LockTimeout(s) PROVE NoneLost
    BY <1>3, OrphanFrame DEF LockTimeout, redisVars, zsetVars, lockVars, submitterVars, workerVars, reaperVars
  <1>4. ASSUME NEW s \in Submitters, JoinExisting(s) PROVE NoneLost
    BY <1>4, OrphanFrame DEF JoinExisting, redisVars, zsetVars, lockVars, submitterVars, workerVars, reaperVars
  <1>5. ASSUME NEW s \in Submitters, ExistingIsOver(s) PROVE NoneLost
    BY <1>5, OrphanFrame DEF ExistingIsOver, redisVars, zsetVars, lockVars, submitterVars, workerVars, reaperVars
  <1>6. ASSUME NEW s \in Submitters, DropStaleDedupe(s) PROVE NoneLost
    BY <1>6, OrphanFrame DEF DropStaleDedupe, redisVars, zsetVars, lockVars, submitterVars, workerVars, reaperVars
  <1>7. ASSUME NEW s \in Submitters, CountPending(s) PROVE NoneLost
    BY <1>7, OrphanFrame DEF CountPending, redisVars, zsetVars, lockVars, submitterVars, workerVars, reaperVars
  <1>8. ASSUME NEW s \in Submitters, QueueFull(s) PROVE NoneLost
    BY <1>8, OrphanFrame DEF QueueFull, redisVars, zsetVars, lockVars, submitterVars, workerVars, reaperVars
  <1>9. ASSUME NEW s \in Submitters, Insert(s) PROVE NoneLost
    BY <1>9 DEF NoneLost, Orphans, Reachable, Insert, redisVars, zsetVars, lockVars, submitterVars, workerVars, reaperVars
  <1>10. ASSUME NEW s \in Submitters, SubmitterFault(s) PROVE NoneLost
    BY <1>10, OrphanFrame DEF SubmitterFault, redisVars, zsetVars, lockVars, submitterVars, workerVars, reaperVars
  <1>11. ASSUME NEW w \in Workers, ClaimPeek(w) PROVE NoneLost
    BY <1>11, OrphanWorker DEF ClaimPeek, redisVars, zsetVars, lockVars, submitterVars, workerVars, reaperVars
  <1>12. ASSUME NEW w \in Workers, AcquireSlot(w) PROVE NoneLost
    BY <1>12, OrphanWorker DEF AcquireSlot, redisVars, zsetVars, lockVars, submitterVars, workerVars, reaperVars
  <1>13. ASSUME NEW w \in Workers, ClaimRemove(w) PROVE NoneLost
    <2>1. /\ ready' = ready \ {wjob[w]} /\ wpc' = [wpc EXCEPT ![w] = "zadd"] /\ wpc[w] = "zrem"
          /\ UNCHANGED <<wjob, active, pending, rpc, rjob, torn>>
      BY <1>13 DEF ClaimRemove, WorkerGoes, redisVars, zsetVars, lockVars, submitterVars, workerVars, reaperVars
    <2>2. \A v \in Workers : wpc[v] = "zadd" \/ v = w => wpc'[v] = "zadd"
      BY <2>1 DEF TypeInv, TypeOK, WorkersOK
    <2> QED
      BY <2>1, <2>2 DEF NoneLost, Orphans, Reachable
  <1>14. ASSUME NEW w \in Workers, ClaimActivate(w) PROVE NoneLost
    <2>1. /\ active' = active \cup {wjob[w]} /\ wpc' = [wpc EXCEPT ![w] = "fetch"]
          /\ UNCHANGED <<wjob, ready, pending, rpc, rjob, torn>>
      BY <1>14 DEF ClaimActivate, WorkerGoes, redisVars, zsetVars, lockVars, submitterVars, workerVars, reaperVars
    <2>2. \A v \in Workers \ {w} : wpc[v] = "zadd" => wpc'[v] = "zadd"
      BY <2>1 DEF TypeInv, TypeOK, WorkersOK
    <2> QED
      BY <2>1, <2>2 DEF NoneLost, Orphans, Reachable
  <1>15. ASSUME NEW w \in Workers, FetchPayload(w) PROVE NoneLost
    <2>1. wpc[w] # "zadd" /\ UNCHANGED <<wjob, ready, active, pending, reaperVars, torn>>
      BY <1>15 DEF FetchPayload, redisVars, zsetVars, lockVars, submitterVars, workerVars, reaperVars
    <2>2. \E p : WorkerGoes(w, p)
      BY <1>15 DEF FetchPayload
    <2> QED BY <2>1, <2>2, OrphanWorker
  <1>16. ASSUME NEW w \in Workers, ReportRead(w) PROVE NoneLost
    <2>1. wpc[w] # "zadd" /\ UNCHANGED <<wjob, ready, active, pending, reaperVars, torn>>
      BY <1>16 DEF ReportRead, WriteOf, redisVars, zsetVars, lockVars, submitterVars, workerVars, reaperVars
    <2>2. \E p : WorkerGoes(w, p)
      BY <1>16 DEF ReportRead
    <2> QED BY <2>1, <2>2, OrphanWorker
  <1>17. ASSUME NEW w \in Workers, ReportWrite(w) PROVE NoneLost
    <2>1. wpc[w] # "zadd" /\ UNCHANGED <<wjob, ready, active, pending, reaperVars, torn>>
      BY <1>17 DEF ReportWrite, AfterWrite, redisVars, zsetVars, lockVars, submitterVars, workerVars, reaperVars
    <2>2. \E p : WorkerGoes(w, p)
      BY <1>17 DEF ReportWrite
    <2> QED BY <2>1, <2>2, OrphanWorker
  <1>18. ASSUME NEW w \in Workers, MarkRead(w) PROVE NoneLost
    <2>1. CASE state[wjob[w]] = "queued"
      BY <1>18, <2>1, OrphanWorker DEF MarkRead, redisVars, zsetVars, lockVars, submitterVars, workerVars, reaperVars
    <2>2. CASE state[wjob[w]] # "queued"
      BY <1>18, <2>2, OrphanWorker DEF MarkRead, WorkerIdle, redisVars, zsetVars, lockVars, submitterVars, workerVars, reaperVars
    <2> QED BY <2>1, <2>2
  <1>19. ASSUME NEW w \in Workers, MarkWrite(w) PROVE NoneLost
    BY <1>19, OrphanWorker DEF MarkWrite, redisVars, zsetVars, lockVars, submitterVars, workerVars, reaperVars
  <1>20. ASSUME NEW w \in Workers, RunReport(w) PROVE NoneLost
    BY <1>20, OrphanWorker DEF RunReport, redisVars, zsetVars, lockVars, submitterVars, workerVars, reaperVars
  <1>21. ASSUME NEW w \in Workers, RunTimesOut(w) PROVE NoneLost
    BY <1>21, OrphanWorker DEF RunTimesOut, ToComplete, RunPoints, redisVars, zsetVars, lockVars, submitterVars, workerVars, reaperVars
  <1>22. ASSUME NEW w \in Workers, NEW r \in Outcomes, RunFinish(w, r) PROVE NoneLost
    BY <1>22, OrphanWorker DEF RunFinish, ToComplete, redisVars, zsetVars, lockVars, submitterVars, workerVars, reaperVars
  <1>23. ASSUME NEW w \in Workers, CompleteRead(w) PROVE NoneLost
    <2>1. wpc[w] # "zadd" /\ UNCHANGED <<wjob, ready, active, pending, reaperVars, torn>>
      BY <1>23 DEF CompleteRead, redisVars, zsetVars, lockVars, submitterVars, workerVars, reaperVars
    <2>2. \E p : WorkerGoes(w, p)
      BY <1>23 DEF CompleteRead
    <2> QED BY <2>1, <2>2, OrphanWorker
  <1>24. ASSUME NEW w \in Workers, CompleteWrite(w) PROVE NoneLost
    <2>1. /\ active' = active \ {wjob[w]} /\ pending' = pending \ {wjob[w]}
          /\ wpc' = [wpc EXCEPT ![w] = "idle"] /\ wpc[w] # "zadd" /\ wjob' = [wjob EXCEPT ![w] = 0]
          /\ UNCHANGED <<ready, rpc, rjob, torn>>
      BY <1>24 DEF CompleteWrite, Finish, WorkerIdle, WorkerGoes, redisVars, zsetVars, lockVars, submitterVars, workerVars, reaperVars
    <2>2. \A v \in Workers : wpc[v] = "zadd" => wpc'[v] = "zadd" /\ wjob'[v] = wjob[v]
      BY <2>1 DEF TypeInv, TypeOK, WorkersOK
    <2> QED
      BY <2>1, <2>2 DEF NoneLost, Orphans, Reachable
  <1>25. ASSUME NEW w \in Workers, WorkerCrash(w) PROVE NoneLost \/ OneLost
    BY <1>25, CrashLosesOne
  <1>26. ASSUME NEW w \in Workers, ReportError(w) PROVE NoneLost
    <2>1. wpc[w] # "zadd" /\ UNCHANGED <<wjob, ready, active, pending, reaperVars, torn>>
      BY <1>26 DEF ReportError, WriteOf, AfterWrite, redisVars, zsetVars, lockVars, submitterVars, workerVars, reaperVars
    <2>2. \E p : WorkerGoes(w, p)
      BY <1>26 DEF ReportError
    <2> QED BY <2>1, <2>2, OrphanWorker
  <1>27. ASSUME NEW w \in Workers, MarkError(w) PROVE NoneLost
    BY <1>27, OrphanWorker DEF MarkError, ToComplete, redisVars, zsetVars, lockVars, submitterVars, workerVars, reaperVars
  <1>28. ASSUME NEW r \in Reapers, ReapScan(r) PROVE NoneLost
    BY <1>28, OrphanReaper DEF ReapScan, redisVars, zsetVars, lockVars, workerVars
  <1>29. ASSUME NEW r \in Reapers, NEW j \in Jobs, ReapRead(r, j) PROVE NoneLost
    BY <1>29, OrphanReaper DEF ReapRead, redisVars, zsetVars, lockVars, workerVars
  <1>30. ASSUME NEW r \in Reapers, ReapFailRead(r) PROVE NoneLost
    BY <1>30, OrphanReaper DEF ReapFailRead, redisVars, zsetVars, lockVars, workerVars
  <1>31. ASSUME NEW r \in Reapers, ReapFailWrite(r) PROVE NoneLost
    BY <1>31, OrphanReaper DEF ReapFailWrite, Finish, ReaperNext, redisVars, zsetVars, lockVars, workerVars
  <1>32. ASSUME NEW r \in Reapers, ReapClearActive(r) PROVE NoneLost
    BY <1>32, OrphanReaper DEF ReapClearActive, redisVars, zsetVars, lockVars, workerVars
  <1>33. ASSUME NEW r \in Reapers, ReapClearPending(r) PROVE NoneLost
    BY <1>33, OrphanReaper DEF ReapClearPending, ReaperNext, redisVars, zsetVars, lockVars, workerVars
  <1>34. ASSUME NEW r \in Reapers, ReaperFault(r) PROVE NoneLost \/ OneLost
    BY <1>34, ReaperFaultLosesOne
  <1>35. ASSUME ExpireEnqueueLock PROVE NoneLost
    BY <1>35, OrphanFrame DEF ExpireEnqueueLock, redisVars, zsetVars, lockVars, submitterVars, workerVars, reaperVars
  <1>36. ASSUME ExpireClaimLock PROVE NoneLost
    BY <1>36, OrphanFrame DEF ExpireClaimLock, redisVars, zsetVars, lockVars, submitterVars, workerVars, reaperVars
  <1>37. ASSUME Tick PROVE NoneLost
    BY <1>37, OrphanFrame DEF Tick, redisVars, zsetVars, lockVars, submitterVars, workerVars, reaperVars
  <1>38. CASE UNCHANGED vars
    BY <1>38, OrphanFrame DEF vars, redisVars, zsetVars, lockVars, submitterVars, workerVars, reaperVars
  <1> QED
    BY <1>1, <1>2, <1>3, <1>4, <1>5, <1>6, <1>7, <1>8, <1>9, <1>10, <1>11, <1>12, <1>13, <1>14, <1>15, <1>16, <1>17, <1>18, <1>19, <1>20, <1>21, <1>22, <1>23, <1>24, <1>25, <1>26, <1>27, <1>28, <1>29, <1>30, <1>31, <1>32, <1>33, <1>34, <1>35, <1>36, <1>37, <1>38
    DEF Next, SubmitterNext, SubmitterStep, WorkerNext, WorkerStep, ReaperStep

LEMMA OrphanCount ==
  ASSUME TypeInv, TypeInv', OrphansByFaultsOnly, [Next]_vars
  PROVE  OrphansByFaultsOnly'
  <1>1. torn \in Nat /\ Orphans \subseteq Jobs /\ Orphans' \subseteq Jobs
    BY BoundsAssumption DEF TypeInv, TypeOK, ZsetsOK, Orphans
  <1>2. IsFiniteSet(Orphans) /\ Cardinality(Orphans) \in Nat
    <2>1. IsFiniteSet(Jobs)
      BY FS_Interval, BoundsAssumption DEF Jobs
    <2>2. IsFiniteSet(Orphans)
      BY <1>1, <2>1, FS_Subset
    <2> QED
      BY <2>2, FS_CardinalityType
  <1>3. IsFiniteSet(Orphans') /\ Cardinality(Orphans') \in Nat
    <2>1. IsFiniteSet(Jobs)
      BY FS_Interval, BoundsAssumption DEF Jobs
    <2>2. IsFiniteSet(Orphans')
      BY <1>1, <2>1, FS_Subset
    <2> QED
      BY <2>2, FS_CardinalityType
  <1>4. CASE NoneLost
    <2>1. Cardinality(Orphans') <= Cardinality(Orphans)
      BY <1>2, <1>4, FS_Subset DEF NoneLost
    <2> QED
      BY <1>1, <1>2, <1>3, <1>4, <2>1 DEF NoneLost, OrphansByFaultsOnly
  <1>5. CASE OneLost
    <2>1. PICK j \in Int : Orphans' \subseteq Orphans \cup {j}
      BY <1>5 DEF OneLost
    <2>2. /\ IsFiniteSet(Orphans \cup {j}) /\ Cardinality(Orphans \cup {j}) \in Nat
          /\ Cardinality(Orphans \cup {j}) <= Cardinality(Orphans) + 1
      <3>1. CASE j \in Orphans
        <4>1. Orphans \cup {j} = Orphans
          BY <3>1
        <4>2. Cardinality(Orphans \cup {j}) = Cardinality(Orphans)
          BY <4>1
        <4>3. Cardinality(Orphans) <= Cardinality(Orphans) + 1
          BY <1>2
        <4>4. IsFiniteSet(Orphans \cup {j})
          BY <1>2, <4>1
        <4> QED
          BY <1>2, <4>2, <4>3, <4>4
      <3>2. CASE j \notin Orphans
        <4>1. IsFiniteSet(Orphans \cup {j}) /\ Cardinality(Orphans \cup {j}) = Cardinality(Orphans) + 1
          BY <1>2, <3>2, FS_AddElement
        <4> QED
          BY <1>2, <4>1
      <3> QED
        BY <3>1, <3>2
    <2>3. Cardinality(Orphans') <= Cardinality(Orphans \cup {j})
      BY <2>1, <2>2, FS_Subset
    <2>4. torn' = torn + 1 /\ Cardinality(Orphans) <= torn
      BY <1>5 DEF OneLost, OrphansByFaultsOnly
    <2>5. Cardinality(Orphans') <= torn'
      BY <1>1, <1>2, <1>3, <2>2, <2>3, <2>4
    <2> QED
      BY <2>5 DEF OrphansByFaultsOnly
  <1> QED
    BY <1>4, <1>5, OrphanStep

\* Every counted job can be reached by a claim, by a reaper or by the process that moves it, but
\* for one at most for each process that died between a ZREM and its partner command, even with
\* leases that run out inside a critical section.
THEOREM PlacesLostByFaultsOnly == Spec => []OrphansByFaultsOnly
  <1>1. Init => TypeInv /\ OrphansByFaultsOnly
    <2> SUFFICES ASSUME Init PROVE OrphansByFaultsOnly
      BY TypeInit
    <2>1. Orphans = {} /\ torn = 0
      BY DEF Init, Orphans
    <2> QED
      BY <2>1, FS_EmptySet DEF OrphansByFaultsOnly
  <1>2. (TypeInv /\ OrphansByFaultsOnly) /\ [Next]_vars => (TypeInv /\ OrphansByFaultsOnly)'
    BY TypeStep, OrphanCount
  <1> QED
    BY <1>1, <1>2, PTL DEF Spec

-----------------------------------------------------------------------------
(* JobQueue implements JobHandoff: removing a job from ready is the Take,  *)
(* inserting it is the Offer, everything else stutters, drops or discards. *)

\* The abstract state reads only these variables.
LEMMA HandoffFrame ==
  ASSUME UNCHANGED <<ready, wpc, wjob, submitterVars>>
  PROVE  UNCHANGED <<unissued, ready, handed>>
  BY DEF unissued, handed, Holds, submitterVars

\* Walking through enqueue() keeps the id unborn; leaving enqueue() uses it up.
LEMMA UnissuedStays ==
  ASSUME TypeInv, NEW s \in Submitters, spc[s] # "idle", NEW p, p # "idle",
         spc' = [spc EXCEPT ![s] = p], UNCHANGED <<issued, sjob>>
  PROVE  unissued' = unissued
  BY DEF unissued, TypeInv, TypeOK, SubmittersOK

LEMMA UnissuedLeaves ==
  ASSUME TypeInv, ClaimInv, NEW s \in Submitters, spc[s] # "idle", SubmitterIdle(s)
  PROVE  /\ sjob[s] \in Jobs /\ sjob[s] \in unissued
         /\ unissued' = unissued \ {sjob[s]}
  <1> USE DEF TypeInv, TypeOK, SubmittersOK, SubmitterHasJob
  <1>1. sjob[s] \in Jobs /\ sjob[s] <= issued /\ issued \in Nat
    BY BoundsAssumption DEF Jobs
  <1>2. \A r \in Submitters : spc'[r] # "idle" <=> spc[r] # "idle" /\ r # s
    BY DEF SubmitterIdle
  <1>3. \A r \in Submitters : r # s => sjob'[r] = sjob[r]
    BY DEF SubmitterIdle
  <1>4. \A r \in Submitters : spc[r] # "idle" /\ r # s => sjob[r] # sjob[s]
    BY DEF ClaimInv, NewIsNew
  <1>5. issued' = issued /\ \A j \in Jobs : j > issued => j # sjob[s]
    BY <1>1 DEF SubmitterIdle, Jobs
  <1> QED
    BY <1>1, <1>2, <1>3, <1>4, <1>5 DEF unissued

\* A submitter that leaves without inserting discards its id.
LEMMA SubmitterDiscards ==
  ASSUME TypeInv, ClaimInv, NEW s \in Submitters, spc[s] # "idle", SubmitterIdle(s),
         UNCHANGED <<ready, wpc, wjob>>
  PROVE  Handoff!Next
  <1>1. handed' = handed
    BY DEF handed, Holds
  <1>2. Handoff!Discard(sjob[s])
    BY <1>1, UnissuedLeaves DEF Handoff!Discard
  <1> QED
    BY <1>2, UnissuedLeaves DEF Handoff!Next

\* A worker that goes on with its job changes nothing, ...
LEMMA WorkerGoesOn ==
  ASSUME TypeInv, NEW w \in Workers, Holds(w), NEW p, p \notin {"idle", "zrem"},
         WorkerGoes(w, p), UNCHANGED <<ready, wjob, submitterVars>>
  PROVE  UNCHANGED <<unissued, ready, handed>>
  BY DEF unissued, handed, Holds, WorkerGoes, submitterVars, TypeInv, TypeOK, WorkersOK

\* ... and one that stops drops it.
LEMMA WorkerDrops ==
  ASSUME TypeInv, NEW w \in Workers, WorkerIdle(w), wpc[w] # "idle",
         UNCHANGED <<ready, submitterVars>>
  PROVE  Handoff!Next \/ UNCHANGED <<unissued, ready, handed>>
  <1> USE DEF TypeInv, TypeOK, WorkersOK
  <1>1. UNCHANGED <<unissued, ready>>
    BY DEF unissued, submitterVars
  <1>2. handed' = [handed EXCEPT ![w] = 0]
    BY DEF handed, Holds, WorkerIdle, WorkerGoes
  <1>3. CASE Holds(w)
    <2>1. handed[w] # 0
      BY <1>3, Ranges DEF handed, WorkerHasJob
    <2>2. Handoff!Drop(w)
      BY <1>1, <1>2, <2>1 DEF Handoff!Drop
    <2> QED
      BY <2>2 DEF Handoff!Next
  <1>4. CASE ~Holds(w)
    BY <1>1, <1>2, <1>4 DEF handed
  <1> QED
    BY <1>3, <1>4

\* Every step of the queue is a step of the abstract handoff or changes nothing in it.
LEMMA HandoffStep ==
  TypeInv /\ ClaimInv /\ [Next]_vars => Handoff!Next \/ UNCHANGED <<unissued, ready, handed>>
  <1> SUFFICES ASSUME TypeInv, ClaimInv, [Next]_vars
               PROVE  Handoff!Next \/ UNCHANGED <<unissued, ready, handed>>
    OBVIOUS
  <1> DEFINE Mapped == Handoff!Next \/ UNCHANGED <<unissued, ready, handed>>
  <1>1. ASSUME NEW s \in Submitters, NEW f \in Fingerprints, Submit(s, f) PROVE Mapped
    <2>1. UNCHANGED <<ready, handed>>
      BY <1>1 DEF Submit, handed, Holds, redisVars, zsetVars, lockVars, workerVars
    <2>2. issued \in Nat /\ issued' = issued + 1 /\ spc[s] = "idle"
          /\ spc' = [spc EXCEPT ![s] = "lock"] /\ sjob' = [sjob EXCEPT ![s] = issued + 1]
      BY <1>1, BoundsAssumption DEF Submit, TypeInv, TypeOK, SubmittersOK
    <2>3. \A j \in Jobs : j > issued <=> j > issued + 1 \/ j = issued + 1
      BY <2>2 DEF Jobs
    <2>4. \A r \in Submitters : r # s => spc'[r] = spc[r] /\ sjob'[r] = sjob[r]
      BY <2>2 DEF TypeInv, TypeOK, SubmittersOK
    <2>5. spc'[s] = "lock" /\ sjob'[s] = issued + 1
      BY <2>2 DEF TypeInv, TypeOK, SubmittersOK
    <2>6. unissued' = unissued
      BY <2>2, <2>3, <2>4, <2>5 DEF unissued
    <2> QED BY <2>1, <2>6
  <1>2. ASSUME NEW s \in Submitters, LockAndReadDedupe(s) PROVE Mapped
    <2>1. /\ spc[s] # "idle" /\ \E p : p # "idle" /\ spc' = [spc EXCEPT ![s] = p]
          /\ UNCHANGED <<issued, sjob, ready, wpc, wjob>>
      BY <1>2 DEF LockAndReadDedupe, redisVars, zsetVars, lockVars, workerVars
    <2>2. handed' = handed
      BY <2>1 DEF handed, Holds
    <2> QED BY <2>1, <2>2, UnissuedStays
  <1>3. ASSUME NEW s \in Submitters, LockTimeout(s) PROVE Mapped
    BY <1>3, SubmitterDiscards DEF LockTimeout, redisVars, zsetVars, lockVars, workerVars
  <1>4. ASSUME NEW s \in Submitters, JoinExisting(s) PROVE Mapped
    BY <1>4, SubmitterDiscards DEF JoinExisting, redisVars, zsetVars, lockVars, workerVars
  <1>5. ASSUME NEW s \in Submitters, ExistingIsOver(s) PROVE Mapped
    <2>1. /\ spc[s] # "idle" /\ \E p : p # "idle" /\ spc' = [spc EXCEPT ![s] = p]
          /\ UNCHANGED <<issued, sjob, ready, wpc, wjob>>
      BY <1>5 DEF ExistingIsOver, redisVars, zsetVars, lockVars, workerVars
    <2>2. handed' = handed
      BY <2>1 DEF handed, Holds
    <2> QED BY <2>1, <2>2, UnissuedStays
  <1>6. ASSUME NEW s \in Submitters, DropStaleDedupe(s) PROVE Mapped
    <2>1. /\ spc[s] # "idle" /\ \E p : p # "idle" /\ spc' = [spc EXCEPT ![s] = p]
          /\ UNCHANGED <<issued, sjob, ready, wpc, wjob>>
      BY <1>6 DEF DropStaleDedupe, redisVars, zsetVars, lockVars, workerVars
    <2>2. handed' = handed
      BY <2>1 DEF handed, Holds
    <2> QED BY <2>1, <2>2, UnissuedStays
  <1>7. ASSUME NEW s \in Submitters, CountPending(s) PROVE Mapped
    <2>1. /\ spc[s] # "idle" /\ \E p : p # "idle" /\ spc' = [spc EXCEPT ![s] = p]
          /\ UNCHANGED <<issued, sjob, ready, wpc, wjob>>
      BY <1>7 DEF CountPending, redisVars, zsetVars, lockVars, workerVars
    <2>2. handed' = handed
      BY <2>1 DEF handed, Holds
    <2> QED BY <2>1, <2>2, UnissuedStays
  <1>8. ASSUME NEW s \in Submitters, QueueFull(s) PROVE Mapped
    BY <1>8, SubmitterDiscards DEF QueueFull, redisVars, zsetVars, lockVars, workerVars
  <1>9. ASSUME NEW s \in Submitters, Insert(s) PROVE Mapped
    <2>1. /\ spc[s] # "idle" /\ SubmitterIdle(s) /\ ready' = ready \cup {sjob[s]}
          /\ UNCHANGED <<wpc, wjob>>
      BY <1>9 DEF Insert, redisVars, zsetVars, lockVars, workerVars
    <2>2. handed' = handed
      BY <2>1 DEF handed, Holds
    <2>3. Handoff!Offer(sjob[s])
      BY <2>1, <2>2, UnissuedLeaves DEF Handoff!Offer
    <2> QED BY <2>1, <2>3, UnissuedLeaves DEF Handoff!Next
  <1>10. ASSUME NEW s \in Submitters, SubmitterFault(s) PROVE Mapped
    BY <1>10, SubmitterDiscards DEF SubmitterFault, redisVars, zsetVars, lockVars, workerVars
  <1>11. ASSUME NEW w \in Workers, ClaimPeek(w) PROVE Mapped
    <2>1. UNCHANGED <<unissued, ready>>
      BY <1>11 DEF ClaimPeek, unissued, submitterVars, redisVars, zsetVars, lockVars, workerVars
    <2>2. handed' = handed
      BY <1>11 DEF ClaimPeek, WorkerGoes, handed, Holds, TypeInv, TypeOK, WorkersOK
    <2> QED BY <2>1, <2>2
  <1>12. ASSUME NEW w \in Workers, AcquireSlot(w) PROVE Mapped
    <2>1. Holds(w) /\ UNCHANGED <<ready, wjob, submitterVars>>
      BY <1>12 DEF AcquireSlot, Holds, redisVars, zsetVars, lockVars, workerVars
    <2>2. \E p : WorkerGoes(w, p) /\ p \notin {"idle", "zrem"}
      BY <1>12 DEF AcquireSlot
    <2> QED BY <2>1, <2>2, WorkerGoesOn
  <1>13. ASSUME NEW w \in Workers, ClaimRemove(w) PROVE Mapped
    <2>1. wjob[w] \in ready /\ wjob[w] \in Jobs
      BY <1>13 DEF ClaimRemove, ClaimInv, PeekedIsReady, TypeInv, WorkerHasJob
    <2>2. handed[w] = 0 /\ handed' = [handed EXCEPT ![w] = wjob[w]]
      BY <1>13 DEF ClaimRemove, WorkerGoes, handed, Holds, TypeInv, TypeOK, WorkersOK
    <2>3. unissued' = unissued /\ ready' = ready \ {wjob[w]}
      BY <1>13 DEF ClaimRemove, unissued, submitterVars
    <2>4. Handoff!Take(w, wjob[w])
      BY <2>1, <2>2, <2>3 DEF Handoff!Take
    <2> QED BY <2>1, <2>4 DEF Handoff!Next
  <1>14. ASSUME NEW w \in Workers, ClaimActivate(w) PROVE Mapped
    <2>1. Holds(w) /\ UNCHANGED <<ready, wjob, submitterVars>>
      BY <1>14 DEF ClaimActivate, Holds, redisVars, zsetVars, lockVars, workerVars
    <2>2. \E p : WorkerGoes(w, p) /\ p \notin {"idle", "zrem"}
      BY <1>14 DEF ClaimActivate
    <2> QED BY <2>1, <2>2, WorkerGoesOn
  <1>15. ASSUME NEW w \in Workers, FetchPayload(w) PROVE Mapped
    <2>1. Holds(w) /\ UNCHANGED <<ready, wjob, submitterVars>>
      BY <1>15 DEF FetchPayload, Holds, redisVars, zsetVars, lockVars, workerVars
    <2>2. \E p : WorkerGoes(w, p) /\ p \notin {"idle", "zrem"}
      BY <1>15 DEF FetchPayload
    <2> QED BY <2>1, <2>2, WorkerGoesOn
  <1>16. ASSUME NEW w \in Workers, ReportRead(w) PROVE Mapped
    <2>1. Holds(w) /\ UNCHANGED <<ready, wjob, submitterVars>>
      BY <1>16 DEF ReportRead, WriteOf, Holds, redisVars, zsetVars, lockVars, workerVars
    <2>2. \E p : WorkerGoes(w, p) /\ p \notin {"idle", "zrem"}
      BY <1>16 DEF ReportRead, WriteOf, AfterReport
    <2> QED BY <2>1, <2>2, WorkerGoesOn
  <1>17. ASSUME NEW w \in Workers, ReportWrite(w) PROVE Mapped
    <2>1. Holds(w) /\ UNCHANGED <<ready, wjob, submitterVars>>
      BY <1>17 DEF ReportWrite, AfterWrite, Holds, redisVars, zsetVars, lockVars, workerVars
    <2>2. \E p : WorkerGoes(w, p) /\ p \notin {"idle", "zrem"}
      BY <1>17 DEF ReportWrite, AfterWrite
    <2> QED BY <2>1, <2>2, WorkerGoesOn
  <1>18. ASSUME NEW w \in Workers, MarkRead(w) PROVE Mapped
    <2>1. CASE state[wjob[w]] = "queued"
      <3>1. Holds(w) /\ WorkerGoes(w, "markw") /\ UNCHANGED <<ready, wjob, submitterVars>>
        BY <1>18, <2>1 DEF MarkRead, Holds, redisVars, zsetVars, lockVars, workerVars
      <3> QED BY <3>1, WorkerGoesOn
    <2>2. CASE state[wjob[w]] # "queued"
      BY <1>18, <2>2, WorkerDrops DEF MarkRead, redisVars, zsetVars, lockVars, workerVars
    <2> QED BY <2>1, <2>2
  <1>19. ASSUME NEW w \in Workers, MarkWrite(w) PROVE Mapped
    <2>1. Holds(w) /\ UNCHANGED <<ready, wjob, submitterVars>>
      BY <1>19 DEF MarkWrite, Holds, redisVars, zsetVars, lockVars, workerVars
    <2>2. \E p : WorkerGoes(w, p) /\ p \notin {"idle", "zrem"}
      BY <1>19 DEF MarkWrite
    <2> QED BY <2>1, <2>2, WorkerGoesOn
  <1>20. ASSUME NEW w \in Workers, RunReport(w) PROVE Mapped
    <2>1. Holds(w) /\ UNCHANGED <<ready, wjob, submitterVars>>
      BY <1>20 DEF RunReport, Holds, redisVars, zsetVars, lockVars, workerVars
    <2>2. \E p : WorkerGoes(w, p) /\ p \notin {"idle", "zrem"}
      BY <1>20 DEF RunReport
    <2> QED BY <2>1, <2>2, WorkerGoesOn
  <1>21. ASSUME NEW w \in Workers, RunTimesOut(w) PROVE Mapped
    <2>1. Holds(w) /\ UNCHANGED <<ready, wjob, submitterVars>>
      BY <1>21 DEF RunTimesOut, RunPoints, Holds, redisVars, zsetVars, lockVars, workerVars
    <2>2. \E p : WorkerGoes(w, p) /\ p \notin {"idle", "zrem"}
      BY <1>21 DEF RunTimesOut, RunPoints, ToComplete
    <2> QED BY <2>1, <2>2, WorkerGoesOn
  <1>22. ASSUME NEW w \in Workers, NEW r \in Outcomes, RunFinish(w, r) PROVE Mapped
    <2>1. Holds(w) /\ UNCHANGED <<ready, wjob, submitterVars>>
      BY <1>22 DEF RunFinish, Holds, redisVars, zsetVars, lockVars, workerVars
    <2>2. \E p : WorkerGoes(w, p) /\ p \notin {"idle", "zrem"}
      BY <1>22 DEF RunFinish, ToComplete
    <2> QED BY <2>1, <2>2, WorkerGoesOn
  <1>23. ASSUME NEW w \in Workers, CompleteRead(w) PROVE Mapped
    <2>1. Holds(w) /\ UNCHANGED <<ready, wjob, submitterVars>>
      BY <1>23 DEF CompleteRead, Holds, redisVars, zsetVars, lockVars, workerVars
    <2>2. \E p : WorkerGoes(w, p) /\ p \notin {"idle", "zrem"}
      BY <1>23 DEF CompleteRead
    <2> QED BY <2>1, <2>2, WorkerGoesOn
  <1>24. ASSUME NEW w \in Workers, CompleteWrite(w) PROVE Mapped
    BY <1>24, WorkerDrops DEF CompleteWrite, Finish, redisVars, zsetVars, lockVars, workerVars
  <1>25. ASSUME NEW w \in Workers, WorkerCrash(w) PROVE Mapped
    BY <1>25, WorkerDrops DEF WorkerCrash, redisVars, zsetVars, lockVars, workerVars
  <1>26. ASSUME NEW w \in Workers, ReportError(w) PROVE Mapped
    <2>1. Holds(w) /\ UNCHANGED <<ready, wjob, submitterVars>>
      BY <1>26 DEF ReportError, WriteOf, AfterWrite, Holds, redisVars, zsetVars, lockVars, workerVars
    <2>2. \E p : WorkerGoes(w, p) /\ p \notin {"idle", "zrem"}
      BY <1>26 DEF ReportError, WriteOf, AfterReport, AfterWrite
    <2> QED BY <2>1, <2>2, WorkerGoesOn
  <1>27. ASSUME NEW w \in Workers, MarkError(w) PROVE Mapped
    <2>1. Holds(w) /\ UNCHANGED <<ready, wjob, submitterVars>>
      BY <1>27 DEF MarkError, Holds, redisVars, zsetVars, lockVars, workerVars
    <2>2. \E p : WorkerGoes(w, p) /\ p \notin {"idle", "zrem"}
      BY <1>27 DEF MarkError, ToComplete
    <2> QED BY <2>1, <2>2, WorkerGoesOn
  <1>28. ASSUME NEW r \in Reapers, ReapScan(r) PROVE Mapped
    BY <1>28, HandoffFrame DEF ReapScan, redisVars, zsetVars, lockVars, workerVars
  <1>29. ASSUME NEW r \in Reapers, NEW j \in Jobs, ReapRead(r, j) PROVE Mapped
    BY <1>29, HandoffFrame DEF ReapRead, redisVars, zsetVars, lockVars, workerVars
  <1>30. ASSUME NEW r \in Reapers, ReapFailRead(r) PROVE Mapped
    BY <1>30, HandoffFrame DEF ReapFailRead, redisVars, zsetVars, lockVars, workerVars
  <1>31. ASSUME NEW r \in Reapers, ReapFailWrite(r) PROVE Mapped
    BY <1>31, HandoffFrame DEF ReapFailWrite, redisVars, zsetVars, lockVars, workerVars, Finish
  <1>32. ASSUME NEW r \in Reapers, ReapClearActive(r) PROVE Mapped
    BY <1>32, HandoffFrame DEF ReapClearActive, redisVars, zsetVars, lockVars, workerVars
  <1>33. ASSUME NEW r \in Reapers, ReapClearPending(r) PROVE Mapped
    BY <1>33, HandoffFrame DEF ReapClearPending, redisVars, zsetVars, lockVars, workerVars
  <1>34. ASSUME NEW r \in Reapers, ReaperFault(r) PROVE Mapped
    BY <1>34, HandoffFrame DEF ReaperFault, redisVars, zsetVars, lockVars, workerVars
  <1>35. ASSUME ExpireEnqueueLock PROVE Mapped
    BY <1>35, HandoffFrame DEF ExpireEnqueueLock, redisVars, zsetVars, lockVars, workerVars
  <1>36. ASSUME ExpireClaimLock PROVE Mapped
    BY <1>36, HandoffFrame DEF ExpireClaimLock, redisVars, zsetVars, lockVars, workerVars
  <1>37. ASSUME Tick PROVE Mapped
    BY <1>37, HandoffFrame DEF Tick, redisVars, zsetVars, lockVars, workerVars
  <1>38. CASE UNCHANGED vars
    BY <1>38, HandoffFrame DEF vars, redisVars, zsetVars, lockVars, workerVars
  <1> QED
    BY <1>1, <1>2, <1>3, <1>4, <1>5, <1>6, <1>7, <1>8, <1>9, <1>10, <1>11, <1>12, <1>13, <1>14, <1>15, <1>16, <1>17, <1>18, <1>19, <1>20, <1>21, <1>22, <1>23, <1>24, <1>25, <1>26, <1>27, <1>28, <1>29, <1>30, <1>31, <1>32, <1>33, <1>34, <1>35, <1>36, <1>37, <1>38
    DEF Next, SubmitterNext, SubmitterStep, WorkerNext, WorkerStep, ReaperStep

\* The queue implements the at-most-once handoff: no reaper, crash or late write ever makes
\* a job claimable a second time.
THEOREM ImplementsHandoff ==
  ASSUME LockExpires = FALSE
  PROVE  Spec => AtMostOnce
  <1>1. Init => TypeInv /\ ClaimInv
    BY TypeInit, ClaimInit
  <1>2. (TypeInv /\ ClaimInv) /\ [Next]_vars => (TypeInv /\ ClaimInv)'
    BY TypeStep, ClaimStep
  <1>3. Init => Handoff!Init
    BY DEF Init, Handoff!Init, unissued, handed, Holds, Jobs
  <1>4. TypeInv /\ ClaimInv /\ [Next]_vars => [Handoff!Next]_<<unissued, ready, handed>>
    BY HandoffStep
  <1> QED
    BY <1>1, <1>2, <1>3, <1>4, PTL DEF Spec, AtMostOnce, Handoff!Spec, Handoff!handoffVars
=============================================================================
