------------------------------ MODULE JobQueue ------------------------------
(***************************************************************************)
(* The asynchronous query queue: JobStore (app/jobs.py), the submission    *)
(* endpoint, the worker coroutines and the stale-job reaper (app/main.py). *)
(*                                                                         *)
(* Every Redis command (or MULTI block) is one step, so everything other   *)
(* replicas can do between two awaits happens here.  Two commands are      *)
(* merged only at the edges of a lock: taking it with the first command    *)
(* under it, and the last command under it with its release.               *)
(*                                                                         *)
(* A job is its uuid; time.time() is read in the same place as the uuid is *)
(* made, so the k-th job id stands for the k-th score of the ready zset.   *)
(* Time is counted in ticks longer than a Redis lock's lease.              *)
(***************************************************************************)
EXTENDS Integers, FiniteSets

CONSTANTS Workers,       \* worker coroutines of all replicas
          Submitters,    \* requests to /run/jobs being served
          Reapers,       \* reap_stale_jobs tasks, one in every replica
          Fingerprints,  \* values of _fingerprint(req)
          Nobody,        \* no lock owner, no fingerprint
          MaxJobs,       \* bound: submissions in a behaviour
          PendingLimit,  \* cfg.job_pending_limit
          ResultTTL,     \* cfg.job_result_ttl_seconds
          ExpiredTTL,    \* the 300 seconds of claim()'s own fail()
          StaleAfter,    \* max(job_stale_after_seconds, request_timeout + 30)
          RunTimeout,    \* cfg.request_timeout
          Slots,         \* permits of query_slots
          Outcomes,      \* how a pipeline that is not cut short may end
          LockExpires,   \* may a critical section outlive its lock's lease?
          SlowRedis,     \* may an exchange with Redis outlast a tick?
          MaxFaults      \* bound: crashes and Redis errors in a behaviour

ASSUME BoundsAssumption ==
  /\ MaxJobs \in Nat /\ PendingLimit \in Nat \ {0} /\ MaxFaults \in Nat
  /\ ResultTTL \in Nat \ {0} /\ ExpiredTTL \in 1..ResultTTL
  /\ StaleAfter \in Nat \ {0} /\ RunTimeout \in Nat \ {0} /\ Slots \in Nat \ {0}
ASSUME OutcomesAssumption == Outcomes # {} /\ Outcomes \subseteq {"success", "failed"}
ASSUME TimingAssumption == LockExpires \in BOOLEAN /\ SlowRedis \in BOOLEAN
ASSUME NobodyAssumption ==
  Nobody \notin Workers /\ Nobody \notin Submitters /\ Nobody \notin Fingerprints

Jobs   == 1..MaxJobs
Live   == {"queued", "running"}
States == Live \cup {"success", "failed", "none"}   \* "none": no status key

SubmitterPoints == {"idle", "lock", "check", "drop", "count", "insert"}
WorkerPoints ==
  {"idle", "zrem", "zadd", "fetch", "report1", "write1", "slot", "report2", "write2",
   "mark", "markw", "run", "report3", "write3", "cread", "cwrite", "xread", "xwrite"}
ReaperPoints == {"idle", "next", "fread", "fwrite", "clear1", "clear2"}

EnqueueSection == {"check", "drop", "count", "insert"}   \* under enqueue-lock
ClaimSection   == {"zrem", "zadd"}                       \* under claim-lock
SlotHeld       == {"report2", "write2", "mark", "markw", "run", "report3", "write3"}
RunPoints      == {"run", "report3", "write3"}           \* inside wait_for

VARIABLES
  \* Redis
  ready, active, pending,  \* the three zsets
  age,                     \* ticks since the claim score, up to StaleAfter
  state, sttl,             \* status:<id> and its remaining TTL
  dedupe, dttl,            \* dedupe:<fp> (0: none) and its remaining TTL
  pttl,                    \* remaining TTL of payload:<id> (0: none)
  fpOf,                    \* the fingerprint inside a payload
  enqLock, clmLock,        \* owners of the two Redis locks
  \* processes
  issued,                  \* job ids made so far
  spc, sjob, sfound,       \* submitters: point, own id, id read from dedupe
  wpc, wjob, wraw, wfp, wout, left,
                           \* workers: point, job, status read, fingerprint
                           \* read, outcome, time left of wait_for
  rpc, rtodo, rjob, rfp,  \* reapers: point, jobs found stale, current job,
                           \* fingerprint read
  \* history
  faults,                  \* crashes and Redis errors
  torn                     \* those between a ZREM and its partner command

keyVars       == <<state, sttl, dedupe, dttl, pttl>>
zsetVars      == <<ready, active, pending, age>>
redisVars     == <<zsetVars, keyVars, fpOf>>
lockVars      == <<enqLock, clmLock>>
submitterVars == <<issued, spc, sjob, sfound>>
workerVars    == <<wpc, wjob, wraw, wfp, wout, left>>
reaperVars    == <<rpc, rtodo, rjob, rfp>>
vars == <<redisVars, lockVars, submitterVars, workerVars, reaperVars, faults, torn>>

ZsetsOK == /\ ready \subseteq Jobs /\ active \subseteq Jobs /\ pending \subseteq Jobs
           /\ age \in [Jobs -> 0..StaleAfter]
KeysOK == /\ state \in [Jobs -> States] /\ sttl \in [Jobs -> 0..ResultTTL]
          /\ dedupe \in [Fingerprints -> 0..MaxJobs] /\ dttl \in [Fingerprints -> 0..ResultTTL]
          /\ pttl \in [Jobs -> 0..ResultTTL]
LocksOK == /\ enqLock \in Submitters \cup {Nobody}
           /\ clmLock \in Workers \cup {Nobody}
SubmittersOK == /\ issued \in 0..MaxJobs
                /\ fpOf \in [Jobs -> Fingerprints \cup {Nobody}]
                /\ spc \in [Submitters -> SubmitterPoints]
                /\ sjob \in [Submitters -> 0..MaxJobs]
                /\ sfound \in [Submitters -> 0..MaxJobs]
WorkersOK == /\ wpc \in [Workers -> WorkerPoints]
             /\ wjob \in [Workers -> 0..MaxJobs] /\ wraw \in [Workers -> States]
             /\ wfp \in [Workers -> Fingerprints \cup {Nobody}] /\ wout \in [Workers -> States]
             /\ left \in [Workers -> 0..RunTimeout]
ReapersOK == /\ rpc \in [Reapers -> ReaperPoints] /\ rtodo \in [Reapers -> SUBSET Jobs]
             /\ rjob \in [Reapers -> 0..MaxJobs]
             /\ rfp \in [Reapers -> Fingerprints \cup {Nobody}]

TypeOK == /\ ZsetsOK /\ KeysOK /\ LocksOK
          /\ SubmittersOK /\ WorkersOK /\ ReapersOK
          /\ faults \in 0..MaxFaults /\ torn \in 0..faults

Init ==
  /\ ready = {} /\ active = {} /\ pending = {}
  /\ age = [j \in Jobs |-> 0]
  /\ state = [j \in Jobs |-> "none"] /\ sttl = [j \in Jobs |-> 0]
  /\ dedupe = [f \in Fingerprints |-> 0] /\ dttl = [f \in Fingerprints |-> 0]
  /\ pttl = [j \in Jobs |-> 0] /\ fpOf = [j \in Jobs |-> Nobody]
  /\ enqLock = Nobody /\ clmLock = Nobody
  /\ issued = 0 /\ spc = [s \in Submitters |-> "idle"]
  /\ sjob = [s \in Submitters |-> 0] /\ sfound = [s \in Submitters |-> 0]
  /\ wpc = [w \in Workers |-> "idle"] /\ wjob = [w \in Workers |-> 0]
  /\ wraw = [w \in Workers |-> "none"] /\ left = [w \in Workers |-> 0]
  /\ wfp = [w \in Workers |-> Nobody] /\ wout = [w \in Workers |-> "none"]
  /\ rpc = [r \in Reapers |-> "idle"] /\ rtodo = [r \in Reapers |-> {}]
  /\ rjob = [r \in Reapers |-> 0] /\ rfp = [r \in Reapers |-> Nobody]
  /\ faults = 0 /\ torn = 0

-----------------------------------------------------------------------------
(* Redis writes shared by the processes.                                   *)

WriteStatus(j, s, ttl) == /\ state' = [state EXCEPT ![j] = s]
                          /\ sttl' = [sttl EXCEPT ![j] = ttl]

DeleteDedupe(f) == /\ dedupe' = [dedupe EXCEPT ![f] = 0]
                   /\ dttl' = [dttl EXCEPT ![f] = 0]

\* Mutant: complete() forgets the active zset.
FinishKeepsActive(j, outcome, fp, ttl) ==
  /\ WriteStatus(j, outcome, ttl)
  /\ IF fp # Nobody THEN DeleteDedupe(fp) ELSE UNCHANGED <<dedupe, dttl>>
  /\ pending' = pending \ {j} /\ pttl' = [pttl EXCEPT ![j] = 0]
  /\ UNCHANGED <<ready, active, age, fpOf>>

\* complete()'s second MULTI; `fp` is the fingerprint of the payload its first one read.
Finish(j, outcome, fp, ttl) ==
  /\ WriteStatus(j, outcome, ttl)
  /\ IF fp # Nobody THEN DeleteDedupe(fp) ELSE UNCHANGED <<dedupe, dttl>>
  /\ active' = active \ {j} /\ pending' = pending \ {j}
  /\ age' = [age EXCEPT ![j] = 0]
  /\ pttl' = [pttl EXCEPT ![j] = 0]
  /\ UNCHANGED <<ready, fpOf>>

-----------------------------------------------------------------------------
(* Submission: submit_run_job and JobStore.enqueue.                        *)

SubmitterIdle(s) == /\ spc' = [spc EXCEPT ![s] = "idle"]
                    /\ sjob' = [sjob EXCEPT ![s] = 0]
                    /\ sfound' = [sfound EXCEPT ![s] = 0]
                    /\ UNCHANGED issued

ReleaseEnqueueLock(s) == enqLock' = IF enqLock = s THEN Nobody ELSE enqLock

\* The unlocked capacity check, the login, the new uuid and its time stamp.
Submit(s, f) ==
  /\ spc[s] = "idle" /\ issued < MaxJobs
  /\ Cardinality(pending) < PendingLimit
  /\ issued' = issued + 1
  /\ fpOf' = [fpOf EXCEPT ![issued + 1] = f]
  /\ spc' = [spc EXCEPT ![s] = "lock"]
  /\ sjob' = [sjob EXCEPT ![s] = issued + 1]
  /\ UNCHANGED <<sfound, zsetVars, keyVars, lockVars, workerVars, reaperVars, faults, torn>>

\* Acquire the enqueue lock and GET the dedupe key.
LockAndReadDedupe(s) ==
  /\ spc[s] = "lock" /\ enqLock = Nobody
  /\ enqLock' = s
  /\ sfound' = [sfound EXCEPT ![s] = dedupe[fpOf[sjob[s]]]]
  /\ spc' = [spc EXCEPT ![s] = IF dedupe[fpOf[sjob[s]]] = 0 THEN "count" ELSE "check"]
  /\ UNCHANGED <<issued, sjob, redisVars, clmLock, workerVars, reaperVars, faults, torn>>

\* blocking_timeout passed without the lock: LockError, answered with a 503.
LockTimeout(s) ==
  /\ spc[s] = "lock" /\ enqLock # Nobody
  /\ SubmitterIdle(s)
  /\ UNCHANGED <<redisVars, lockVars, workerVars, reaperVars, faults, torn>>

\* The dedupe key names a live job: the request joins it.
JoinExisting(s) ==
  /\ spc[s] = "check" /\ state[sfound[s]] \in Live
  /\ SubmitterIdle(s) /\ ReleaseEnqueueLock(s)
  /\ UNCHANGED <<redisVars, clmLock, workerVars, reaperVars, faults, torn>>

ExistingIsOver(s) ==
  /\ spc[s] = "check" /\ state[sfound[s]] \notin Live
  /\ spc' = [spc EXCEPT ![s] = "drop"]
  /\ UNCHANGED <<issued, sjob, sfound, redisVars, lockVars, workerVars, reaperVars, faults, torn>>

DropStaleDedupe(s) ==
  /\ spc[s] = "drop"
  /\ DeleteDedupe(fpOf[sjob[s]])
  /\ spc' = [spc EXCEPT ![s] = "count"]
  /\ UNCHANGED <<issued, sjob, sfound, zsetVars, state, sttl, pttl, fpOf, lockVars,
                 workerVars, reaperVars, faults, torn>>

\* Mutant: the limit is off by one.
CountPendingOffByOne(s) ==
  /\ spc[s] = "count" /\ Cardinality(pending) <= PendingLimit
  /\ spc' = [spc EXCEPT ![s] = "insert"]
  /\ UNCHANGED <<issued, sjob, sfound, redisVars, lockVars, workerVars, reaperVars, faults, torn>>

CountPending(s) ==
  /\ spc[s] = "count" /\ Cardinality(pending) < PendingLimit
  /\ spc' = [spc EXCEPT ![s] = "insert"]
  /\ UNCHANGED <<issued, sjob, sfound, redisVars, lockVars, workerVars, reaperVars, faults, torn>>

QueueFull(s) ==
  /\ spc[s] = "count" /\ Cardinality(pending) >= PendingLimit
  /\ SubmitterIdle(s) /\ ReleaseEnqueueLock(s)
  /\ UNCHANGED <<redisVars, clmLock, workerVars, reaperVars, faults, torn>>

\* The MULTI that makes the job visible.
Insert(s) ==
  /\ spc[s] = "insert"
  /\ WriteStatus(sjob[s], "queued", ResultTTL)
  /\ dedupe' = [dedupe EXCEPT ![fpOf[sjob[s]]] = sjob[s]]
  /\ dttl' = [dttl EXCEPT ![fpOf[sjob[s]]] = ResultTTL]
  /\ pttl' = [pttl EXCEPT ![sjob[s]] = ResultTTL]
  /\ pending' = pending \cup {sjob[s]}
  /\ ready' = ready \cup {sjob[s]}
  /\ SubmitterIdle(s) /\ ReleaseEnqueueLock(s)
  /\ UNCHANGED <<active, age, fpOf, clmLock, workerVars, reaperVars, faults, torn>>

\* A Redis error or the death of the replica; a lock it held stays until its lease ends.
SubmitterFault(s) ==
  /\ spc[s] # "idle" /\ faults < MaxFaults
  /\ faults' = faults + 1 /\ UNCHANGED torn
  /\ SubmitterIdle(s)
  /\ UNCHANGED <<redisVars, lockVars, workerVars, reaperVars>>

SubmitterStep(s) ==
  \/ LockAndReadDedupe(s) \/ LockTimeout(s) \/ JoinExisting(s) \/ ExistingIsOver(s)
  \/ DropStaleDedupe(s) \/ CountPending(s) \/ QueueFull(s) \/ Insert(s)

-----------------------------------------------------------------------------
(* Workers: run_one_job, JobStore.claim, mark_phase, mark_running, complete. *)

WorkerGoes(w, point) == wpc' = [wpc EXCEPT ![w] = point]

WorkerIdle(w) == /\ WorkerGoes(w, "idle")
                 /\ wjob' = [wjob EXCEPT ![w] = 0]
                 /\ wraw' = [wraw EXCEPT ![w] = "none"]
                 /\ wfp' = [wfp EXCEPT ![w] = Nobody]
                 /\ wout' = [wout EXCEPT ![w] = "none"]
                 /\ left' = [left EXCEPT ![w] = 0]

First(S) == CHOOSE j \in S : \A k \in S : j <= k

\* Mutant: the head of the queue is read before the lock is taken.
ClaimPeekUnlocked(w) ==
  /\ wpc[w] = "idle" /\ ready # {}
  /\ WorkerGoes(w, "zrem")
  /\ wjob' = [wjob EXCEPT ![w] = First(ready)]
  /\ UNCHANGED <<wraw, wfp, wout, left, redisVars, lockVars, submitterVars, reaperVars, faults, torn>>

\* Acquire the claim lock and ZRANGE ready 0 0.
ClaimPeek(w) ==
  /\ wpc[w] = "idle" /\ clmLock = Nobody /\ ready # {}
  /\ clmLock' = w
  /\ WorkerGoes(w, "zrem")
  /\ wjob' = [wjob EXCEPT ![w] = First(ready)]
  /\ UNCHANGED <<wraw, wfp, wout, left, redisVars, enqLock, submitterVars, reaperVars, faults, torn>>

\* ZREM ready; its reply is not looked at.
ClaimRemove(w) ==
  /\ wpc[w] = "zrem"
  /\ ready' = ready \ {wjob[w]}
  /\ WorkerGoes(w, "zadd")
  /\ UNCHANGED <<wjob, wraw, wfp, wout, left, active, pending, age, keyVars, fpOf, lockVars,
                 submitterVars, reaperVars, faults, torn>>

\* ZADD active, then leave the lock.
ClaimActivate(w) ==
  /\ wpc[w] = "zadd"
  /\ active' = active \cup {wjob[w]}
  /\ age' = [age EXCEPT ![wjob[w]] = 0]
  /\ clmLock' = IF clmLock = w THEN Nobody ELSE clmLock
  /\ WorkerGoes(w, "fetch")
  /\ UNCHANGED <<wjob, wraw, wfp, wout, left, ready, pending, keyVars, fpOf, enqLock,
                 submitterVars, reaperVars, faults, torn>>

\* GET the payload: without it claim() fails the job itself.
FetchPayload(w) ==
  /\ wpc[w] = "fetch"
  /\ IF pttl[wjob[w]] > 0
       THEN WorkerGoes(w, "report1") /\ UNCHANGED wout
       ELSE WorkerGoes(w, "xread") /\ wout' = [wout EXCEPT ![w] = "failed"]
  /\ UNCHANGED <<wjob, wraw, wfp, left, redisVars, lockVars, submitterVars,
                 reaperVars, faults, torn>>

\* mark_phase: the status is read, ...
AfterReport == [report1 |-> "slot", report2 |-> "mark", report3 |-> "run"]
WriteOf     == [report1 |-> "write1", report2 |-> "write2", report3 |-> "write3"]
AfterWrite  == [write1 |-> "slot", write2 |-> "mark", write3 |-> "run"]

ReportRead(w) ==
  /\ wpc[w] \in DOMAIN WriteOf
  /\ IF state[wjob[w]] \in Live
       THEN /\ wraw' = [wraw EXCEPT ![w] = state[wjob[w]]]
            /\ WorkerGoes(w, WriteOf[wpc[w]])
       ELSE /\ WorkerGoes(w, AfterReport[wpc[w]])
            /\ UNCHANGED wraw
  /\ UNCHANGED <<wjob, wfp, wout, left, redisVars, lockVars, submitterVars, reaperVars, faults, torn>>

\* ... and written back with the state it had then.
ReportWrite(w) ==
  /\ wpc[w] \in DOMAIN AfterWrite
  /\ WriteStatus(wjob[w], wraw[w], ResultTTL)
  /\ wraw' = [wraw EXCEPT ![w] = "none"]
  /\ WorkerGoes(w, AfterWrite[wpc[w]])
  /\ UNCHANGED <<wjob, wfp, wout, left, zsetVars, dedupe, dttl, pttl, fpOf, lockVars,
                 submitterVars, reaperVars, faults, torn>>

\* async with query_slots
AcquireSlot(w) ==
  /\ wpc[w] = "slot"
  /\ Cardinality({v \in Workers : wpc[v] \in SlotHeld}) < Slots
  /\ WorkerGoes(w, "report2")
  /\ UNCHANGED <<wjob, wraw, wfp, wout, left, redisVars, lockVars, submitterVars,
                 reaperVars, faults, torn>>

\* mark_running: the read, ...
MarkRead(w) ==
  /\ wpc[w] = "mark"
  /\ IF state[wjob[w]] = "queued"
       THEN WorkerGoes(w, "markw") /\ UNCHANGED <<wjob, wraw, wfp, wout, left>>
       ELSE WorkerIdle(w)
  /\ UNCHANGED <<redisVars, lockVars, submitterVars, reaperVars, faults, torn>>

\* ... and the write; wait_for starts.
MarkWrite(w) ==
  /\ wpc[w] = "markw"
  /\ WriteStatus(wjob[w], "running", ResultTTL)
  /\ WorkerGoes(w, "run")
  /\ left' = [left EXCEPT ![w] = RunTimeout]
  /\ UNCHANGED <<wjob, wraw, wfp, wout, zsetVars, dedupe, dttl, pttl, fpOf, lockVars,
                 submitterVars, reaperVars, faults, torn>>

\* The pipeline reports a phase ...
RunReport(w) ==
  /\ wpc[w] = "run" /\ left[w] > 0
  /\ WorkerGoes(w, "report3")
  /\ UNCHANGED <<wjob, wraw, wfp, wout, left, redisVars, lockVars, submitterVars,
                 reaperVars, faults, torn>>

\* ... or ends, with a result or an exception.
ToComplete(w, outcome) == /\ WorkerGoes(w, "cread")
                     /\ wout' = [wout EXCEPT ![w] = outcome]
                     /\ left' = [left EXCEPT ![w] = 0]
                     /\ wraw' = [wraw EXCEPT ![w] = "none"]

RunFinish(w, outcome) ==
  /\ wpc[w] = "run"
  /\ ToComplete(w, outcome)
  /\ UNCHANGED <<wjob, wfp, redisVars, lockVars, submitterVars, reaperVars, faults, torn>>

\* wait_for's deadline cancels the pipeline wherever it is.
RunTimesOut(w) ==
  /\ wpc[w] \in RunPoints /\ left[w] = 0
  /\ ToComplete(w, "failed")
  /\ UNCHANGED <<wjob, wfp, redisVars, lockVars, submitterVars, reaperVars, faults, torn>>

\* complete()'s first MULTI
CompleteRead(w) ==
  /\ wpc[w] \in {"cread", "xread"}
  /\ wfp' = [wfp EXCEPT ![w] = IF pttl[wjob[w]] > 0 THEN fpOf[wjob[w]] ELSE Nobody]
  /\ WorkerGoes(w, IF wpc[w] = "cread" THEN "cwrite" ELSE "xwrite")
  /\ UNCHANGED <<wjob, wraw, wout, left, redisVars, lockVars, submitterVars, reaperVars, faults, torn>>

\* complete()'s second MULTI
CompleteWrite(w) ==
  /\ wpc[w] \in {"cwrite", "xwrite"}
  /\ Finish(wjob[w], wout[w], wfp[w],
            IF wpc[w] = "cwrite" THEN ResultTTL ELSE ExpiredTTL)
  /\ WorkerIdle(w)
  /\ UNCHANGED <<lockVars, submitterVars, reaperVars, faults, torn>>

\* The replica dies, or a command outside the handlers below raises.
WorkerCrash(w) ==
  /\ wpc[w] # "idle" /\ faults < MaxFaults
  /\ faults' = faults + 1 /\ torn' = torn + IF wpc[w] = "zadd" THEN 1 ELSE 0
  /\ WorkerIdle(w)
  /\ UNCHANGED <<redisVars, lockVars, submitterVars, reaperVars>>

\* report_phase logs a failed mark_phase and goes on.
ReportError(w) ==
  /\ wpc[w] \in DOMAIN WriteOf \cup DOMAIN AfterWrite /\ faults < MaxFaults
  /\ faults' = faults + 1 /\ UNCHANGED torn
  /\ wraw' = [wraw EXCEPT ![w] = "none"]
  /\ WorkerGoes(w, IF wpc[w] \in DOMAIN WriteOf THEN AfterReport[wpc[w]] ELSE AfterWrite[wpc[w]])
  /\ UNCHANGED <<wjob, wfp, wout, left, redisVars, lockVars, submitterVars, reaperVars>>

\* A failed mark_running becomes an internal_error result.
MarkError(w) ==
  /\ wpc[w] \in {"mark", "markw"} /\ faults < MaxFaults
  /\ faults' = faults + 1 /\ UNCHANGED torn
  /\ ToComplete(w, "failed")
  /\ UNCHANGED <<wjob, wfp, redisVars, lockVars, submitterVars, reaperVars>>

WorkerStep(w) ==
  \/ ClaimRemove(w) \/ ClaimActivate(w) \/ FetchPayload(w)
  \/ ReportRead(w) \/ ReportWrite(w) \/ MarkRead(w) \/ MarkWrite(w)
  \/ RunReport(w) \/ RunTimesOut(w) \/ \E outcome \in Outcomes : RunFinish(w, outcome)
  \/ CompleteRead(w) \/ CompleteWrite(w)

-----------------------------------------------------------------------------
(* The reaper of a replica: reap_stale_jobs and JobStore.reap_stale.       *)

ReaperGoes(r, point, todo, job, fp) ==
  /\ rpc' = [rpc EXCEPT ![r] = point] /\ rtodo' = [rtodo EXCEPT ![r] = todo]
  /\ rjob' = [rjob EXCEPT ![r] = job] /\ rfp' = [rfp EXCEPT ![r] = fp]

\* Go on with the jobs of the scan that are left.
ReaperNext(r) == ReaperGoes(r, IF rtodo[r] = {} THEN "idle" ELSE "next", rtodo[r], 0, Nobody)

\* Mutant: only jobs marked running are looked for.
ReapScanRunning(r) ==
  /\ rpc[r] = "idle"
  /\ LET stale == {j \in active : age[j] >= StaleAfter /\ state[j] = "running"}
     IN stale # {} /\ ReaperGoes(r, "next", stale, 0, Nobody)
  /\ UNCHANGED <<redisVars, lockVars, submitterVars, workerVars, faults, torn>>

\* ZRANGEBYSCORE active 0 deadline
ReapScan(r) ==
  /\ rpc[r] = "idle"
  /\ LET stale == {j \in active : age[j] >= StaleAfter}
     IN stale # {} /\ ReaperGoes(r, "next", stale, 0, Nobody)
  /\ UNCHANGED <<redisVars, lockVars, submitterVars, workerVars, faults, torn>>

\* GET the status of one of them: live jobs are failed, the others forgotten.
ReapRead(r, j) ==
  /\ rpc[r] = "next" /\ j \in rtodo[r]
  /\ ReaperGoes(r, IF state[j] \in Live THEN "fread" ELSE "clear1", rtodo[r] \ {j}, j, Nobody)
  /\ UNCHANGED <<redisVars, lockVars, submitterVars, workerVars, faults, torn>>

\* fail() is complete(): two MULTIs.
ReapFailRead(r) ==
  /\ rpc[r] = "fread"
  /\ ReaperGoes(r, "fwrite", rtodo[r], rjob[r], IF pttl[rjob[r]] > 0 THEN fpOf[rjob[r]] ELSE Nobody)
  /\ UNCHANGED <<redisVars, lockVars, submitterVars, workerVars, faults, torn>>

\* Mutant: a stale job goes back to the queue.
ReapRequeues(r) ==
  /\ rpc[r] = "fwrite"
  /\ WriteStatus(rjob[r], "queued", ResultTTL)
  /\ ready' = ready \cup {rjob[r]} /\ active' = active \ {rjob[r]}
  /\ age' = [age EXCEPT ![rjob[r]] = 0]
  /\ ReaperNext(r)
  /\ UNCHANGED <<pending, dedupe, dttl, pttl, fpOf, lockVars, submitterVars, workerVars, faults, torn>>

ReapFailWrite(r) ==
  /\ rpc[r] = "fwrite"
  /\ Finish(rjob[r], "failed", rfp[r], ResultTTL)
  /\ ReaperNext(r)
  /\ UNCHANGED <<lockVars, submitterVars, workerVars, faults, torn>>

\* ZREM active, then ZREM pending.
ReapClearActive(r) ==
  /\ rpc[r] = "clear1"
  /\ active' = active \ {rjob[r]} /\ age' = [age EXCEPT ![rjob[r]] = 0]
  /\ ReaperGoes(r, "clear2", rtodo[r], rjob[r], Nobody)
  /\ UNCHANGED <<ready, pending, keyVars, fpOf, lockVars, submitterVars, workerVars, faults, torn>>

\* Mutant: the job is forgotten in active only.
ReapClearsActiveOnly(r) ==
  /\ rpc[r] = "clear2"
  /\ ReaperNext(r)
  /\ UNCHANGED <<redisVars, lockVars, submitterVars, workerVars, faults, torn>>

ReapClearPending(r) ==
  /\ rpc[r] = "clear2"
  /\ pending' = pending \ {rjob[r]}
  /\ ReaperNext(r)
  /\ UNCHANGED <<ready, active, age, keyVars, fpOf, lockVars, submitterVars, workerVars, faults, torn>>

\* A Redis error ends the round; the next one scans again.
ReaperFault(r) ==
  /\ rpc[r] # "idle" /\ faults < MaxFaults
  /\ faults' = faults + 1 /\ torn' = torn + IF rpc[r] = "clear2" THEN 1 ELSE 0
  /\ ReaperGoes(r, "idle", {}, 0, Nobody)
  /\ UNCHANGED <<redisVars, lockVars, submitterVars, workerVars>>

ReaperStep(r) ==
  \/ ReapScan(r) \/ \E j \in Jobs : ReapRead(r, j)
  \/ ReapFailRead(r) \/ ReapFailWrite(r) \/ ReapClearActive(r) \/ ReapClearPending(r)

-----------------------------------------------------------------------------
(* Redis itself: leases and TTLs.                                          *)

\* A lock whose owner died, or (LockExpires) is slower than the lease, is free again.
ExpireEnqueueLock ==
  /\ enqLock # Nobody
  /\ LockExpires \/ spc[enqLock] \notin EnqueueSection
  /\ enqLock' = Nobody
  /\ UNCHANGED <<redisVars, clmLock, submitterVars, workerVars, reaperVars, faults, torn>>

ExpireClaimLock ==
  /\ clmLock # Nobody
  /\ LockExpires \/ wpc[clmLock] \notin ClaimSection
  /\ clmLock' = Nobody
  /\ UNCHANGED <<redisVars, enqLock, submitterVars, workerVars, reaperVars, faults, torn>>

Dec(n) == IF n = 0 THEN 0 ELSE n - 1

\* Nobody is between two commands to Redis.
Settled == /\ \A s \in Submitters : spc[s] = "idle"
           /\ \A w \in Workers : wpc[w] \in {"idle", "slot", "run"}
           /\ \A r \in Reapers : rpc[r] = "idle"

\* A tick passes: it outlasts every lease, and wait_for's deadline is prompt.
Tick ==
  /\ enqLock = Nobody /\ clmLock = Nobody
  /\ SlowRedis \/ Settled
  /\ \A w \in Workers : wpc[w] \in RunPoints => left[w] > 0
  /\ age' = [j \in Jobs |-> IF j \in active /\ age[j] < StaleAfter THEN age[j] + 1 ELSE age[j]]
  /\ sttl' = [j \in Jobs |-> Dec(sttl[j])]
  /\ state' = [j \in Jobs |-> IF sttl[j] <= 1 THEN "none" ELSE state[j]]
  /\ dttl' = [f \in Fingerprints |-> Dec(dttl[f])]
  /\ dedupe' = [f \in Fingerprints |-> IF dttl[f] <= 1 THEN 0 ELSE dedupe[f]]
  /\ pttl' = [j \in Jobs |-> Dec(pttl[j])]
  /\ left' = [w \in Workers |-> Dec(left[w])]
  /\ UNCHANGED <<ready, active, pending, fpOf, lockVars, submitterVars,
                 wpc, wjob, wraw, wfp, wout, reaperVars, faults, torn>>

-----------------------------------------------------------------------------
SubmitterNext(s) == \/ \E f \in Fingerprints : Submit(s, f)
                    \/ SubmitterStep(s) \/ SubmitterFault(s)
WorkerNext(w) == \/ ClaimPeek(w) \/ AcquireSlot(w) \/ WorkerStep(w)
                 \/ WorkerCrash(w) \/ ReportError(w) \/ MarkError(w)

Next == \/ \E s \in Submitters : SubmitterNext(s)
        \/ \E w \in Workers : WorkerNext(w)
        \/ \E r \in Reapers : ReaperStep(r) \/ ReaperFault(r)
        \/ ExpireEnqueueLock \/ ExpireClaimLock \/ Tick

Spec == Init /\ [][Next]_vars

\* Coroutines keep being scheduled, some replica's reaper among them, and leases and TTLs run out;
\* the semaphore and the lock polling do not overlook one waiter for ever.
Fairness ==
  /\ \A s \in Submitters : WF_vars(SubmitterStep(s))
  /\ \A w \in Workers : SF_vars(WorkerStep(w) \/ AcquireSlot(w) \/ ClaimPeek(w))
  /\ WF_vars(\E r \in Reapers : ReaperStep(r))
  /\ WF_vars(ExpireEnqueueLock) /\ WF_vars(ExpireClaimLock) /\ SF_vars(Tick)

FairSpec == Spec /\ Fairness

-----------------------------------------------------------------------------
(* Properties.                                                             *)

\* JOB_PENDING_LIMIT bounds the queued and running jobs of all replicas, although the
\* check (jobs.py:132) and the insertion (jobs.py:134-140) are separate commands.
PendingWithinLimit == Cardinality(pending) <= PendingLimit

\* The worker is past the ZREM of its claim.
Holds(w) == wpc[w] \notin {"idle", "zrem"}

\* No job is worked on by two workers, and none that a worker holds is still up for
\* claiming: the claim's ZRANGE, ZREM and ZADD (jobs.py:150-155) act as one pop.
SingleOwner ==
  \A w \in Workers : Holds(w) => /\ wjob[w] \notin ready
                                 /\ \A v \in Workers \ {w} : Holds(v) => wjob[v] # wjob[w]

\* Whatever waits or is claimed counts against the limit: no order of the removals in
\* complete() and reap_stale() (jobs.py:229-236, 276-281) frees a slot of the queue early.
QueuedIsCounted == ready \cup active \subseteq pending

\* Where a claim or a reaper finds a job, and the jobs that a process is moving.
Reachable == ready \cup active
                   \cup {wjob[w] : w \in {v \in Workers : wpc[v] = "zadd"}}
                   \cup {rjob[r] : r \in {q \in Reapers : rpc[q] = "clear2"}}
Orphans == pending \ Reachable

\* A job that counts and that nobody will find keeps its slot of the queue for ever (pending has
\* no TTL).  Only a process that dies, or loses Redis, between the ZREM and the ZADD of claim()
\* (jobs.py:154-155) or the two ZREMs of reap_stale() (jobs.py:280-281) makes one, and one only.
OrphansByFaultsOnly == Cardinality(Orphans) <= torn

\* The handoff of jobs to workers is the abstract one.
handed == [w \in Workers |-> IF Holds(w) THEN wjob[w] ELSE 0]
unissued == {j \in Jobs : j > issued \/ \E s \in Submitters : spc[s] # "idle" /\ sjob[s] = j}

Handoff == INSTANCE JobHandoff WITH unborn <- unissued, waiting <- ready, held <- handed

\* Claiming implements the at-most-once handoff: a job that was claimed is never offered again,
\* not by a reaper, a late complete() or a stale status write.
AtMostOnce == Handoff!Spec

\* Every job that takes a slot of the queue gives it back, whatever crashes, but for the orphans
\* that OrphansByFaultsOnly counts.
SlotIsGivenBack == \A j \in Jobs : j \in pending ~> j \notin pending \/ j \in Orphans
=============================================================================
