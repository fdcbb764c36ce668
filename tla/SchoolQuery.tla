----------------------------- MODULE SchoolQuery -----------------------------
(***************************************************************************)
(* How a query for grades is spread over threads (main() and               *)
(* _run_upstream of jwxt_core.py): a batch of independent requests, then   *)
(* the grades of each semester, whose pages are a batch again.  Batches of *)
(* a query's own thread go to the pool the process shares, batches inside  *)
(* a task of the pool to a pool of their own; every request takes a slot   *)
(* of the limit that UpstreamSlots describes, for as long as it lasts.     *)
(*                                                                         *)
(* A task is a query, a job and a page: page 1 is the job itself.          *)
(***************************************************************************)
EXTENDS Integers, FiniteSets, SequencesExt

CONSTANTS Queries,
          Single, WithAll,          \* those for one semester; those with include_all
          MaxSemesters, MaxPages,   \* MAX_SEMESTERS; MAX_FINALS_PAGES and MAX_UNI_PAGES
          PoolWorkers, Slots,       \* threads of the shared pool; permits of UPSTREAM_SEM
          MaxErrors                 \* bound: requests that fail at the school

ASSUME BoundsAssumption ==
  /\ IsFiniteSet(Queries) /\ Single \cup WithAll \subseteq Queries
  /\ {MaxSemesters, MaxPages, PoolWorkers, Slots} \subseteq Nat \ {0} /\ MaxErrors \in Nat

Semesters == 1..MaxSemesters
Info  == -1
All   == 0                 \* a job is one of these or the grades of a semester
Jobs  == {Info, All} \cup Semesters
Paged == Jobs \ {Info}
Tasks == Queries \X Jobs \X (1..MaxPages)

VARIABLES
  stage,      \* of a query: "idle", "first" batch, "finals", "ok", "failed"
  task,       \* where a task is
  total,      \* pages a job asks for, once its first page has told how many there are
  next,       \* the page the loop after a job's batch asks for
  untyped,    \* queries that ask for all grades once more, without type
  queue,      \* tasks that wait for a thread of the shared pool
  free,       \* slots
  errors

vars == <<stage, task, total, next, untyped, queue, free, errors>>

Query(t) == t[1]
Job(t)   == t[2]
Page(t)  == t[3]
First(q, j) == <<q, j, 1>>

\* "wait": a job whose pages are being asked for; "loop", "loopasks": its loop after that.
Asking == {"asks", "loopasks"}
Points == {"none", "queued", "ready", "wait", "loop", "ok", "err"} \cup Asking
Ended  == {"ok", "err"}

\* A query for one semester asks for it on its own thread, not on one of a pool.
OnOwnThread(q, j) == j = 1 /\ q \in Single
\* The tasks that a thread of the shared pool works on.
OnShared(t) == IF Page(t) = 1 THEN ~OnOwnThread(Query(t), Job(t)) ELSE OnOwnThread(Query(t), Job(t))
Running == {t \in Tasks : OnShared(t) /\ task[t] \notin Ended \cup {"none", "queued"}}

\* Types of all variables; a slot is free or with a request that is under way, and the shared
\* pool has as many tasks in work as threads at most.
TypeOK ==
  /\ stage \in [Queries -> {"idle", "first", "finals", "ok", "failed"}]
  /\ task \in [Tasks -> Points]
  /\ total \in [Queries \X Jobs -> 0..MaxPages] /\ next \in [Queries \X Jobs -> 1..MaxPages + 1]
  /\ untyped \subseteq WithAll /\ queue \in Seq(Tasks) /\ errors \in 0..MaxErrors
  /\ free \in 0..Slots /\ free + Cardinality({t \in Tasks : task[t] \in Asking}) = Slots
  /\ Cardinality(Running) <= PoolWorkers

Init ==
  /\ stage = [q \in Queries |-> "idle"]
  /\ task = [t \in Tasks |-> "none"] /\ total = [x \in Queries \X Jobs |-> 0]
  /\ next = [x \in Queries \X Jobs |-> 1]
  /\ untyped = {} /\ queue = <<>> /\ free = Slots /\ errors = 0

-----------------------------------------------------------------------------
(* The pools.                                                              *)

\* The tasks of a batch, all of one query, in the order of its list.
Before(t, u) == Job(t) < Job(u) \/ (Job(t) = Job(u) /\ Page(t) < Page(u))

\* collect: with the executor the process shares.
ToShared(S, at) ==
  /\ task' = [t \in Tasks |-> IF t \in S THEN "queued" ELSE at[t]]
  /\ queue' = queue \o SetToSortSeq(S, Before)
\* A batch inside a batch: a ThreadPoolExecutor of its own.  It may have fewer threads than tasks;
\* they work on nothing else, so that its tasks wait for slots only.
ToOwn(S, at) ==
  /\ task' = [t \in Tasks |-> IF t \in S THEN "ready" ELSE at[t]] /\ UNCHANGED queue

\* Mutant: one pool for all batches.
NestsShared(S, at, nested) == ToShared(S, at)
Submits(S, at, nested) == IF nested THEN ToOwn(S, at) ELSE ToShared(S, at)

\* _worker takes the next task.
Works ==
  /\ queue # <<>> /\ Cardinality(Running) < PoolWorkers
  /\ task' = [task EXCEPT ![Head(queue)] = "ready"] /\ queue' = Tail(queue)
  /\ UNCHANGED <<stage, total, next, untyped, free, errors>>

-----------------------------------------------------------------------------
(* req().                                                                  *)

Others(t) == {u \in Tasks : Query(u) = Query(t) /\ Job(u) = Job(t) /\ Page(u) > 1}

\* A request without an answer ends its task, a page's or the job itself.
EndsTask(t) == task' = [task EXCEPT ![t] = "err"] /\ UNCHANGED <<total, next, untyped>>
\* uni() asks for all grades from the first page on again, once, without type.
Typed(t) == Job(t) = All /\ Page(t) = 1 /\ Query(t) \notin untyped
AsksUntyped(t) ==
  LET x == <<Query(t), Job(t)>>
  IN  /\ Typed(t) /\ untyped' = untyped \cup {Query(t)}
      /\ task' = [u \in Tasks |-> IF u = t THEN "ready" ELSE IF u \in Others(t) THEN "none" ELSE task[u]]
      /\ total' = [total EXCEPT ![x] = 0] /\ next' = [next EXCEPT ![x] = 1]

Takes(t) ==
  /\ task[t] \in {"ready", "loop"} /\ free > 0 /\ free' = free - 1
  /\ task' = [task EXCEPT ![t] = IF @ = "ready" THEN "asks" ELSE "loopasks"]
  /\ UNCHANGED <<stage, total, next, untyped, queue, errors>>

\* UpstreamBusyError after UPSTREAM_SEM_TIMEOUT without a slot: no error of network or login.
Busy(t) ==
  /\ task[t] \in {"ready", "loop"} /\ free = 0
  /\ IF Typed(t) THEN AsksUntyped(t) ELSE EndsTask(t)
  /\ UNCHANGED <<stage, queue, free, errors>>
\* An error of the network or the login, or one that the school reports.
Fails(t) ==
  /\ task[t] \in Asking /\ errors < MaxErrors /\ errors' = errors + 1 /\ free' = free + 1
  /\ EndsTask(t) \/ AsksUntyped(t)
  /\ UNCHANGED <<stage, queue>>

Given == free' = free + 1 /\ UNCHANGED <<stage, untyped, errors>>

\* A page, or a request that has none.
Answered(t) ==
  /\ task[t] = "asks" /\ (Page(t) > 1 \/ Job(t) = Info)
  /\ task' = [task EXCEPT ![t] = "ok"] /\ Given /\ UNCHANGED <<total, next, queue>>

\* finals, _uni_pages: the first page says how many there are; the others are a batch.
FirstPage(t) ==
  LET x == <<Query(t), Job(t)>>
      others(n) == {<<Query(t), Job(t), p>> : p \in 2..n}
  IN  /\ task[t] = "asks" /\ Page(t) = 1 /\ Job(t) \in Paged /\ Given
      /\ \E n \in 1..MaxPages :
           /\ total' = [total EXCEPT ![x] = n]
           /\ IF others(n) = {}
              THEN task' = [task EXCEPT ![t] = "ok"] /\ UNCHANGED <<queue, next>>
              ELSE /\ Submits(others(n), [task EXCEPT ![t] = "wait"], OnShared(t))
                   /\ next' = [next EXCEPT ![x] = 2]

\* The results of the batch are in; the loop over the pages begins.
Collects(t) ==
  /\ task[t] = "wait" /\ \A u \in Others(t) : task[u] \in Ended \cup {"none"}
  /\ task' = [task EXCEPT ![t] = "loop"]
  /\ UNCHANGED <<stage, total, next, untyped, queue, free, errors>>

\* The loop looks for its page under a name no result has ("p%d" without its number), so it
\* asks for every page once more, one after the other.
LoopPage(t) ==
  LET x == <<Query(t), Job(t)>>
  IN  /\ task[t] = "loopasks" /\ Given
      /\ next' = [next EXCEPT ![x] = @ + 1]
      /\ task' = [task EXCEPT ![t] =
                    IF next[x] = total[x] THEN "ok" ELSE "loop"]
      /\ UNCHANGED <<total, queue>>

-----------------------------------------------------------------------------
(* main().                                                                 *)

Start(q) ==
  /\ stage[q] = "idle" /\ stage' = [stage EXCEPT ![q] = "first"]
  /\ ToShared({First(q, j) : j \in {Info} \cup {x \in {All} : q \in WithAll}}, task)
  /\ UNCHANGED <<total, next, untyped, free, errors>>

\* A query that is over takes its tasks with it.
Over(q) ==
  /\ task' = [t \in Tasks |-> IF Query(t) = q THEN "none" ELSE task[t]]
  /\ total' = [x \in Queries \X Jobs |-> IF x[1] = q THEN 0 ELSE total[x]]
  /\ next' = [x \in Queries \X Jobs |-> IF x[1] = q THEN 1 ELSE next[x]]
  /\ untyped' = untyped \ {q}

FinalsOf(q) == {First(q, s) : s \in IF q \in Single THEN {1} ELSE Semesters}
FirstEnded(q) == \A j \in {Info, All} : task[First(q, j)] \in Ended \cup {"none"}
\* Without the student's record the query fails; without all grades it only says so.
Finals(q) ==
  /\ stage[q] = "first" /\ FirstEnded(q)
  /\ LET finals == FinalsOf(q)
     IN  IF task[First(q, Info)] = "err"
         THEN stage' = [stage EXCEPT ![q] = "failed"] /\ Over(q) /\ UNCHANGED queue
         ELSE /\ stage' = [stage EXCEPT ![q] = "finals"]
              /\ Submits(finals, task, q \in Single) /\ UNCHANGED <<total, next, untyped>>
  /\ UNCHANGED <<free, errors>>

Ends(q) ==
  LET finals == FinalsOf(q)
  IN  /\ stage[q] = "finals" /\ \A t \in finals : task[t] \in Ended
      /\ stage' = [stage EXCEPT ![q] = IF \E t \in finals : task[t] = "err" THEN "failed" ELSE "ok"]
      /\ Over(q) /\ UNCHANGED <<queue, free, errors>>

-----------------------------------------------------------------------------

Step(t) ==
  Takes(t) \/ Busy(t) \/ Answered(t) \/ FirstPage(t) \/ Collects(t) \/ LoopPage(t) \/ Fails(t)
Goes(q) == Finals(q) \/ Ends(q)
Next == Works \/ (\E t \in Tasks : Step(t)) \/ \E q \in Queries : Start(q) \/ Goes(q)

\* Threads run, and every request ends: it has a time limit.
Fairness == WF_vars(Works \/ (\E t \in Tasks : Step(t)) \/ \E q \in Queries : Goes(q))
Spec == Init /\ [][Next]_vars /\ Fairness

-----------------------------------------------------------------------------
\* Every query ends: no batch of tasks that hold the threads of the pool waits for tasks that
\* wait for one of these threads.
EveryQueryEnds == <>[](\A q \in Queries : stage[q] \in {"idle", "ok", "failed"})
=============================================================================
