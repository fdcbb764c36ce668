# Formal model of the edu query service

TLA+ models of Stpt-Query, the service that answers students' questions from the school's
teaching system ("jwxt"), with TLC runs on small instances and TLAPS proofs for every instance.
Line numbers below and in `PROJECT.json` refer to `src/`.

Check a run with `tlc -workers 2 -config JobQueue.cfg MCJobQueue`, a proof module with
`tlapm JobQueueProofs.tla`. `PROJECT.json` maps every definition to the lines it models and lists
the runs, the hazards, the theorems and, for each property, a plausible bug in the code (a
`mutants` entry) under which its run fails. The bugs are the operators introduced by a comment
"Mutant:" in the modules.

## 1. The system and its parts

Several replicas of one FastAPI process, the gateway, run behind a proxy, each with a process of
the query service that talks to the school. They share Redis and a volume (query log, notices,
the SQLite table of calendars). In the gateway asyncio coroutines serve requests and background
loops; the query service is threads.

| Part | State | Operations | Talks to | What is hard | Correct means | Module |
|---|---|---|---|---|---|---|
| Job queue (`jobs.py`, `main.py`) | Redis: zsets ready, active, pending; status, payload, dedupe keys; two locks with leases | submit, claim, mark, complete, reap | workers run the pipeline under `query_slots` | each Redis command of many replicas interleaves; crashes between commands; status TTLs; the reaper against a slow worker | one owner per job, limit kept, a place is lost only by a fault in one of two windows, one each, and every other is given back | `JobQueue`, `JobHandoff` |
| Synchronous queries, pipeline (`main.py`, `pipeline.py`) | four semaphores; the session of a query | run, submit a job, work on it; one retry | query service | retry against concurrent logins, cancellation anywhere, threads that go on alone | permits come back, the retry is fresh, every query is answered | `Workflow` |
| Calendar subscriptions (`calendar/`) | SQLite row per student and semester; locks in memory; configuration | create, refresh, rotate, close, pause, resume, scheduler rounds | school client | rows read before an await and used after it; two commits per create; claim before fetch | an address a reply showed answers until it is taken back, old ones never do, every subscription stays fresh | `CalendarSubscription` |
| Calendar documents (`rules.py`, `ics.py`) | none | from a timetable row to weekly events | | parity, days off, a late first day | the events show the lessons | `CalendarRules` |
| Sessions and login (`jwxt_redis.py`, `jwxt_state.py`, `jwxt_http.py`) | Redis: session hashes, index, user sets, login locks | login with reuse and probe, query, warm-up, evict, sweep | school: one live session per user | checks and writes in separate commands, lease of the login lock, warm-up in the background | reuse the newest session, never end a live one needlessly, stay within the limit | `SessionStore` |
| Upstream limit and breaker (`jwxt_redis.py`) | Redis counter with TTL; per replica: breaker, local semaphore, count of local holds | acquire, release, probe | every request to the school | outages, lost replies, TTL under a holder, a release that does not know its source | limit kept, degraded limit known, permits return | `UpstreamSlots` |
| One-time codes, PDF export (`jwxt_http.py`, `rtf_pdf.py`) | Redis: codes and index, PDFs, locks; the pool of LibreOffice profiles | mint, look up, consume, convert | sessions | look-up and consumption far apart; two exports of one document; miscounted profiles | a code serves once, a failed export can be retried, a document is converted once | `OneTimeCodes` |
| Requests of the query service (`jwxt_http.py`, `jwxt_state.py`, `jwxt_core.py`) | concurrency limit, result cache, background pool | get grades, get a schedule | login, school | slow queries that write old results; many ways out of a request | no stale answer, permits come back | `QueryService` |
| Rate limits (`jwxt_state.py`, `jwxt_redis.py`, `main.py`) | token buckets, windows | allow | every endpoint | clocks of replicas, lost replies of Redis | no more than promised, nobody refused below it | `RateLimits` |
| Parameters of a query (`jwxt_core.py`) | none | semesters, weeks, cache key, link | | limits, clamps and defaults applied in different places | one key, one question; a document has the weeks asked for | `QueryParams` |
| Entry to the school (`jwxt_core.py`) | caches of key, address and sign-on service | login, sign-on, portal | school | the school changes what is cached, slow clients write old values back | a stale cache costs a retry, not a login | `SchoolEntry` |
| Queries over threads (`jwxt_core.py`) | shared pool and pools per batch | batches of requests, pages | upstream limit | tasks of a pool wait for tasks | every query ends | `SchoolQuery` |
| Query log and history (`querylog.py`, `history.py`, `main.py`) | rotating files, memory, a sorted set in Redis, dirty flag | record, replay, trim, rotate | metrics and admin pages | flag cleared while new failures happen; old lines against new entries | the shared history keeps the newest and catches up | `QueryHistory` |
| Notices (`notices.py`) | shared JSONL file, lock file; per replica a copy with a signature; mirror in Redis | create, update, delete, read, compact, restore, mirror | admin and public endpoints | crash inside an append, failed writes, mirror out of order, two replicas | what was written stays and is what is served; the limit | `NoticeStore`, `NoticeBoard` |
| Fallback stores; classification and rendering; metrics; web layer | | | | | not modelled, see section 8 | |

The parts meet at few points. The job queue and the synchronous endpoint call the pipeline, the
pipeline logs in through SessionStore, every exchange with the school takes a slot of the
upstream limit, and all Redis stores share the breaker. The modules cut the system at these
calls: what is on the other side of a call is a nondeterministic outcome (success, the kinds of
failure the caller distinguishes, a crash, and time passing), so each module's properties hold
whatever the neighbours do. Where the neighbour's state matters it is in the module: `Workflow`
has the query service's sessions and the school's, as `SessionStore` guarantees them (a login is
one step); `SchoolQuery` has the slots of `UpstreamSlots` as a count.

The hazards, each at the line where it bites, are the `hazards` list of `PROJECT.json`. Two have no
property, with the reason in their note: one needs the stores in memory, and for the other the code
gives no guarantee to check (a revived session, section 5).

## 2. How the modules were ordered

First the components whose state outlives a request and is shared by replicas (JobQueue,
CalendarSubscription, UpstreamSlots, SessionStore, NoticeStore), with their abstract
specifications JobHandoff and NoticeBoard, then the rest of the shared state (QueryHistory,
OneTimeCodes), then what composes them (Workflow, QueryService), then the code that talks to the
school (SchoolEntry, SchoolQuery), and the pure algorithms where the limits meet (CalendarRules,
RateLimits, QueryParams). Every module with behaviours is written to be proved about: constants
with named assumptions, one action per operation, no RECURSIVE operator; a recursion is a
function over a finite range. Every property of the runs that is not liveness is proved (section 6).

What would come next: the stores in memory composed with the breaker and SessionStore's login; for
SchoolQuery an invariant that says which thread can go on, as far as `EveryQueryEnds` can be had
without fairness; the bounds of QueryHistory's stores.

## 3. Modules

| Module | Grain of a step |
|---|---|
| `JobHandoff` | abstract: a job is offered once and taken once |
| `JobQueue` | one Redis command or MULTI |
| `CalendarSubscription` | everything between two awaits |
| `UpstreamSlots` | one lock section or transaction |
| `SessionStore` | one Redis write, MULTI or exchange with the school |
| `NoticeBoard` | abstract: one legal change of one board |
| `NoticeStore` | one reading, write or transaction |
| `QueryHistory` | one write to a file or to Redis; a replay is a reading and a writing |
| `OneTimeCodes` | one Redis command, or one thing between two waits |
| `Workflow` | one stage of the pipeline, taking or giving a permit with it |
| `QueryService` | one stage of a request |
| `SchoolEntry` | one request to the school with what is decided on its answer; one write to a cache |
| `SchoolQuery` | a thread takes a task, a slot or an answer |
| `CalendarRules`, `RateLimits`, `QueryParams` | operators |
| `MC*` | instances and symmetry for TLC |
| `*Proofs` | theorems and their inductive invariants |

### JobQueue

The zsets are sets of job numbers; the k-th id stands for the k-th score, since id and score are
made in the same place. `state`, `sttl`, `payload`, `dedupe` are the keys of that name with their
remaining TTL; `enqLock` and `claimLock` are the two locks. `spc`, `wpc`, `rpc` say before which
command a submitter, a worker and the reaper of a replica stand, with what each has read in local
variables. `torn` is a history variable: the faults between a ZREM and its partner command.

* Submission: `Submit`, `LockAndReadDedupe`, `LockTimeout`, `JoinExisting`, `ExistingIsOver`,
  `DropStaleDedupe`, `CountPending`, `QueueFull`, `Insert` are `enqueue()` in order.
* Claim and work: `ClaimPeek`, `ClaimRemove`, `ClaimActivate`, `FetchPayload` are `claim()`;
  `ReportRead`/`ReportWrite` a `mark_phase`, `AcquireSlot` the semaphore, `MarkRead`/`MarkWrite`
  `mark_running`, `Run*` the pipeline with its timeout, `CompleteRead`/`CompleteWrite` `complete()`.
* Reapers, one in every replica: `ReapScan`, `ReapRead`, `ReapFailRead`, `ReapFailWrite`, `ReapClearActive`,
  `ReapClearPending` are `reap_stale()` with `fail()`.
* Surroundings: `*Fault` and `WorkerCrash` end a process at any point (a Redis error that the
  code does not catch has the same effect); `Expire*Lock` is a lease that runs out; `Tick` lets
  TTLs, waiting times and ages advance. A tick is longer than a lease; with `SlowRedis = FALSE` time
  passes only while no section is open.

Taking a lock is merged with the first command under it and the last command with its release.
Nobody can see the difference: the lock excludes the only others who look.

### CalendarSubscription

`row` is the table for one student (students share neither row nor lock). `hash` and `enc` are
the token hash and the encrypted token, both named by the address they belong to; `cred` is the
stored password, `blob` whether a snapshot exists; `due`, `pause`, `recent` count down to
`next_refresh_at`, `paused_until` and the end of the refresh cooldown. `call` is what each handler
waits for and the row it read before: the code goes on using that row after the wait and so does
the model. A lock is held exactly while its holder waits for the school, so a lock is not a
variable of its own. `over` says that `expires_at` has passed; `feed()` is `Feeds`.

Replies are what a student goes by. `owed` has every address a reply showed (`Show` for a caller
who is proven at once, `CreateAccepted` with `Answer`, `ProofAccepted`) and that no rotation and no
closing took back since. `beaten` are the handlers whose row was rotated or closed while they waited
and that will show its address all the same. `halved` are the rows whose `create()` died between its
commits. All three are history variables.

`Start*` are the endpoints up to their first await; `OwnerLockGranted` and `RowLockGranted` a lock;
`CreateAccepted`, `ProofAccepted`, `RequestFails`, `Fetch*` the answers of the school with
everything up to the next await (a 401 of the timetable counts as a rejection, whatever the
password, service.py:89-91); `Expires` the end of the 210 days; `ClaimDue` one round of `claim_due`;
`Crash` a restart with or without the half-finished `create()` (`CrashInCreate`).

### UpstreamSlots

`counter` and `ttl` are the Redis key; `circuit` and `cool` a replica's breaker; `permits` and
`holds` its `BoundedSemaphore` and `_fallback_holds`. A thread only knows that it has a slot, as
in the code, so `Release` goes by `holds`. `forgotten` is a history variable: the largest number
of slots that were in use when the counter expired under them. `Attempt` is the breaker's
decision, `Redis*` the scripts with their lost replies, `Local*` and `CountHold` the fallback,
`Record`, `Ping`, `RecordPing` the breaker's bookkeeping.

### SessionStore

`hash` is the session hash (which fields are there, how old it is, whether it is warm, whether
the user's set has it), `index` the session index, `lock` the login lock with its lease,
`school` the session of a user that the school accepts. A session id is the number of the login,
so ids are ordered like the field `at`. `call` is a thread: a query (`StartQuery`, `Cold`,
`Student`, `Refresh`, `Ask`, `Slide`, `Invalidate`), or a login (`StartLogin` with the search for
a session to reuse, the same probe steps, `HandOut`, `SchoolLogin`, `StoreHash`, `StoreUser`,
`StoreIndex`, `Evict`, `DropVictim`, `Created`, `WarmUp`, `WarmRefresh`). `Sweep`, `Ages`,
`LeaseExpires`, `SchoolForgets`, `Crash` are the surroundings.

Simplifications: an EXPIRE belongs to the command before it; the user set is the flag `listed`;
`LOGIN_REUSE_MAX_AGE` is shorter than the session TTL, as in the defaults; the warm-up reuses the
steps of a query.

### NoticeStore

`disk` is the file as a reading sees it: `kept` is the highest revision of each notice, `raw` the
number of lines, `open` whether the last line lacks its end. `mem` is a replica's `records`,
`current` whether the file still has the stat the copy was read at, `mirror` the hash in Redis.
`task` is a coroutine that changes notices: it asks and takes its time stamp (`Ask`), gets the
lock and changes the copy in place (`Create`, `Update`, `Delete`, or `Refuse` for an error),
writes (`Write`, `WriteFails`), builds the mirror's transaction (`MirrorAfterWrite`, `Backup`) and
sees it executed or lost (`Exec`). Between taking the lock and the write, the event loop of the
same replica goes on, as in the code, where `_mutate` runs on a thread. `Boot*` are `initialize()`
with its restore, which writes the file without the lock. `Read` stands for the readings behind
`active`, `history` and `admin_list`; between readings the copy may be served while `Served`.
`latest`, `torn`, `overlap` and `refused` are history variables: what the last whole write said,
and whether a line has been torn, a restore has met another replica, a write has failed.

Simplifications: levels and the times other than `archived_at` are left out; a text is a number
that edits of a draft raise; how long a copy may be served (`cache_seconds`) is left open, and so
is when it is read again; a line cut just before its end counts as torn.

### QueryHistory

Entries are numbered like their time stamps. `files` are a replica's current file and its
backups, `memory` the deque, `redis` the sorted set as a set (the score is the number). An entry
goes through `LogQuery`, `WriteFile`, `WriteRedis` (`_record_query_log`); either write may fail, the
second also after Redis has done it. `dirty` is `history_dirty`; a replay (`ReplayReads`,
`ReplayWrites`, `ReplayFails`) is `_sync_history_from_file`, at the start and from the periodic
task, with time between its reading and its writing. `Crash` takes what is in memory; files and
Redis stay. `Lines` is the order in which a replay reads: the backups from the highest number down,
then the current file, each from its end; `NewestLines` are the lines its docstrings promise. `blind`
is a history variable: the last replay failed at the start, or an entry's own write failed after it
had read the file, or what it read was not the newest lines.

### OneTimeCodes

`live` and `index` are the codes in Redis and their index, written by separate commands (`Mint*`,
down to the ZPOPMIN of what is too much and a DEL for each code popped: `excess`, `evicted`); a code
is looked up (`StartExport`, `Bridge`) or consumed (`Take` is GETDEL, `Unindex` the ZREM
after it). `/jump` is `StartJump` and `JumpTickets`, `/jump/go` is `StartGo`, `Take`, `Unindex`,
`Sign`, the export `StartExport`, `Cache`, `Lock`, `Recheck`, `School`, `Slot`, `Profile`,
`Convert`, `Store`, `Reply`, `Take`. A prewarming is an export without a code. Links and exports
share the keys in Redis, so `StartGo` may be given the code of an export, and `StartExport` that of a
link. `free` and `active` are ProfilePool's list and its count, which the code does not raise for a
reused profile; a new one is counted (`Profile`), made outside the lock (`MakeProfile`) or given up
(`ProfileFails`). The model keeps what comes of that: the count may fall below zero. `Releases`
includes the exception of a release after the lease. A reply is put together in memory and sent by
the server afterwards (jwxt_http.py:1612-1664), so that no handler sees a send fail.
`used`, `sent`, `stored`, `overruns` are history.

Codes are numbered in the order in which they expire, as they do where the time of a link's code is
no shorter than that of an export's (`JUMP_CODE_TTL` of 30 s and more: with less, ZPOPMIN pops a
newer link before an older export).

### Workflow

`free` has the permits of `query_slots`, `login_slots`, `llm_slots` and `pdf_slots`; `at` says at
which stage of `run_workflow`, `submit_run_job` or `run_one_job` a query is. All queries are of
one student, whose logins end each other's sessions: `school` is the session the school accepts,
`store` what the query service keeps, a login one step that hands out the newest or makes a new
one (SessionStore has the lock that allows this). `Query` and `Requery` may answer from the cache
for any stored session. `TimesOut` is `wait_for`: it cancels a query at any stage and gives back
what the context managers hold there; a PDF in a thread (`threads`) goes on.

### QueryService

`active` is the ConcurrencyLimiter's count; a request is checked, looks into the cache, logs in
or uses its session, asks, writes to the cache, offers a prewarming and replies; every early
answer goes to `Reply` too, which is the `finally`. `cache` is the dict of TTLCache in its order,
with the age of what it holds and the ticks it has left; `Put` and `Room` are `set()`, including
that a full cache drops an entry even when the key is already there. A request lasts `QueryTime`
at most, the sum of its timeouts.

### SchoolEntry

`school` are the versions in force of the public key, the address of the management system and
the service of its sign-on; `keyCache`, `mgmtCache`, `ssoCache` the caches of the process. A
client goes through `LoginParams`, `Key`, `Tickets`, `Cookies` (login), `Apps`, `Service`,
`Mint`, `Portal` (`student()`), on the quick pass with the caches, after a failure on the full
pass without; `Put*` are the writes to the caches, a step after the reading. `TicketsAgain`,
`PasswordInstead`, `FullRetry`, `GivesUp` say what a failure leads to. `clean` is a history
variable: since the client began nothing changed at the school, none of its requests failed, and
nobody was about to write what had been read before a change.

### SchoolQuery

A task is a query, a job and a page. `ToShared` hands a batch to the pool of the process,
`ToOwn` to a pool of its own, as `collect` does for a batch inside a task; `Works` is a thread of
the shared pool that takes the next task, `Takes`/`Busy` the slot of the upstream limit,
`FirstPage` the page that tells how many there are, `LoopPage` the loop that asks for every page
once more (section 5). `untyped` are the queries whose first page was refused and that ask for all
grades again without a type (`AsksUntyped`, the second pass of `uni()`). `Finals` and `Ends` are `main()`.

### CalendarRules, RateLimits, QueryParams

Operators, each with a reference definition. `BuildEvents` goes from a row of the timetable to
weekly rules, step by step as `rules.py` and `ics.py` do; `Lesson` says directly on which days
there is a lesson, and `EventsShowLessons` compares. `Buckets` and `Gateway` are the state of a
client's bucket and window after each of a series of calls, with the clock each replica showed, the
limit of the limiter that was asked, and the fate of each script in Redis. The query service has two
limiters, one for every request and one more for logins. In memory each has buckets of its own (all
calls of a series with one limit); in Redis they fill and clip the same bucket, `rate:<ip>`, each at
its own rate. `AskedSemesters`, `SemestersKey`, `ParsedWeeks`, `AskedWeeks` and `Link`
follow a request's parameters to the school, to the cache and to the link of its document.

## 4. Runs

| Run | Instance | Shows |
|---|---|---|
| `jobqueue` | 2 submitters, 2 workers, 2 reapers, 2 jobs, 2 fingerprints, limit 1, 1 slot; result TTL 2, stale after 2, timeout 1 ticks; 2 faults anywhere | `PendingWithinLimit`, `SingleOwner`, `QueuedIsCounted`, `OrphansByFaultsOnly`; `AtMostOnce`: JobQueue implements JobHandoff; `SlotIsGivenBack` (liveness) |
| `calendar_safety` | 2 requests, 2 semesters, one of which may expire, 3 addresses, 2 passwords; 20,000 rows | `AddressShownServes`, `AddressNeverReturns`, `EventsAreLessons` |
| `calendar_fresh` | 1 request, 1 configuration edit, 1 crash, batch 2 | `SnapshotUnlessCrashed`, `KeptFresh` (liveness) |
| `upstream_slots` | 2 replicas of 2 threads, limit 1, lease 1, 1 outage, 1 crash | `TypeOK`, `LimitKept`, `LimitDegraded`, `LocalPermitsReturn` |
| `sessions_safety` | 2 users, 2 threads, store for 1 session, 2 logins, 1 mishap | `LimitKept`, `NoSelfKick`, `HandsOutNewest` |
| `notices` | 2 replicas of 1 task, 2 notices, 1 active, history of 1, compaction at 3, 3 changes, 1 mishap | `ActiveLimit`, `WritesKept`, `ServedIsWritten`; `KeepsBoard`: the file implements NoticeBoard |
| `history` | 2 replicas, 3 entries, limit 2, files of 2 lines and 1 backup, 2 failed writes, 1 crash | `CleanMeansShared`, `KeepsNewest`, `CatchesUp` (liveness) |
| `codes` | 2 clients, 1 document, 1 code kept of 2 made, 2 conversion slots, 1 lost lease | `TypeOK`, `UsedOnce`, `OneExport`, `KeptForRetry`, `Answered` (liveness) |
| `workflow` | 1 run, 2 jobs, 2 query permits and 1 of each other kind, 3 logins | `TypeOK`, `RetryIsFresh`, `Answered` (liveness) |
| `service` | 3 requests for 2 keys, limit 2, cache of 1, TTL 2 and 1, requests of 2 ticks; 72,000 series of 5 or 6 calls, 4 semesters, 3 segments of weeks | `TypeOK`, `NoStaleAnswer`, `BucketsLimit`, `GatewayKeeps`, `ParamsKept` |
| `school_entry` | 2 clients, 2 changes, 1 failed request | `StaleCachesRecover` |
| `school_query` | 2 queries, 2 semesters of 2 pages, 2 threads, 1 slot, 1 error | `EveryQueryEnds` (liveness) |

**Why the bounds let the interesting things happen.** A queue of one makes every second
submission meet a full queue, and two fingerprints let it join, replace or miss the first. A
stale age of two and a timeout of one let the reaper overtake a worker that waits for the slot; a
result TTL of two lets a status expire while its job is reaped. Two reapers meet at one stale job.
Two faults can both fall between a ZREM and its partner command, which costs a place of the queue
each.
Three jobs at once, and Redis sections that time overtakes (`SlowRedis`, which the run sets to
`FALSE`), are covered by the theorems only. Two semesters, two requests and three addresses put a
rotation and a re-authorisation inside a fetch. A limit of one with two threads on each of two
replicas makes every acquire contended, and one outage with one crash is the smallest disturbance
in which the source of a slot is forgotten. A store for one session makes every second login
evict. A limit of one active notice makes two replicas contend for it; with three changes a notice
is archived with an old stamp while the history is full, and three lines make the second or third
change compact. Three entries in a history of two make the trim give one up while a replay that
still has it is under way, and files of two lines rotate at the third, so that a replay reads the
backup first. Two clients and two codes let an export and a jump push each other's code out, take
each other's, and meet at the only document; two conversion slots let the count of profiles fall to
-1 while one is being made. A run
and two jobs fill two query permits while a third waits, and three logins let a retry be overtaken
by another query's login. Three requests with two permits make the third be refused; a cache of
one is always full. Two clients let one write to a cache what the other has just cleared, two
changes let the old value be stale twice. Two threads are as many as there are paged semesters of
one query, the case in which nested batches on one pool would wait for each other.

`EventsAreLessons`, `BucketsLimit`, `GatewayKeeps` and `ParamsKept` are about operators: a formula
over bounded inputs, which TLC evaluates once, under a condition on the state that says when the
code runs them. Terms have four weeks, rows any two segments out of 0..5 with either parity or any
three periods; buckets see six calls with gaps of 0, 4 or 9 ticks (at most two of them not 0), clocks
one tick apart and a minute of four ticks: of one limiter, or of both with up to two logins, each
after a general call. The gateway sees five requests with gaps of 0, 1 or 3 ticks and every fate of
their scripts.

Model values are symmetric only in runs without liveness. `CHECK_DEADLOCK FALSE` stands where the
system may rest: the calendars without subscriptions, the history when everything is written, and
the runs in which every query has been answered.

**Fairness**, used by the liveness properties only:

* JobQueue: some replica's reaper, the submitters and every worker's steps are scheduled, leases run
  out (WF);
  `query_slots` is FIFO and every worker polls the claim lock, so a worker takes a step, the slot or
  the claim lock that is open to it again and again in the end (SF on these together). Time does not
  stop for the exchanges with Redis (SF on `Tick`, which is disabled while one is open). Nothing is
  assumed of arrivals and faults.
* CalendarSubscription: the client's timeouts end every wait (WF on the answers and the locks), the
  scheduler's loop sleeps and wakes (WF on `ClaimDue` and `Tick`).
* QueryHistory: coroutines run, the periodic task wakes up and a dead replica is restarted (WF).
* OneTimeCodes: threads run (WF); the semaphore of the conversions serves its queue (SF on `Slot`).
* Workflow: the event loop runs what is ready and every exchange has a timeout (WF); asyncio's
  semaphores are FIFO (SF on `EnterSlot` and `EnterLogin`). EnterLlm and EnterPdf need none: a
  query that waits there is cancelled in the end.
* SchoolQuery: some thread runs while any can (WF on all of them together).
* The other specifications state safety only.

`UpstreamSlots` states fairness too (requests end by timeout, the health thread and the clock go
on), which no property of its run uses.

## 5. What the modelling found

No run is expected to fail. Where the code does less than one would wish, the property names the
case and leaves it out, so that it holds everywhere else, and the hazard's note says so; the cases
are these.

* Staleness of a job counts from the claim, the timeout of its pipeline from the slot. A job that
  waited long is failed and un-deduplicated while it executes, so that the same query can run
  twice, against README.md:134. `AtMostOnce` bounds the damage: the job itself is not offered again.
* `claim()` removes a job from ready before it adds it to active (jobs.py:154), and `reap_stale()`
  clears active before pending: a process that dies in between leaves a job that counts against
  the limit for ever. `OrphansByFaultsOnly` says that each such fault costs one place at most and
  that nothing else costs any; `SlotIsGivenBack` leaves out the jobs it counts.
* `create()` answers a re-authorisation with the address of the row it read before it waited for the
  lock and the school (calendar/service.py:260, 298, 307), `status()` with that of a row read before
  the school proved the caller (187-202), and `rotate()` with the one it made for a row that may be
  closed by then (405-417): after a rotation or a closing in between the student is shown a dead
  address. `AddressShownServes` sets these replies apart (`beaten`) and holds of all others.
* `feed()` refuses rows that have expired or lack a snapshot (calendar/service.py:435-445), but
  `status()` goes on showing their address, no operation extends `expires_at`, and the scheduler
  goes on fetching an expired row with the stored password. `AddressShownServes` asks of an expired
  row, and of one whose `create()` died halfway, only that the address is still its own.
* Any 401 of `/get_schedule` counts as a wrong password (calendar/service.py:89-91), so that sessions
  the school drops can pause a subscription whose password is right. `revoked_at` is read and never
  set; no route uses the idempotency table.
* `refresh_record` looks up the semester outside its `try` (calendar/service.py:351): one
  subscription of a semester that is no longer configured ends the scheduler's round for those
  claimed with it, for ever. `KeptFresh` assumes configured semesters.
* The lease of the upstream limit is the TTL of one counter for all holders, which each acquire
  renews (jwxt_redis.py:821, 847): a dead replica's slot does not come back while others are busy,
  and when the TTL does run out the slots of living holders are forgotten too (`forgotten`).
* `touch()` looks and writes in two commands (jwxt_redis.py:508-511): it revives a session that was
  just invalidated as a hash with nothing but `exp`, which a login may hand out.
* `history_dirty` is cleared after the replay has written (main.py:620): an entry whose own write
  failed after the replay had read the file is not made up for until the flag is raised again, and
  a failed replay at the start clears the flag as well (main.py:601), against README.md:250.
  `CleanMeansShared` and `CatchesUp` leave these out (`blind`).
* `archive_files()` returns the oldest backup first and the current file last
  (querylog.py:115-131), though its docstring (116), that of `iter_recent_lines()` (134) and the
  replay's (main.py:322) say newest first. Once a file has rotated, a replay uses up its limit on the
  oldest lines, and entries whose write to Redis failed are never caught up with, against
  README.md:249-254. `Lines` has the order; the two properties set apart a replay that did not read
  the newest lines (`blind`) and hold with backups otherwise.
* With Redis, `/jump/go` and the export share the keys of their codes (jwxt_redis.py:658-659), and
  `/jump/go` with `plain` or `app` takes whatever code it is given (jwxt_http.py:776-777): the code of
  an export is used up with no file sent. `KeptForRetry` names this way for a code to go.
* ProfilePool cuts its count at zero for every profile given back, reused ones included, and takes
  one off again when mkdtemp fails (rtf_pdf.py:56, 64): with two slots or more the count can fall below
  zero. `TypeOK` has the bound, and that the profiles on disk stay within the slots all the same.
* In Redis the login limiter and the general one share the bucket `rate:<ip>`
  (jwxt_redis.py:734-735, jwxt_http.py:1509-1512). A login asks the general one first, which credits
  the time since the last call at its own, higher rate; the login limiter then clips the bucket to
  its own size. So logins come through at almost the general rate instead of `login_rate_limit`
  (jwxt_http.py:2286-2288), and other requests may be refused after a login. `BucketsLimit` says what
  the shared bucket does promise: the higher limit.
* The release of a keyed lock in Redis raises when the lease is over (jwxt_redis.py:802-816); what
  the client had becomes a 500. An export then keeps its code (`KeptForRetry`).
* A retry of a login after a key of the cache was given up reads the cache again
  (jwxt_core.py:664): another client that writes the old key at that moment defeats it.
  `StaleCachesRecover` is stated for a client that nobody disturbs this way.
* The loops over pages look their results up under `"p%d"`, a name without the number
  (jwxt_core.py:838, 895), so every page is asked for twice (`LoopPage`).
* A slow query may replace a newer result in the cache (jwxt_http.py:1456), and TTLCache.set drops
  another entry when the key is already there. `NoStaleAnswer` bounds the age all the same.
* Cache keys of semesters coincide for parameters with stray commas and for more than 20
  semesters; a week counts against the limit of 60 as often as it is named; the default is weeks 1
  to 25 though a request may name week 30. `ParamsKept` leaves the first out and holds with the rest.
* UIDs of calendar events start anew with every row (calendar/ics.py:122), so that two rows of a
  course on one day can share one; periods that the table of times lacks are dropped without a
  note (calendar/config.py:64). `EventsAreLessons` speaks of the dates and times of each row.
* Replicas whose clocks are more than a minute apart can give a client more tokens than the limit and
  the skew: a bucket nobody asked for two minutes is dropped and begins full (jwxt_redis.py:756),
  even if a clock that was ahead had filled it before. `BucketsAreLimits` has
  `MaxSkew <= Minute`.
* A PDF that is being drawn when its query is cancelled goes on without its permit, so more than
  `PDF_CONCURRENCY` may be drawn at once (`threads` of Workflow).
* Seen on the way, in code that no property is about: `_jump` goes on after its 400 in JSON mode
  and ends in a 500 (jwxt_http.py:653); `_deep_throttled` checks and sets in two lock sections
  (jwxt_http.py:345).

## 6. Proofs

All proofs hold for every value of the constants that satisfies the modules' assumptions (numbers
in range, finite sets where something is counted, names distinct). A module of proofs may serve
two components: UpstreamProofs has those that face the school (UpstreamSlots, SchoolEntry),
WorkflowProofs a query and its log (Workflow, QueryHistory), ServiceProofs the query service with
its limits and parameters. SchoolEntry's and QueryHistory's names carry a prefix (`EntrySpec`,
`HistorySpec`), so that the two of a module can be extended together.

Where a component recurses over data (`WeeklyRuns`, `Buckets`, `Gateway`, `Kept`, `ParsedWeeks`,
`Link`, FlattenSeq), the recursion is a function over a finite range, and induction over it is by
the least number at which a claim fails (`NoFirstFailure`, `Upwards`). The same argument shows that
the function exists (`RunsDefined`, `BucketsDefined`, `FlatDefined` and the like), after which its
equations can be used. The four properties about operators are bounded in the runs; their theorems
state the formula for every input of any length and size, and from it the run's property.

**JobQueueProofs.** `TypeInv` adds to `TypeOK` that a process in the middle of something has a job
(needed as status arrays are indexed by it): `TypeCorrect`. `ClaimInv` says who is where under the
claim lock: at most the lock's owner is between ZRANGE and ZADD, the job it peeked at is still
ready, jobs in use were issued, new ids are unused, and jobs have one owner. From it follow
`OneOwnerPerJob` and, step by step under the refinement mapping, `ImplementsHandoff`. `LimitInv`
says the same of the enqueue lock: a submitter past its count has a free place reserved
(`LimitIsKept`). `CountInv` follows a job through the claim and the reaper: what is active or in the
reaper's hands is no longer ready, and what it is about to clear is no longer active
(`QueuedJobsAreCounted`). These four assume `LockExpires = FALSE`: with a section that outlives its
lease the code does not keep them, so the assumption is part of the statement.
`PlacesLostByFaultsOnly` needs no lock and no assumption about faults: every step either adds nothing
to the orphans (`NoneLost`) or is a fault in one of the two windows and adds one job (`OneLost`), so
that their cardinality never exceeds `torn`. The number of workers, submitters and reapers is any.

**CalendarProofs.** `TypeInv` adds that a waiting handler has a row to go by and that claimed rounds
are rows. Every write of a row goes through a few operators, and the lemmas on these show that each
keeps type, id and the pairing of `hash` and `enc`; each handler's step is one of them:
`TypeCorrect`, `OldAddressesStayDead`. For the replies `AddressInv` adds to the pairing (`Paired`)
that every address owed is a row's (`Standing`) and that a handler that will show the address it has
read, and was not overtaken, still has the row as it read it (`Current`); a rotation or a closing of
the row puts every such handler among the overtaken. With the lemma that a row without a snapshot is
in `halved` (`SubscribedHaveSnapshots`) this is `ShownAddressServes`. `FeedsShowLessons` is about
the documents: the days of an event are those of the weeks between the first and the last of a run,
in steps of the run (`WeeklyRuns` loses no week and adds none), so for any segments of weeks,
parity, days off, first day of teaching and table of periods the events of a row show its lessons,
each once.

**UpstreamProofs.** The invariant counts: `Accounted` relates the counter to the threads that hold
or are about to hold a slot and to `forgotten`, `Permits` relates `permits` and `holds` to the
threads between taking and counting, `NoOutage` says that without an outage no replica falls back.
From it: `TypeCorrect`, `LimitIsKept`, `LimitWhenDegraded`, `PermitsReturn`. The work is in the
cardinalities; `Moved` states once what a thread's step does to every set of threads by point.

**SessionProofs.** Seven conjuncts: where sessions are in their life (`Placed`), the lock's holder
is the user's only login (`Locked`), the school's session is the latest (`SchoolLatest`), what a
probe may rely on (`Probed`), that a session being stored is found soon (`ListedSoon`), that a
login about to be made knew the best candidate (`KnowsBest`), and `NoSelfKick` itself. Steps that
only touch data nobody relies on are classed once (`HashMove`, `Plain`). Results: `TypeCorrect`,
`ReuseIsNewest`, `LiveSessionIsReused`. For the size of the store the index is the measure
(`LimitInv`): every session that can be found is in the index or in the hands of a call, and the
index is within the limit or some login has counted what is too much: `StoreStaysWithinLimit`, for
any number of overlapping logins. The sessions in flight cannot be bounded with it: of logins that
count at the same time each pops what it has counted, and the last is answered before the others
have dropped theirs.

**NoticeProofs.** Every map of notices in the system (the file, the copies, the mirror, a
transaction under way) is `Sound`: its records are well typed, its ids were given out and it keeps
to the limit. That alone is not inductive, since a line is appended to a file the writer has read
earlier; `WriterOK` adds that there is one writer, and that its copy is `Based` on the file, that
is, differs from it by one legal change of the board. The history needs an argument of its own
(`FullHistory`): what is forgotten had `MaxHistory` newer archived notices, and the newest of
those forgotten shows that as many remain. `ServedOK` follows the copies from reading to reading.
Results: `TypeCorrect`, `LimitHolds`, `WritesAreKept`, `ServedIsFile`, `FileIsBoard`.
`ActiveLimit`, `WritesKept` and `KeepsBoard` say nothing once a restore has met another replica
(`overlap`), the last two nothing once a line was torn, `ServedIsWritten` nothing once a write was
refused: there the code does lose a notice, exceed the limit or show a refused change for a while.

**CodesProofs.** A code is spent once because it is in one place at a time: with the client that
is about to store it, in Redis, with the client whose GETDEL took it, or used (`SpentOnce`). That
an export's code is taken only for a reason is `Redeems`: whoever stands before the GETDEL has
sent the file or lost the session. `LockedOnce` says, until a lease is lost, that a client in the
locked section holds the lock of its document and has seen under it that no copy exists. The
pool's count cannot be part of an equation, since the code does not keep it right; what is
inductive is `PoolOK`: idle profiles, those being made and conversions together never exceed the
slots, as a new profile is made only when none is idle; and the count less the profiles being made,
of which all may yet fail, stays above minus the number of slots. A code in Redis is in the index, on
its way there or popped (`RedisOK`). Results: `TypeCorrect`, `OneRedirect`, `OneConversion`,
`CodeKept`.

**WorkflowProofs.** For the retry, sessions are numbered by login and `Dropped` says that a query
that logs in again was refused with a session the store no longer has; the store never gets an old
number back, so whatever the login returns is another: `RetryFresh`. For the permits, each
semaphore's books are an equation between `free` and the cardinality of its holders. `Held` says
which permits a query has at which point, so a step of one query changes the books by the difference
of its two points, and each action has to give or take just that: `Permitted`.

For the history, a trim gives up an entry for `Limit` newer ones: were there fewer, the greatest of
those newer ones that were cut off would have had fewer than `Limit` above it (`TrimKeepsNewest`).
Every write is a trim of more (`WritesKeep`), with or without an answer, which is
`HistoryKeepsNewest`. The flags need `HistoryInv`: the lines of a replica's file are entries it made
itself and whose file was written (`LinesOk`), a replica that is not up, or replays, has its flag up
(`FlagsOk`), and of every one of the newest lines whose writing is over, `Told`: the history has it,
or the replay under way has read it, or there is none and the flag is up, so that the next replay
will. A line that comes to the file pushes others out but brings only itself (`LineMore`):
`CleanHistoriesAreShared`.

**ServiceProofs.** The limiter's count is the cardinality of who is inside (`PermitsComeBack`). For
the age of answers each request carries its time: what it read is no older than `spent`, and an
entry of the cache has lost a tick of its time for every tick it aged, so that age and time left
together stay within `KeptFor + QueryTime` (`AgeOfEntry`); a hit adds the `spent` of the next
request: `AnswersAreRecent`. A token bucket is reckoned at one rate, the highest limit of its calls,
and what a call of the lower one credits or takes back at another rate is added up (`Lag`, `Drift`).
It never lacks more than its clock may still gain (`Solvent`); and what the calls of a stretch took
and what is left (`Ledger`), or what they took by the time that passed (`Bounded`), is within what
it held and what came in: the two are one induction, over calls that were let through and calls that
were refused. So the skew counts once: `BucketsAreLimits`, for clocks at most a minute apart
(`MaxSkew <= Minute`). The hypothesis is needed: a bucket is dropped after two minutes without a
request and begins full, which only makes no difference if it would have been full. `GatewaysLimit`:
within a minute the window in Redis begins anew at most once, and a full window or memory stands for
as many requests of the last minute, whatever scripts were lost. `ParamsMeanOneThing`: a list of
semesters is asked for as it stands and its key is its set; no week of a segment is lost while there
is room, and the link names the weeks one by one, for which there is room by `WeeksAssumption`.

**SchoolEntry, in UpstreamProofs.** What a client may use without having asked the school is bounded
by where it is: a stale key on the first attempt only (`KeyFresh`), a stale address or service on
the quick pass only (`PortalFresh`). The second attempt reads the key's cache again, so it rests on
the others: `NothingStale` says that, while anybody is undisturbed, what is on its way into a cache
is what the school says. `OthersGood` shows once that no client's step disturbs another's share of
the invariant, and each action has one lemma: `CachesRecover` for any number of clients and changes.

## 7. Only model-checked

Liveness (`SlotIsGivenBack`, `KeptFresh`, `CatchesUp`, both `Answered`, `EveryQueryEnds`): TLAPS has
no ENABLED reasoning here, so fairness stays with TLC. Every other property of the runs is proved,
some under hypotheses that the run's instance satisfies: `LockExpires = FALSE` for four theorems of
JobQueueProofs, and `MaxSkew <= Minute` for `BucketsAreLimits`.

`TypeOK` of JobQueue, CalendarSubscription, SessionStore, NoticeStore and SchoolEntry is proved and
not among the runs' properties. `HistoryTypeOK` and that of SchoolQuery document the state and are
neither proved nor among them: what the memory of a replica holds is a SelectSeq folded over lines,
which the provers cannot expand, and no proof needs it. That the operators' references (`Lesson`,
`WeeksKept`) say what the code's users expect is read, not proved.

## 8. Not modelled

* The stores in a replica's memory (sessions, login locks, codes) and the wrappers that choose
  between them and Redis. Inside one process they do in one lock section what the modelled stores
  do in several commands; what two replicas with different circuits do to one another's sessions
  is listed as hazards, and the code gives no guarantee for it.
* Of the queue: reading a status, which changes nothing.
* Of the calendars: the idempotency table, the audit table, ETag and revision, encryption, several
  students (independent), and several processes on one table (the deployment runs one); the text
  of events and the loading of the configuration.
* Of the sessions and the query service: the portal's content, endpoints without a query, response
  headers, several gateways without Redis and the eviction of rate-limit buckets.
* Of the history: collecting all replicas' files for an administrator, counters, the legacy list.
* Of the notices: levels, the length of the cache, a deployment without Redis, records that fail
  to parse for other reasons than a torn line, losing the file while replicas run.
* Of the codes: `verify=1`, the export by user name and password, GET and DEL for an old Redis.
* Of the school: cookies, page formats and parsing. Classification, rendering, language model
  calls, QR codes, metrics, traces, pages and deployment: pure functions, I/O or display. Nothing
  in them keeps state that another part decides by.
