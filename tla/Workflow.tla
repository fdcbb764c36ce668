------------------------------ MODULE Workflow ------------------------------
(***************************************************************************)
(* A query from POST /run, or from a job of the queue, through the gateway *)
(* (app/main.py) and its pipeline (app/pipeline.py) to the query service   *)
(* (jwxt_http.py) and the school: login, query, one login more when the    *)
(* session was refused, the jump link, the analysis and the PDF, under the *)
(* semaphores of the gateway and the time limit of a request.              *)
(*                                                                         *)
(* All queries are for one student, whose logins end each other's sessions *)
(* at the school; sessions are numbered in the order of their logins.  A   *)
(* login is one step: SessionStore has the lock that makes it one.         *)
(***************************************************************************)
EXTENDS Integers, FiniteSets

CONSTANTS Runs, Jobs,            \* queries of POST /run and of the job workers
          QuerySlots, LoginSlots, LlmSlots, PdfSlots,   \* permits of the semaphores
          MaxLogins              \* bound: sessions the school gives

ASSUME BoundsAssumption ==
  /\ IsFiniteSet(Runs) /\ IsFiniteSet(Jobs) /\ Runs \cap Jobs = {}
  /\ {QuerySlots, LoginSlots, LlmSlots, PdfSlots} \subseteq Nat \ {0} /\ MaxLogins \in Nat

Requests == Runs \cup Jobs
Sids     == 0..MaxLogins         \* 0: no session

VARIABLES
  school,   \* the session the school accepts
  store,    \* the sessions the query service keeps
  logins,   \* sessions given so far
  at,       \* where a request is
  sess,     \* session_info["session"]
  refused,  \* the session its first query was refused with
  free,     \* permits left of each semaphore
  threads   \* requests whose PDF is being drawn by a thread

proxyVars == <<school, store, logins>>
vars == <<proxyVars, at, sess, refused, free, threads>>

Semaphores == {"query", "login", "llm", "pdf"}
Permits(s) == CASE s = "query" -> QuerySlots [] s = "login" -> LoginSlots
                [] s = "llm" -> LlmSlots [] s = "pdf" -> PdfSlots

InLogin    == {"submit"}
InPipeline == {"login", "query", "relogin", "requery", "jump", "llm", "analyse", "pdf", "draw"}
Points == {"idle", "enter", "slot", "log", "done"} \cup InLogin \cup InPipeline

\* The semaphores a request holds at a point: a run logs before it leaves query_slots.
Holds(r, s) ==
  CASE s = "query" -> at[r] \in InPipeline \/ (r \in Runs /\ at[r] = "log")
    [] s = "login" -> at[r] \in InLogin
    [] s = "llm"   -> at[r] = "analyse"
    [] s = "pdf"   -> at[r] = "draw"

\* Types of all variables, and the books of the semaphores: whatever way a request leaves the
\* pipeline by, each permit is either free or held by a request that is where it needs it.
TypeOK ==
  /\ school \in Sids /\ store \subseteq 1..logins /\ logins \in 0..MaxLogins
  /\ at \in [Requests -> Points] /\ sess \in [Requests -> Sids] /\ refused \in [Requests -> Sids]
  /\ free \in [Semaphores -> Nat] /\ threads \subseteq Requests
  /\ \A s \in Semaphores : free[s] + Cardinality({r \in Requests : Holds(r, s)}) = Permits(s)

Init ==
  /\ school = 0 /\ store = {} /\ logins = 0
  /\ at = [r \in Requests |-> "idle"]
  /\ sess = [r \in Requests |-> 0] /\ refused = [r \in Requests |-> 0]
  /\ free = [s \in Semaphores |-> Permits(s)] /\ threads = {}

Goes(r, from, to) == at[r] = from /\ at' = [at EXCEPT ![r] = to]
Takes(s) == free[s] > 0 /\ free' = [free EXCEPT ![s] = @ - 1]
Gives(s) == free' = [free EXCEPT ![s] = @ + 1]

-----------------------------------------------------------------------------
(* The query service, as the pipeline sees it.                             *)

\* _login_session: the newest stored session if the school still accepts it, or a new one,
\* which ends the old one at the school.
Newest == CHOOSE s \in store \cup {0} : \A t \in store : t <= s
Login(r) ==
  \/ /\ Newest # 0 /\ Newest = school
     /\ sess' = [sess EXCEPT ![r] = Newest] /\ UNCHANGED proxyVars
  \/ /\ logins < MaxLogins /\ logins' = logins + 1
     /\ school' = logins + 1 /\ store' = (store \ {Newest}) \cup {logins + 1}
     /\ sess' = [sess EXCEPT ![r] = logins + 1]
LoginFails == UNCHANGED <<proxyVars, sess>>

\* Mutant: the service keeps a session that was refused.
Keeps(s) == store
\* TokenError: sessions.invalidate.
Invalidated(s) == store \ {s}

\* A query is answered from the cache, or by the school.
CanAnswer(s) == s \in store
\* 401: the session is gone, or the school refuses it, as it may while it is being warmed.
Refuses(s) == store' = Invalidated(s) /\ UNCHANGED <<school, logins>>

-----------------------------------------------------------------------------
(* submit_run_job: a login under login_slots, and the queue.               *)

Submit(j) ==
  /\ Goes(j, "idle", "enter")
  /\ UNCHANGED <<proxyVars, sess, refused, free, threads>>
EnterLogin(j) ==
  /\ Goes(j, "enter", "submit") /\ Takes("login")
  /\ UNCHANGED <<proxyVars, sess, refused, threads>>
\* Mutant: a login that fails keeps its permit.
LeavesIfWell(ok) == IF ok THEN Gives("login") ELSE UNCHANGED free
LeavesLogin(ok) == Gives("login")
\* A failed login is logged and answered; nothing is queued.
JobLogin(j) ==
  /\ at[j] = "submit"
  /\ \/ Login(j) /\ LeavesLogin(TRUE) /\ Goes(j, "submit", "slot")
     \/ LoginFails /\ LeavesLogin(FALSE) /\ Goes(j, "submit", "log")
  /\ UNCHANGED <<refused, threads>>

-----------------------------------------------------------------------------
(* run_workflow and run_one_job.                                           *)

Arrive(r) ==
  /\ Goes(r, "idle", "slot")
  /\ UNCHANGED <<proxyVars, sess, refused, free, threads>>

\* A job has its session; a run logs in first.
EnterSlot(r) ==
  /\ Goes(r, "slot", IF r \in Jobs THEN "query" ELSE "login") /\ Takes("query")
  /\ UNCHANGED <<proxyVars, sess, refused, threads>>

\* A run waits concurrency_wait_timeout at most: 503, and an entry of its own in the log.
Busy(r) ==
  /\ Goes(r, "slot", "done") /\ free["query"] = 0
  /\ UNCHANGED <<proxyVars, sess, refused, free, threads>>

\* Leaving the pipeline: a job gives its slot back at once, a run when it has logged.
Leaves(r) == IF r \in Jobs THEN Gives("query") ELSE UNCHANGED free
Ends(r, from) == Goes(r, from, "log") /\ Leaves(r)

RunLogin(r) ==
  /\ at[r] = "login"
  /\ \/ Login(r) /\ Goes(r, "login", "query") /\ UNCHANGED free
     \/ LoginFails /\ Ends(r, "login")
  /\ UNCHANGED <<refused, threads>>

\* _post_with_session_recovery: only a run has a password to log in again with.
Query(r) ==
  /\ at[r] = "query"
  /\ \/ CanAnswer(sess[r]) /\ Goes(r, "query", "jump") /\ UNCHANGED <<proxyVars, refused, free>>
     \/ CanAnswer(sess[r]) /\ Ends(r, "query") /\ UNCHANGED <<proxyVars, refused>>
     \/ /\ Refuses(sess[r])
        /\ IF r \in Runs
           THEN /\ Goes(r, "query", "relogin") /\ UNCHANGED free
                /\ refused' = [refused EXCEPT ![r] = sess[r]]
           ELSE Ends(r, "query") /\ UNCHANGED refused
  /\ UNCHANGED <<sess, threads>>

Relogin(r) ==
  /\ at[r] = "relogin"
  /\ \/ Login(r) /\ Goes(r, "relogin", "requery") /\ UNCHANGED free
     \/ LoginFails /\ Ends(r, "relogin")
  /\ UNCHANGED <<refused, threads>>

Requery(r) ==
  /\ at[r] = "requery"
  /\ \/ CanAnswer(sess[r]) /\ Goes(r, "requery", "jump") /\ UNCHANGED <<proxyVars, free>>
     \/ CanAnswer(sess[r]) /\ Ends(r, "requery") /\ UNCHANGED proxyVars
     \/ Refuses(sess[r]) /\ Ends(r, "requery")
  /\ UNCHANGED <<sess, refused, threads>>

\* The link only adds to the answer: without it the query goes on.  A schedule, or grades
\* without analysis and PDF, are done.
Jump(r) ==
  /\ at[r] = "jump"
  /\ Refuses(sess[r]) \/ UNCHANGED proxyVars
  /\ \/ \E p \in {"llm", "pdf"} : Goes(r, "jump", p) /\ UNCHANGED free
     \/ Ends(r, "jump")
  /\ UNCHANGED <<sess, refused, threads>>

EnterLlm(r) ==
  /\ Goes(r, "llm", "analyse") /\ Takes("llm")
  /\ UNCHANGED <<proxyVars, sess, refused, threads>>
\* An LLMError leaves the answer without its analysis.
Analyse(r) ==
  /\ at[r] = "analyse"
  /\ \/ Goes(r, "analyse", "pdf") /\ Gives("llm")
     \/ /\ Goes(r, "analyse", "log")
        /\ free' = [free EXCEPT !["llm"] = @ + 1, !["query"] = @ + IF r \in Jobs THEN 1 ELSE 0]
  /\ UNCHANGED <<proxyVars, sess, refused, threads>>

EnterPdf(r) ==
  /\ Goes(r, "pdf", "draw") /\ Takes("pdf") /\ threads' = threads \cup {r}
  /\ UNCHANGED <<proxyVars, sess, refused>>
\* The thread ends, with a file or an exception, whether its request still waits or not.
Drawn(r) ==
  /\ r \in threads /\ threads' = threads \ {r}
  /\ IF at[r] = "draw"
     THEN /\ Goes(r, "draw", "log")
          /\ free' = [free EXCEPT !["pdf"] = @ + 1, !["query"] = @ + IF r \in Jobs THEN 1 ELSE 0]
     ELSE UNCHANGED <<at, free>>
  /\ UNCHANGED <<proxyVars, sess, refused>>

\* Mutant: a cancelled analysis keeps its permit.
GivenBackButLlm(r, s) == IF s # "llm" /\ Holds(r, s) /\ (s # "query" \/ r \in Jobs) THEN 1 ELSE 0
\* What the context managers give back when the pipeline is cancelled.
GivenBack(r, s) == IF Holds(r, s) /\ (s # "query" \/ r \in Jobs) THEN 1 ELSE 0

\* asyncio.wait_for(pipeline.run): the request is cancelled wherever it is; a thread is not.
TimesOut(r) ==
  /\ at[r] \in InPipeline /\ at' = [at EXCEPT ![r] = "log"]
  /\ free' = [s \in Semaphores |-> free[s] + GivenBack(r, s)]
  /\ UNCHANGED <<proxyVars, sess, refused, threads>>

\* The entry of the log, and the answer.
Log(r) ==
  /\ Goes(r, "log", "done")
  /\ IF r \in Runs THEN Gives("query") ELSE UNCHANGED free
  /\ sess' = [sess EXCEPT ![r] = 0] /\ refused' = [refused EXCEPT ![r] = 0]
  /\ UNCHANGED <<proxyVars, threads>>

\* The school ends the student's session.
SchoolForgets ==
  /\ school # 0 /\ school' = 0
  /\ UNCHANGED <<store, logins, at, sess, refused, free, threads>>
\* A session's time in the store is over.
Expire(s) ==
  /\ s \in store /\ store' = store \ {s}
  /\ UNCHANGED <<school, logins, at, sess, refused, free, threads>>

Pipeline(r) ==
  \/ Query(r) \/ Jump(r) \/ EnterLlm(r) \/ Analyse(r) \/ EnterPdf(r)
  \/ Drawn(r) \/ TimesOut(r) \/ Log(r)
RunStep(r) == Busy(r) \/ RunLogin(r) \/ Relogin(r) \/ Requery(r) \/ Pipeline(r)
JobStep(j) == JobLogin(j) \/ Pipeline(j)

Next ==
  \/ \E r \in Runs : Arrive(r) \/ EnterSlot(r) \/ RunStep(r)
  \/ \E j \in Jobs : Submit(j) \/ EnterLogin(j) \/ EnterSlot(j) \/ JobStep(j)
  \/ SchoolForgets \/ \E s \in Sids : Expire(s)

\* The event loop runs what is ready, the service answers or its client times out, and an
\* asyncio semaphore serves those that wait in their order.
Fairness ==
  /\ \A r \in Runs : WF_vars(RunStep(r)) /\ SF_vars(EnterSlot(r))
  /\ \A j \in Jobs : WF_vars(JobStep(j)) /\ SF_vars(EnterLogin(j) \/ EnterSlot(j))
Spec == Init /\ [][Next]_vars /\ Fairness

-----------------------------------------------------------------------------
\* The retry after a refused session is made with another one, whatever the other queries of
\* the student do to the service's store: it is not refused for the same session twice.
RetryIsFresh == \A r \in Requests : at[r] = "requery" => sess[r] # refused[r]

\* Every query is answered in the end: the semaphores, taken one inside the other by runs and
\* jobs, never end in a ring of waiting queries.
Answered == <>[](\A r \in Requests : at[r] \in {"idle", "done"})
=============================================================================
