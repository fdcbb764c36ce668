------------------------ MODULE CalendarSubscription ------------------------
(***************************************************************************)
(* The calendar subscriptions of one student: CalendarService, the SQLite  *)
(* table behind it and the background scheduler (app/calendar).  Students  *)
(* share no row and no lock.                                               *)
(*                                                                         *)
(* The service is one asyncio process: everything between two awaits is    *)
(* one step.  A handler waits for a lock or for the school; a lock is held *)
(* exactly while its holder waits for the school ("create": the owner's    *)
(* lock, "fetch": the row's), so it is not a variable of its own.  The row *)
(* a handler read before it waited is rec: it is what it goes on using.    *)
(* Replies that show an address are what the student goes by: owed.        *)
(***************************************************************************)
EXTENDS Integers, FiniteSets, Sequences

CONSTANTS Semesters,
          Requests,      \* HTTP requests that wait for the school or a lock
          Scheduler,     \* the coroutine of CalendarScheduler.run
          None,          \* no row
          MaxPerOwner, MaxFailures,   \* of CalendarSettings
          Batch,         \* rows claimed per round of the scheduler
          Interval,      \* ticks of refresh_interval
          Reclaim,       \* ticks of claim_due's cooldown_seconds
          RetryCap,      \* ticks of the longest backoff
          PauseTicks,    \* ticks of pause_hours
          Cooldown,      \* ticks between two refreshes of a user
          Expiring,      \* bound: semesters whose rows may get as old as ttl_days
          MaxPassword,   \* bound: passwords the student ever has
          MaxMinted,     \* bound: ids and addresses ever made
          MaxStarts, MaxEdits, MaxCrashes   \* bounds: requests, configuration edits, crashes

Tasks     == Requests \cup {Scheduler}
Ids       == 1..MaxMinted
Passwords == 1..MaxPassword
FailCap   == IF MaxFailures > RetryCap THEN MaxFailures ELSE RetryCap

ASSUME BoundsAssumption ==
  /\ MaxPerOwner \in Nat \ {0} /\ MaxFailures \in Nat \ {0} /\ Batch \in Nat \ {0}
  /\ Interval \in Nat \ {0} /\ Reclaim \in 1..Interval /\ RetryCap \in 1..Interval
  /\ PauseTicks \in Nat \ {0} /\ Cooldown \in Nat \ {0} /\ MaxPassword \in Nat \ {0}
  /\ MaxMinted \in Nat /\ MaxStarts \in Nat /\ MaxEdits \in Nat /\ MaxCrashes \in Nat
  /\ IsFiniteSet(Semesters) /\ Cardinality(Semesters) <= MaxMinted /\ Expiring \subseteq Semesters

\* A row of table calendars.  hash answers feeds, enc is shown to the student;
\* expires_at is over; due, pause and recent count down to next_refresh_at,
\* paused_until and the end of the cooldown after last_fetch_at.
Rows == [id : Ids, hash : Ids, enc : Ids, cred : Passwords, blob : {"yes", "no"}, over : BOOLEAN,
         fails : 0..FailCap, pause : 0..PauseTicks, due : 0..Interval, recent : 0..Cooldown]
ASSUME NamesAssumption == None \notin Rows /\ Scheduler \notin Requests

VARIABLES row,        \* the table: semester -> row
          minted,     \* ids and addresses made so far
          terms,      \* semesters the configuration defines
          schoolPw,   \* the student's password at the school
          call,       \* what each task is in the middle of
          batch,      \* rows the scheduler has claimed and not yet taken up
          owed,       \* addresses the student was shown and that nobody took back
          beaten,     \* tasks that will show an address taken back since they read it
          halved,     \* rows whose create() died between its two commits
          starts, edits, crashes

countVars == <<starts, edits, crashes>>
shownVars == <<owed, beaten, halved>>
vars == <<row, minted, terms, schoolPw, call, batch, shownVars, countVars>>

\* A task is idle (None) or waits: for the school's word on the caller, for a
\* lock, or for the school's answer under a lock.
Calls == [at : {"prove", "ownerwait", "create", "rowwait", "fetch"},
          op : {"create", "refresh", "status", "rotate", "close", "record"},
          sem : Semesters, pw : Passwords, rec : Rows \cup {None}]

TableOK == row \in [Semesters -> Rows \cup {None}] /\ minted \in 0..MaxMinted
TasksOK == /\ call \in [Tasks -> Calls \cup {None}]
           /\ batch \in Seq([sem : Semesters, rec : Rows])
\* Types of all variables: the rows, the handlers in flight and the bounds.
TypeOK == /\ TableOK /\ TasksOK
          /\ terms \subseteq Semesters /\ schoolPw \in Passwords
          /\ owed \subseteq Ids /\ beaten \subseteq Tasks /\ halved \subseteq Ids
          /\ starts \in 0..MaxStarts /\ edits \in 0..MaxEdits /\ crashes \in 0..MaxCrashes

\* The row create() inserts, before its snapshot.
NewRow(k, p) == [id |-> k, hash |-> k, enc |-> k, cred |-> p, blob |-> "no", over |-> FALSE,
                 fails |-> 0, pause |-> 0, due |-> Interval, recent |-> 0]
\* Mutant: a snapshot of an unchanged timetable is not stored.
SnapshotKeepsBlob(r) == [r EXCEPT !.fails = 0, !.pause = 0, !.due = Interval, !.recent = Cooldown]
\* save_snapshot of a success: it also clears the failures and the pause.
Snapshot(r) == [r EXCEPT !.blob = "yes", !.fails = 0, !.pause = 0,
                         !.due = Interval, !.recent = Cooldown]
Opened(k, p) == Snapshot(NewRow(k, p))

FirstId == CHOOSE f \in [Semesters -> 1..Cardinality(Semesters)] :
             \A s, t \in Semesters : f[s] = f[t] => s = t

Subscribed == {s \in Semesters : row[s] # None}

\* The process starts on a database that may already hold subscriptions, whose
\* addresses the student knows.
Init ==
  /\ \E old \in SUBSET Semesters :
       row = [s \in Semesters |-> IF s \in old THEN Opened(FirstId[s], 1) ELSE None]
  /\ minted = Cardinality(Semesters) /\ terms = Semesters /\ schoolPw = 1
  /\ call = [t \in Tasks |-> None]
  /\ owed = {row[s].enc : s \in Subscribed} /\ beaten = {} /\ halved = {}
  /\ batch = <<>> /\ starts = 0 /\ edits = 0 /\ crashes = 0

-----------------------------------------------------------------------------
(* Store operations: UPDATE ... WHERE id, and the two commits of create.   *)

Found(s, id) == row[s] # None /\ row[s].id = id
Update(s, id, new) ==
  row' = IF Found(s, id) THEN [row EXCEPT ![s] = new] ELSE row

More(n)     == IF n < FailCap THEN n + 1 ELSE n     \* only compared below FailCap
RetryAfter(n) == IF n < RetryCap THEN n ELSE RetryCap
\* mark_failure with the count of the row that was read: `after` ticks until the next try.
Failed(r, n, pause, after) == [r EXCEPT !.fails = n, !.pause = pause, !.due = after,
                                        !.recent = Cooldown]
NewPassword(r, p) == [r EXCEPT !.cred = p]     \* update_credentials
Reauthorized(r, p) == Snapshot(NewPassword(r, p))

At(t, point) == call[t] # None /\ call[t].at = point
OwnerLockFree   == \A t \in Tasks : ~At(t, "create")
RowLockFree(id) == \A t \in Tasks : At(t, "fetch") => call[t].rec.id # id

-----------------------------------------------------------------------------
(* Requests.                                                               *)

\* What is kept of a row that was read: nobody looks at its schedule again, and
\* only a user's refresh at the time of its last fetch.
Seen(r, o) == IF r = None THEN None
              ELSE [r EXCEPT !.over = FALSE, !.due = 0, !.pause = 0,
                             !.recent = IF o = "refresh" THEN @ ELSE 0]

\* The row is read, and the task waits at `point`.
Reads(t, o, s, p, point) ==
  call' = [call EXCEPT ![t] =
             [at |-> point, op |-> o, sem |-> s, pw |-> p, rec |-> Seen(row[s], o)]]

Begin(t) == call[t] = None /\ starts < MaxStarts /\ starts' = starts + 1
Done(t)  == call' = [call EXCEPT ![t] = None]
Moves(t, point) == call' = [call EXCEPT ![t].at = point]

\* create(): only the path to the lock; the others answer without a change.
StartCreate(t, s, p) ==
  /\ Begin(t) /\ s \in terms
  /\ IF row[s] = None THEN Cardinality(Subscribed) < MaxPerOwner ELSE row[s].cred # p
  /\ Reads(t, "create", s, p, IF OwnerLockFree THEN "create" ELSE "ownerwait")
  /\ UNCHANGED <<row, minted, terms, schoolPw, batch, shownVars, edits, crashes>>

\* refresh(): with the stored password straight to the row's lock, where a
\* fresh row is skipped; with another one the school is asked first.
StartRefresh(t, s, p) ==
  /\ Begin(t) /\ row[s] # None
  /\ \/ row[s].cred # p /\ Reads(t, "refresh", s, p, "prove")
     \/ /\ row[s].cred = p /\ s \in terms
        /\ IF RowLockFree(row[s].id)
           THEN row[s].recent = 0 /\ Reads(t, "refresh", s, p, "fetch")
           ELSE Reads(t, "refresh", s, p, "rowwait")
  /\ UNCHANGED <<row, minted, terms, schoolPw, batch, shownVars, edits, crashes>>

\* status(), rotate() and close() of a caller neither the password nor a token proves.
StartProof(t, o, s, p) ==
  /\ Begin(t) /\ row[s] # None /\ row[s].cred # p
  /\ Reads(t, o, s, p, "prove")
  /\ UNCHANGED <<row, minted, terms, schoolPw, batch, shownVars, edits, crashes>>

\* admin_refresh(): refresh_record on the row just read, with its password.
StartAdminRefresh(t, s) ==
  /\ Begin(t) /\ row[s] # None /\ s \in terms
  /\ Reads(t, "record", s, row[s].cred, IF RowLockFree(row[s].id) THEN "fetch" ELSE "rowwait")
  /\ UNCHANGED <<row, minted, terms, schoolPw, batch, shownVars, edits, crashes>>

\* What a reply shows is not owed if it was taken back while its handler waited.
Shown(t, k) == IF t \in beaten THEN {} ELSE {k}
\* A rotation or a closing takes an address back, also from who is about to show it.
Withdrawn(s, id) == IF Found(s, id) THEN owed \ {row[s].hash} ELSE owed
Overtaken(s, id, o) ==
  {t \in Tasks : /\ Found(s, id) /\ call[t] # None /\ call[t].sem = s /\ call[t].rec # None
                 /\ call[t].op \in {"create", "status"} \/ (call[t].op = "rotate" /\ o = "close")}

\* status(), local_state(), qr() and create() of a proven caller read and answer at once.
Show(s) ==
  /\ row[s] # None /\ owed' = owed \cup {row[s].enc}
  /\ UNCHANGED <<row, minted, terms, schoolPw, call, batch, beaten, halved, countVars>>

Rotated(r) == [r EXCEPT !.hash = minted + 1, !.enc = minted + 1]

\* rotate() of a proven caller, or admin_rotate(): nothing is waited for.
Rotate(s) ==
  /\ row[s] # None /\ minted < MaxMinted /\ starts < MaxStarts /\ starts' = starts + 1
  /\ row' = [row EXCEPT ![s] = Rotated(row[s])] /\ minted' = minted + 1
  /\ owed' = Withdrawn(s, row[s].id) \cup {minted + 1}
  /\ beaten' = beaten \cup Overtaken(s, row[s].id, "rotate")
  /\ UNCHANGED <<terms, schoolPw, call, batch, halved, edits, crashes>>

\* close() of a proven caller, or admin_delete().
Close(s) ==
  /\ row[s] # None /\ starts < MaxStarts /\ starts' = starts + 1
  /\ row' = [row EXCEPT ![s] = None] /\ owed' = Withdrawn(s, row[s].id)
  /\ beaten' = beaten \cup Overtaken(s, row[s].id, "close")
  /\ UNCHANGED <<minted, terms, schoolPw, call, batch, halved, edits, crashes>>

\* admin_pause() and admin_resume().
SetPaused(s) ==
  /\ row[s] # None /\ starts < MaxStarts /\ starts' = starts + 1
  /\ \E p \in {0, PauseTicks} : row' = [row EXCEPT ![s].pause = p]
  /\ UNCHANGED <<minted, terms, schoolPw, call, batch, shownVars, edits, crashes>>

OwnerLockGranted(t) ==
  /\ At(t, "ownerwait") /\ OwnerLockFree /\ Moves(t, "create")
  /\ UNCHANGED <<row, minted, terms, schoolPw, batch, shownVars, countVars>>

\* Under the lock a user's refresh looks up the cooldown in the row it read before.
Enters(t) == IF call[t].op = "refresh" /\ call[t].rec.recent > 0 THEN Done(t) ELSE Moves(t, "fetch")

RowLockGranted(t) ==
  /\ At(t, "rowwait") /\ RowLockFree(call[t].rec.id) /\ Enters(t)
  /\ UNCHANGED <<row, minted, terms, schoolPw, batch, shownVars, countVars>>

\* Mutant: the answer shows the address create() made, also when a row was found.
AnswerOwn(s, old) == IF old # None THEN old.enc ELSE minted + 1
\* The address create() answers with: of the row read before the school was asked,
\* of the row store.create() found, or the new one.
Answer(s, old) == IF old # None THEN old.enc ELSE IF row[s] # None THEN row[s].enc ELSE minted + 1

\* The school accepts the password of a create: store.create() looks for a row
\* again, and a row it finds gets the snapshot but not the password.
CreateAccepted(t) ==
  LET s == call[t].sem   old == call[t].rec IN
  /\ At(t, "create") /\ call[t].pw = schoolPw
  /\ IF old # None
     THEN Update(s, old.id, Reauthorized(row[s], call[t].pw)) /\ UNCHANGED minted
     ELSE IF row[s] # None
     THEN row' = [row EXCEPT ![s] = Snapshot(row[s])] /\ UNCHANGED minted
     ELSE /\ minted < MaxMinted /\ minted' = minted + 1
          /\ row' = [row EXCEPT ![s] = Opened(minted + 1, call[t].pw)]
  /\ owed' = owed \cup Shown(t, Answer(s, old))
  /\ Done(t) /\ beaten' = beaten \ {t}
  /\ UNCHANGED <<terms, schoolPw, batch, halved, countVars>>

\* The school accepts a caller who had to prove himself.
ProofAccepted(t) ==
  LET s == call[t].sem   old == call[t].rec IN
  /\ At(t, "prove") /\ call[t].pw = schoolPw
  /\ \/ /\ call[t].op = "rotate" /\ minted < MaxMinted /\ minted' = minted + 1
        /\ Update(s, old.id, Rotated(row[s])) /\ Done(t)
        /\ owed' = Withdrawn(s, old.id) \cup Shown(t, minted + 1)
        /\ beaten' = (beaten \cup Overtaken(s, old.id, "rotate")) \ {t}
     \/ /\ call[t].op = "close" /\ Update(s, old.id, None) /\ Done(t) /\ UNCHANGED minted
        /\ owed' = Withdrawn(s, old.id)
        /\ beaten' = beaten \cup Overtaken(s, old.id, "close")
     \/ /\ call[t].op = "status" /\ UNCHANGED <<row, minted>> /\ Done(t)
        /\ owed' = owed \cup Shown(t, old.enc) /\ beaten' = beaten \ {t}
     \/ /\ call[t].op = "refresh" /\ UNCHANGED <<row, minted, owed, beaten>>
        /\ IF s \notin terms THEN Done(t)
           ELSE IF RowLockFree(old.id) THEN Enters(t) ELSE Moves(t, "rowwait")
  /\ UNCHANGED <<terms, schoolPw, batch, halved, countVars>>

\* The school rejects the password or does not answer: the error is returned.
RequestFails(t) ==
  /\ At(t, "create") \/ At(t, "prove") \/ (At(t, "fetch") /\ call[t].op = "refresh")
  /\ Done(t) /\ beaten' = beaten \ {t}
  /\ UNCHANGED <<row, minted, terms, schoolPw, batch, owed, halved, countVars>>

-----------------------------------------------------------------------------
(* refresh(), refresh_record() and the scheduler's round.                  *)

\* The scheduler goes on with the rows it has claimed; a semester that is no
\* longer configured raises out of refresh_record() and ends the round.
TakeUp(q) ==
  IF q = <<>> \/ q[1].sem \notin terms
  THEN Done(Scheduler) /\ batch' = <<>>
  ELSE /\ call' = [call EXCEPT ![Scheduler] =
            [at |-> IF \A t \in Requests : At(t, "fetch") => call[t].rec.id # q[1].rec.id
                    THEN "fetch" ELSE "rowwait",
             op |-> "record", sem |-> q[1].sem, pw |-> q[1].rec.cred, rec |-> q[1].rec]]
       /\ batch' = Tail(q)
Return(t) == IF t = Scheduler THEN TakeUp(batch) ELSE Done(t) /\ UNCHANGED batch

\* Mutant: the snapshot is saved by INSERT OR REPLACE of the row that was read.
SavedByReplace(s, old) == row' = [row EXCEPT ![s] = Snapshot(old)]
Saved(s, old) == Update(s, old.id, Snapshot(row[s]))

FetchAccepted(t) ==
  /\ At(t, "fetch") /\ call[t].pw = schoolPw
  /\ Saved(call[t].sem, call[t].rec) /\ Return(t)
  /\ UNCHANGED <<minted, terms, schoolPw, shownVars, countVars>>

\* CalendarAuthError in refresh_record(), any 401 of the login or of the timetable:
\* counted, and pausing at the limit.
FetchRejected(t) ==
  LET s == call[t].sem   n == More(call[t].rec.fails) IN
  /\ At(t, "fetch") /\ call[t].op = "record"
  /\ Update(s, call[t].rec.id,
            Failed(row[s], n, IF n >= MaxFailures THEN PauseTicks ELSE 0, RetryCap))
  /\ Return(t)
  /\ UNCHANGED <<minted, terms, schoolPw, shownVars, countVars>>

\* Any other CalendarError in refresh_record(): a growing backoff, no pause.
FetchUnavailable(t) ==
  LET s == call[t].sem   n == More(call[t].rec.fails) IN
  /\ At(t, "fetch") /\ call[t].op = "record"
  /\ Update(s, call[t].rec.id, Failed(row[s], n, 0, RetryAfter(n)))
  /\ Return(t)
  /\ UNCHANGED <<minted, terms, schoolPw, shownVars, countVars>>

\* Mutant: a subscription that failed too often is left to the student.
DueRowsHealthy == {s \in Semesters : row[s] # None /\ row[s].blob = "yes" /\ row[s].due = 0
                                     /\ row[s].pause = 0 /\ row[s].fails < MaxFailures}
DueRows == {s \in Semesters : row[s] # None /\ row[s].blob = "yes"
                              /\ row[s].due = 0 /\ row[s].pause = 0}
\* LIMIT Batch of the due rows.  Countdowns stop at 0: of rows that are all
\* overdue, any order of next_refresh_at is possible.
Rounds == LET n == IF Cardinality(DueRows) < Batch THEN Cardinality(DueRows) ELSE Batch
          IN {q \in [1..n -> DueRows] : \A i, j \in 1..n : q[i] = q[j] => i = j}
Postponed(r) == [r EXCEPT !.due = Reclaim]

ClaimDue ==
  /\ call[Scheduler] = None /\ DueRows # {}
  /\ \E q \in Rounds :
       /\ row' = [s \in Semesters |-> IF \E i \in DOMAIN q : q[i] = s
                                      THEN Postponed(row[s]) ELSE row[s]]
       /\ TakeUp([i \in DOMAIN q |-> [sem |-> q[i], rec |-> Seen(row[q[i]], "record")]])
  /\ UNCHANGED <<minted, terms, schoolPw, shownVars, countVars>>

-----------------------------------------------------------------------------
(* The surroundings: the clock, the student, the administrator, crashes.   *)

Down(n) == IF n > 0 THEN n - 1 ELSE 0
Aged(r) == IF r = None THEN None
           ELSE [r EXCEPT !.due = Down(r.due), !.pause = Down(r.pause), !.recent = Down(r.recent)]
\* A row read earlier only ages in what is still compared with the clock.
AgedCall(c) == IF c = None \/ c.op # "refresh" THEN c
               ELSE [c EXCEPT !.rec.recent = Down(c.rec.recent)]

Tick ==
  /\ row' = [s \in Semesters |-> Aged(row[s])] /\ row' # row
  /\ call' = [t \in Tasks |-> AgedCall(call[t])]
  /\ UNCHANGED <<minted, terms, schoolPw, batch, shownVars, countVars>>

ChangePassword ==
  /\ schoolPw < MaxPassword /\ schoolPw' = schoolPw + 1
  /\ UNCHANGED <<row, minted, terms, call, batch, shownVars, countVars>>

\* admin_update_terms() and admin_reset_config() take effect at once.
EditTerms ==
  /\ edits < MaxEdits /\ edits' = edits + 1
  /\ \E new \in SUBSET Semesters : new # terms /\ terms' = new
  /\ UNCHANGED <<row, minted, schoolPw, call, batch, shownVars, starts, crashes>>

\* expires_at passes: no operation writes it after create().
Expires(s) ==
  /\ s \in Expiring /\ row[s] # None /\ ~row[s].over
  /\ row' = [row EXCEPT ![s].over = TRUE]
  /\ UNCHANGED <<minted, terms, schoolPw, call, batch, shownVars, countVars>>

Restarted ==
  /\ crashes < MaxCrashes /\ crashes' = crashes + 1
  /\ call' = [t \in Tasks |-> None] /\ batch' = <<>> /\ beaten' = {}
  /\ UNCHANGED <<terms, schoolPw, owed, starts, edits>>

Crash == Restarted /\ UNCHANGED <<row, minted, halved>>

\* The process dies between the two commits of create(): the INSERT, or the new
\* password, is there and the snapshot is not.
CrashInCreate(t) ==
  LET s == call[t].sem   old == call[t].rec IN
  /\ At(t, "create") /\ call[t].pw = schoolPw
  /\ \/ /\ old = None /\ row[s] = None /\ minted < MaxMinted /\ minted' = minted + 1
        /\ row' = [row EXCEPT ![s] = NewRow(minted + 1, call[t].pw)]
        /\ halved' = halved \cup {minted + 1}
     \/ /\ old # None /\ Update(s, old.id, NewPassword(row[s], call[t].pw))
        /\ UNCHANGED <<minted, halved>>
  /\ Restarted

-----------------------------------------------------------------------------
Start(t) == \E s \in Semesters :
  \/ StartAdminRefresh(t, s)
  \/ \E p \in Passwords : \/ StartCreate(t, s, p) \/ StartRefresh(t, s, p)
                          \/ \E o \in {"status", "rotate", "close"} : StartProof(t, o, s, p)
Granted(t)  == OwnerLockGranted(t) \/ RowLockGranted(t)
Answered(t) == \/ CreateAccepted(t) \/ ProofAccepted(t) \/ RequestFails(t)
               \/ FetchAccepted(t) \/ FetchRejected(t) \/ FetchUnavailable(t)
Surroundings == Tick \/ ChangePassword \/ EditTerms \/ Crash

Next ==
  \/ \E t \in Requests : Start(t) \/ CrashInCreate(t)
  \/ \E t \in Tasks : Granted(t) \/ Answered(t)
  \/ \E s \in Semesters : Show(s) \/ Rotate(s) \/ Close(s) \/ SetPaused(s) \/ Expires(s)
  \/ ClaimDue \/ Surroundings

\* Calls to the school time out, so every wait ends; the clock advances and the
\* scheduler's loop wakes up for ever.
Fairness == /\ \A t \in Tasks : WF_vars(Granted(t)) /\ WF_vars(Answered(t))
            /\ WF_vars(Tick) /\ WF_vars(ClaimDue)
Spec == Init /\ [][Next]_vars /\ Fairness

-----------------------------------------------------------------------------
(* What must hold.                                                         *)

\* feed(): a row answers while it has not expired and has a snapshot.
Feeds(r) == r.blob = "yes" /\ ~r.over

\* Every address a reply showed, of status(), qr(), create() or rotate(), whatever else was in
\* flight, answers until it is rotated or closed: only the end of the 210 days, or a create()
\* that died between its commits, leaves its feed empty.  (A reply whose row was rotated or closed
\* while its handler waited shows a dead address: service.py:187-202, 260-307 and 410-417.)
AddressShownServes ==
  \A k \in owed : \E s \in Subscribed :
     row[s].hash = k /\ (Feeds(row[s]) \/ row[s].over \/ row[s].id \in halved)

\* An address that was rotated away or closed never answers again: a row answers
\* to the address it had or to one made in this very step (rotate, close, save_snapshot).
AddressNeverReturns ==
  [][\A s \in Semesters : row'[s] # None =>
       \/ row'[s].hash > minted
       \/ row[s] # None /\ row'[s].hash = row[s].hash]_vars

\* Only a crash between the two commits of its own create() leaves a subscription without a snapshot.
SnapshotUnlessCrashed == \A s \in Subscribed : row[s].blob = "no" => row[s].id \in halved

Fetching(s) == At(Scheduler, "fetch") /\ call[Scheduler].sem = s

\* As long as every semester stays configured, each subscription with a snapshot is
\* fetched by the scheduler again and again, through failures, pauses and crashes.
KeptFresh ==
  <>[](terms = Semesters) =>
    \A s \in Semesters : (row[s] # None /\ row[s].blob = "yes") ~> (row[s] = None \/ Fetching(s))
=============================================================================
