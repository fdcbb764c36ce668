--------------------------- MODULE CalendarProofs ---------------------------
(***************************************************************************)
(* Theorems about CalendarSubscription, for every set of semesters and of  *)
(* requests and every bound, and about CalendarRules, for every row, term  *)
(* and table of periods.                                                   *)
(***************************************************************************)
EXTENDS MCCalendar, FiniteSetTheorems, FunctionTheorems, SequenceTheorems,
        WellFoundedInduction, TLAPS

\* What a handler in flight relies on: all but create() have read a row.
CallHasRow == \A t \in Tasks : call[t] # None /\ call[t].op # "create" => call[t].rec # None
TypeInv == TypeOK /\ CallHasRow

\* What a step may do to a row: drop it, keep its address, or give it a fresh one.
KeepsAddress(r, new) == /\ r # None /\ new # None
                        /\ new.id = r.id /\ new.hash = r.hash /\ new.enc = r.enc
Keeps(r, new) == new \in Rows /\ KeepsAddress(r, new)
\* What may be written over a row r.
Replaces(r, new) == \/ new = None
                    \/ Keeps(r, new)
                    \/ new \in Rows /\ new.hash = minted + 1 /\ new.enc = minted + 1
RowStep(s) == \/ row'[s] = row[s] \/ row'[s] = None
              \/ KeepsAddress(row[s], row'[s])
              \/ row'[s] # None /\ row'[s].hash = minted + 1 /\ row'[s].enc = minted + 1
RowSteps == /\ row' \in [Semesters -> Rows \cup {None}]
            /\ \A s \in Semesters : RowStep(s)

-----------------------------------------------------------------------------
(* The row operations keep the type, and all but Rotated keep the address. *)

LEMMA Bounds ==
  /\ FailCap \in Nat /\ MaxFailures <= FailCap /\ RetryCap <= FailCap
  /\ 0 \in 0..FailCap /\ 0 \in 0..PauseTicks /\ PauseTicks \in 0..PauseTicks
  /\ 0 \in 0..Interval /\ Interval \in 0..Interval /\ RetryCap \in 0..Interval
  /\ Reclaim \in 0..Interval /\ 0 \in 0..Cooldown /\ Cooldown \in 0..Cooldown
  /\ Cardinality(Semesters) \in 0..MaxMinted /\ 1 \in Passwords
  <1>1. Cardinality(Semesters) \in Nat
    BY BoundsAssumption, FS_CardinalityType
  <1> QED
    BY <1>1, BoundsAssumption DEF FailCap, Passwords

LEMMA Counts ==
  /\ \A n \in 0..FailCap : More(n) \in 0..FailCap /\ RetryAfter(n) \in 0..Interval
  /\ \A n \in Nat : Down(n) \in 0..n
  BY Bounds, BoundsAssumption DEF More, RetryAfter, Down

LEMMA KeepOps ==
  ASSUME NEW r \in Rows
  PROVE  /\ Keeps(r, Snapshot(r)) /\ Keeps(r, Postponed(r)) /\ Keeps(r, Aged(r))
         /\ \A p \in Passwords : Keeps(r, Reauthorized(r, p))
         /\ \A p \in Passwords : Keeps(r, NewPassword(r, p))
         /\ \A n \in 0..FailCap, pause \in 0..PauseTicks, after \in 0..Interval :
              Keeps(r, Failed(r, n, pause, after))
         /\ \A pause \in 0..PauseTicks : Keeps(r, [r EXCEPT !.pause = pause])
         /\ Keeps(r, [r EXCEPT !.over = TRUE])
         /\ [r EXCEPT !.recent = Down(r.recent)] \in Rows
         /\ \A o : Seen(r, o) \in Rows
  <1>1. r # None
    BY NamesAssumption
  <1>2. Down(r.due) \in 0..Interval /\ Down(r.pause) \in 0..PauseTicks
        /\ Down(r.recent) \in 0..Cooldown
    BY BoundsAssumption DEF Rows, Down
  <1>3. ASSUME NEW new \in Rows, new.id = r.id, new.hash = r.hash, new.enc = r.enc
        PROVE  Keeps(r, new)
    <2>1. new # None
      BY NamesAssumption
    <2> QED
      BY <1>1, <1>3, <2>1 DEF Keeps, KeepsAddress
  <1>4. /\ Snapshot(r) \in Rows /\ Snapshot(r).id = r.id
        /\ Snapshot(r).hash = r.hash /\ Snapshot(r).enc = r.enc
    BY Bounds DEF Rows, Snapshot
  <1>5. /\ Postponed(r) \in Rows /\ Postponed(r).id = r.id
        /\ Postponed(r).hash = r.hash /\ Postponed(r).enc = r.enc
    BY Bounds DEF Rows, Postponed
  <1>6. Aged(r) \in Rows /\ Aged(r).id = r.id /\ Aged(r).hash = r.hash /\ Aged(r).enc = r.enc
    BY <1>1, <1>2 DEF Rows, Aged
  <1>7. ASSUME NEW p \in Passwords
        PROVE  Keeps(r, Reauthorized(r, p)) /\ Keeps(r, NewPassword(r, p))
    <2>1. /\ Reauthorized(r, p) \in Rows /\ Reauthorized(r, p).id = r.id
          /\ Reauthorized(r, p).hash = r.hash /\ Reauthorized(r, p).enc = r.enc
      BY Bounds DEF Rows, Snapshot, Reauthorized, NewPassword
    <2>2. /\ NewPassword(r, p) \in Rows /\ NewPassword(r, p).id = r.id
          /\ NewPassword(r, p).hash = r.hash /\ NewPassword(r, p).enc = r.enc
      BY DEF Rows, NewPassword
    <2> QED
      BY <2>1, <2>2, <1>3
  <1>8. ASSUME NEW n \in 0..FailCap, NEW pause \in 0..PauseTicks, NEW after \in 0..Interval
        PROVE  Keeps(r, Failed(r, n, pause, after))
    <2>1. /\ Failed(r, n, pause, after) \in Rows /\ Failed(r, n, pause, after).id = r.id
          /\ Failed(r, n, pause, after).hash = r.hash /\ Failed(r, n, pause, after).enc = r.enc
      BY Bounds DEF Rows, Failed
    <2> QED
      BY <2>1, <1>3
  <1>9. ASSUME NEW pause \in 0..PauseTicks PROVE Keeps(r, [r EXCEPT !.pause = pause])
    <2>1. [r EXCEPT !.pause = pause] \in Rows
      BY DEF Rows
    <2>2. /\ [r EXCEPT !.pause = pause].id = r.id /\ [r EXCEPT !.pause = pause].hash = r.hash
          /\ [r EXCEPT !.pause = pause].enc = r.enc
      BY DEF Rows
    <2> QED
      BY <2>1, <2>2, <1>3
  <1>10. [r EXCEPT !.recent = Down(r.recent)] \in Rows
    BY <1>2 DEF Rows
  <1>11. \A o : Seen(r, o) \in Rows
    BY <1>1, Bounds DEF Rows, Seen
  <1>12. Keeps(r, [r EXCEPT !.over = TRUE])
    <2>1. [r EXCEPT !.over = TRUE] \in Rows
      BY DEF Rows
    <2>2. /\ [r EXCEPT !.over = TRUE].id = r.id /\ [r EXCEPT !.over = TRUE].hash = r.hash
          /\ [r EXCEPT !.over = TRUE].enc = r.enc
      BY DEF Rows
    <2> QED
      BY <2>1, <2>2, <1>3
  <1> QED
    BY <1>3, <1>4, <1>5, <1>6, <1>7, <1>8, <1>9, <1>10, <1>11, <1>12

LEMMA RowOps ==
  ASSUME NEW r \in Rows
  PROVE  /\ Replaces(r, Snapshot(r)) /\ Replaces(r, Postponed(r)) /\ Replaces(r, Aged(r))
         /\ \A p \in Passwords : Replaces(r, Reauthorized(r, p))
         /\ \A p \in Passwords : Replaces(r, NewPassword(r, p))
         /\ \A n \in 0..FailCap, pause \in 0..PauseTicks, after \in 0..Interval :
              Replaces(r, Failed(r, n, pause, after))
         /\ \A pause \in 0..PauseTicks : Replaces(r, [r EXCEPT !.pause = pause])
         /\ Replaces(r, [r EXCEPT !.over = TRUE])
         /\ [r EXCEPT !.recent = Down(r.recent)] \in Rows
         /\ \A o : Seen(r, o) \in Rows
  BY KeepOps DEF Replaces

LEMMA FreshRows ==
  ASSUME minted \in 0..MaxMinted, minted < MaxMinted
  PROVE  /\ minted + 1 \in 0..MaxMinted /\ minted + 1 \in Ids
         /\ \A p \in Passwords :
              /\ Opened(minted + 1, p) \in Rows /\ NewRow(minted + 1, p) \in Rows
              /\ Opened(minted + 1, p).hash = minted + 1 /\ NewRow(minted + 1, p).hash = minted + 1
              /\ Opened(minted + 1, p).enc = minted + 1 /\ NewRow(minted + 1, p).enc = minted + 1
         /\ \A r \in Rows : /\ Rotated(r) \in Rows
                            /\ Rotated(r).hash = minted + 1 /\ Rotated(r).enc = minted + 1
  <1>1. minted + 1 \in 0..MaxMinted /\ minted + 1 \in Ids
    BY BoundsAssumption DEF Ids
  <1>2. ASSUME NEW p \in Passwords
        PROVE  /\ NewRow(minted + 1, p) \in Rows
               /\ NewRow(minted + 1, p).hash = minted + 1 /\ NewRow(minted + 1, p).enc = minted + 1
    BY <1>1, Bounds DEF NewRow, Rows
  <1>3. ASSUME NEW p \in Passwords
        PROVE  /\ Opened(minted + 1, p) \in Rows
               /\ Opened(minted + 1, p).hash = minted + 1 /\ Opened(minted + 1, p).enc = minted + 1
    <2>1. Keeps(NewRow(minted + 1, p), Opened(minted + 1, p))
      BY <1>2, KeepOps DEF Opened
    <2> QED
      BY <1>2, <2>1 DEF Keeps, KeepsAddress
  <1>4. ASSUME NEW r \in Rows
        PROVE  /\ Rotated(r) \in Rows
               /\ Rotated(r).hash = minted + 1 /\ Rotated(r).enc = minted + 1
    BY <1>1 DEF Rotated, Rows
  <1> QED
    BY <1>1, <1>2, <1>3, <1>4

\* Writing one row, or an UPDATE whose id may no longer match, is a row step.
LEMMA WriteRow ==
  ASSUME TypeOK, NEW s \in Semesters, NEW new, Replaces(row[s], new),
         row' = [row EXCEPT ![s] = new] \/ row' = row
  PROVE  RowSteps
  <1>1. new \in Rows \cup {None} /\ (new # None => new \in Rows)
    BY DEF Replaces, Keeps
  <1>2. row' \in [Semesters -> Rows \cup {None}]
    BY <1>1 DEF TypeOK, TableOK
  <1>3. ASSUME NEW u \in Semesters PROVE RowStep(u)
    BY <1>1, NamesAssumption DEF RowStep, Replaces, Keeps, TypeOK, TableOK
  <1> QED
    BY <1>2, <1>3 DEF RowSteps

LEMMA UpdateRow ==
  ASSUME TypeOK, NEW s \in Semesters, NEW id, NEW new, Update(s, id, new),
         row[s] # None => Replaces(row[s], new)
  PROVE  RowSteps
  <1>1. CASE row[s] # None
    BY <1>1, WriteRow DEF Update, Found
  <1>2. CASE row[s] = None
    BY <1>2 DEF Update, Found, RowSteps, RowStep, TypeOK, TableOK
  <1> QED
    BY <1>1, <1>2

LEMMA SameRows ==
  ASSUME TypeOK, row' = row
  PROVE  RowSteps
  BY DEF RowSteps, RowStep, TypeOK, TableOK

-----------------------------------------------------------------------------
(* The handlers in flight.                                                 *)

CallsOK == call \in [Tasks -> Calls \cup {None}] /\ CallHasRow
BatchOK == batch \in Seq([sem : Semesters, rec : Rows])

LEMMA CallEnds ==
  ASSUME CallsOK, NEW t \in Tasks, Done(t)
  PROVE  CallsOK'
  BY DEF CallsOK, CallHasRow, Done

LEMMA CallMoves ==
  ASSUME CallsOK, NEW t \in Tasks, call[t] # None,
         NEW point \in {"prove", "ownerwait", "create", "rowwait", "fetch"}, Moves(t, point)
  PROVE  CallsOK'
  <1>1. /\ call[t] \in Calls /\ [call[t] EXCEPT !.at = point] \in Calls
        /\ [call[t] EXCEPT !.at = point].op = call[t].op
        /\ [call[t] EXCEPT !.at = point].rec = call[t].rec
    BY DEF CallsOK, Calls
  <1>2. call' = [call EXCEPT ![t] = [call[t] EXCEPT !.at = point]]
    BY DEF Moves
  <1> QED
    BY <1>1, <1>2 DEF CallsOK, CallHasRow

LEMMA CallEnters ==
  ASSUME CallsOK, NEW t \in Tasks, call[t] # None, Enters(t)
  PROVE  CallsOK'
  BY CallEnds, CallMoves DEF Enters

LEMMA CallReads ==
  ASSUME TypeOK, CallsOK, NEW t \in Tasks, NEW s \in Semesters, NEW p \in Passwords,
         NEW o \in {"create", "refresh", "status", "rotate", "close", "record"},
         NEW point \in {"prove", "ownerwait", "create", "rowwait", "fetch"},
         o # "create" => row[s] # None, Reads(t, o, s, p, point)
  PROVE  CallsOK'
  <1>1. Seen(row[s], o) \in Rows \cup {None} /\ (row[s] # None => Seen(row[s], o) # None)
    <2>1. CASE row[s] = None
      BY <2>1 DEF Seen
    <2>2. CASE row[s] # None
      BY <2>2, RowOps, Bounds, NamesAssumption DEF TypeOK, TableOK
    <2> QED
      BY <2>1, <2>2
  <1> DEFINE c == [at |-> point, op |-> o, sem |-> s, pw |-> p, rec |-> Seen(row[s], o)]
  <1>2. c \in Calls /\ c.op = o /\ c.rec = Seen(row[s], o)
    BY <1>1 DEF Calls
  <1>3. call' = [call EXCEPT ![t] = c]
    BY DEF Reads
  <1> HIDE DEF c
  <1> QED
    BY <1>1, <1>2, <1>3 DEF CallsOK, CallHasRow

LEMMA SchedulerIsTask == Scheduler \in Tasks
  BY DEF Tasks

\* The scheduler takes up a round: its call and the rest of the round stay well typed.
LEMMA RoundTakenUp ==
  ASSUME CallsOK, NEW q \in Seq([sem : Semesters, rec : Rows]), TakeUp(q)
  PROVE  CallsOK' /\ BatchOK'
  <1>1. CASE q = <<>> \/ q[1].sem \notin terms
    <2>1. Done(Scheduler) /\ batch' = <<>>
      BY <1>1 DEF TakeUp
    <2> QED
      BY <2>1, CallEnds, SchedulerIsTask DEF BatchOK
  <1>2. CASE ~(q = <<>> \/ q[1].sem \notin terms)
    <2>1. q[1] \in [sem : Semesters, rec : Rows] /\ Tail(q) \in Seq([sem : Semesters, rec : Rows])
      <3> DEFINE Claimed == [sem : Semesters, rec : Rows]
      <3>1. q \in Seq(Claimed) /\ q # <<>>
        BY <1>2
      <3> HIDE DEF Claimed
      <3>2. q[1] \in Claimed /\ Tail(q) \in Seq(Claimed)
        BY <3>1, HeadTailProperties
      <3> QED
        BY <3>2 DEF Claimed
    <2>2. q[1].sem \in Semesters /\ q[1].rec \in Rows /\ q[1].rec # None
          /\ q[1].rec.cred \in Passwords
      BY <2>1, NamesAssumption DEF Rows
    <2>3. PICK point \in {"fetch", "rowwait"} :
            /\ call' = [call EXCEPT ![Scheduler] =
                          [at |-> point, op |-> "record", sem |-> q[1].sem,
                           pw |-> q[1].rec.cred, rec |-> q[1].rec]]
            /\ batch' = Tail(q)
      BY <1>2 DEF TakeUp
    <2> DEFINE c == [at |-> point, op |-> "record", sem |-> q[1].sem,
                     pw |-> q[1].rec.cred, rec |-> q[1].rec]
    <2>4. c \in Calls /\ c.rec # None
      BY <2>2 DEF Calls
    <2>5. call' = [call EXCEPT ![Scheduler] = c]
      BY <2>3
    <2> HIDE DEF c
    <2> QED
      BY <2>1, <2>3, <2>4, <2>5, SchedulerIsTask DEF CallsOK, CallHasRow, BatchOK
  <1> QED
    BY <1>1, <1>2

LEMMA CallReturns ==
  ASSUME CallsOK, BatchOK, NEW t \in Tasks, Return(t)
  PROVE  CallsOK' /\ BatchOK'
  BY CallEnds, RoundTakenUp DEF Return, BatchOK

LEMMA Parts == TypeInv <=> TypeOK /\ CallsOK /\ BatchOK
  BY DEF TypeInv, TypeOK, TasksOK, CallsOK, BatchOK

ShownOK == owed \subseteq Ids /\ beaten \subseteq Tasks /\ halved \subseteq Ids
LEMMA ShownSame ==
  ASSUME TypeOK, UNCHANGED shownVars
  PROVE  ShownOK'
  BY DEF ShownOK, shownVars, TypeOK

\* The parts a step has to establish for the type invariant.
LEMMA Assemble ==
  ASSUME TypeInv, RowSteps, CallsOK', BatchOK', ShownOK', minted' \in 0..MaxMinted,
         terms' \subseteq Semesters, schoolPw' \in Passwords,
         starts' \in 0..MaxStarts, edits' \in 0..MaxEdits, crashes' \in 0..MaxCrashes
  PROVE  TypeInv' /\ RowSteps
  BY DEF TypeInv, TypeOK, TableOK, TasksOK, CallsOK, BatchOK, ShownOK, RowSteps

-----------------------------------------------------------------------------
(* Every action keeps the invariant and is a row step.                     *)

\* Starts that change no row: one more call, which has read its row.
LEMMA StartStep ==
  ASSUME TypeInv, NEW t \in Requests,
         \E s \in Semesters :
           \/ StartAdminRefresh(t, s)
           \/ \E p \in Passwords : \/ StartCreate(t, s, p) \/ StartRefresh(t, s, p)
                                   \/ \E o \in {"status", "rotate", "close"} : StartProof(t, o, s, p)
  PROVE  TypeInv' /\ RowSteps
  <1>1. TypeOK /\ CallsOK /\ BatchOK /\ t \in Tasks
    BY Parts DEF Tasks
  <1>2. PICK s \in Semesters :
          \/ StartAdminRefresh(t, s)
          \/ \E p \in Passwords : \/ StartCreate(t, s, p) \/ StartRefresh(t, s, p)
                                  \/ \E o \in {"status", "rotate", "close"} : StartProof(t, o, s, p)
    OBVIOUS
  <1>3. row[s] # None => row[s].cred \in Passwords
    BY <1>1 DEF TypeOK, TableOK, Rows
  <1>4. /\ UNCHANGED <<row, minted, terms, schoolPw, batch, shownVars, edits, crashes>>
        /\ starts < MaxStarts /\ starts' = starts + 1
    BY <1>2 DEF StartAdminRefresh, StartCreate, StartRefresh, StartProof, Begin
  <1>5. CallsOK'
    <2>1. CASE StartAdminRefresh(t, s)
      <3>1. row[s] # None /\ \E point \in {"fetch", "rowwait"} : Reads(t, "record", s, row[s].cred, point)
        BY <2>1 DEF StartAdminRefresh
      <3> QED
        BY <3>1, <1>1, <1>3, CallReads
    <2>2. ASSUME NEW p \in Passwords, StartCreate(t, s, p) PROVE CallsOK'
      <3>1. \E point \in {"create", "ownerwait"} : Reads(t, "create", s, p, point)
        BY <2>2 DEF StartCreate
      <3> QED
        BY <3>1, <1>1, CallReads
    <2>3. ASSUME NEW p \in Passwords, StartRefresh(t, s, p) PROVE CallsOK'
      <3>1. row[s] # None /\ \E point \in {"prove", "fetch", "rowwait"} : Reads(t, "refresh", s, p, point)
        BY <2>3 DEF StartRefresh
      <3> QED
        BY <3>1, <1>1, CallReads
    <2>4. ASSUME NEW p \in Passwords, NEW o \in {"status", "rotate", "close"}, StartProof(t, o, s, p)
          PROVE  CallsOK'
      <3>1. row[s] # None /\ Reads(t, o, s, p, "prove")
        BY <2>4 DEF StartProof
      <3> QED
        BY <3>1, <1>1, CallReads
    <2> QED
      BY <1>2, <2>1, <2>2, <2>3, <2>4
  <1> QED
    BY <1>1, <1>4, <1>5, SameRows, ShownSame, Assemble, BoundsAssumption DEF BatchOK, TypeOK, TableOK

LEMMA TakenBack == \A s, id, o : Withdrawn(s, id) \subseteq owed /\ Overtaken(s, id, o) \subseteq Tasks
  BY DEF Withdrawn, Overtaken

\* Rotating, closing and pausing without waiting: one row is written.
LEMMA AtOnceStep ==
  ASSUME TypeInv, NEW s \in Semesters, Rotate(s) \/ Close(s) \/ SetPaused(s)
  PROVE  TypeInv' /\ RowSteps
  <1>1. TypeOK /\ CallsOK /\ BatchOK
    BY Parts
  <1>2. row[s] # None /\ row[s] \in Rows
    BY <1>1 DEF Rotate, Close, SetPaused, TypeOK, TableOK
  <1>3. /\ UNCHANGED <<terms, schoolPw, call, batch, edits, crashes>>
        /\ starts < MaxStarts /\ starts' = starts + 1
    BY DEF Rotate, Close, SetPaused
  <1>4. RowSteps /\ minted' \in 0..MaxMinted
    <2>1. CASE Rotate(s)
      <3>1. minted \in 0..MaxMinted /\ minted < MaxMinted /\ minted' = minted + 1
            /\ row' = [row EXCEPT ![s] = Rotated(row[s])]
        BY <2>1, <1>1 DEF Rotate, TypeOK, TableOK
      <3>2. Replaces(row[s], Rotated(row[s])) /\ minted + 1 \in 0..MaxMinted
        BY <3>1, <1>2, FreshRows DEF Replaces
      <3> QED
        BY <3>1, <3>2, <1>1, WriteRow
    <2>2. CASE Close(s)
      <3>1. Replaces(row[s], None)
        BY DEF Replaces
      <3> QED
        BY <2>2, <3>1, <1>1, WriteRow DEF Close, TypeOK, TableOK
    <2>3. CASE SetPaused(s)
      <3>1. PICK p \in {0, PauseTicks} : row' = [row EXCEPT ![s].pause = p]
        BY <2>3 DEF SetPaused
      <3>2. p \in 0..PauseTicks
        BY Bounds
      <3>3. row' = [row EXCEPT ![s] = [row[s] EXCEPT !.pause = p]]
        BY <3>1
      <3>4. Replaces(row[s], [row[s] EXCEPT !.pause = p])
        BY <1>2, <3>2, RowOps
      <3>5. RowSteps
        BY <1>1, <3>3, <3>4, WriteRow
      <3> QED
        BY <2>3, <3>5, <1>1 DEF SetPaused, TypeOK, TableOK
    <2> QED
      BY <2>1, <2>2, <2>3
  <1>5. ShownOK'
    <2>1. CASE Rotate(s)
      <3>1. minted + 1 \in Ids
        BY <2>1, <1>1, FreshRows DEF Rotate, TypeOK, TableOK
      <3>2. owed' \subseteq owed \cup {minted + 1} /\ beaten' \subseteq Tasks /\ halved' = halved
        BY <2>1, <1>1, TakenBack DEF Rotate, TypeOK
      <3> QED
        BY <3>1, <3>2, <1>1 DEF ShownOK, TypeOK
    <2>2. CASE Close(s)
      BY <2>2, <1>1, TakenBack DEF Close, ShownOK, TypeOK
    <2>3. CASE SetPaused(s)
      BY <2>3, <1>1, ShownSame DEF SetPaused
    <2> QED
      BY <2>1, <2>2, <2>3
  <1> QED
    BY <1>1, <1>3, <1>4, <1>5, Assemble, BoundsAssumption DEF BatchOK, CallsOK, CallHasRow, TypeOK

\* An address is shown again, or the 210 days of a row are over.
LEMMA ShowStep ==
  ASSUME TypeInv, NEW s \in Semesters, Show(s) \/ Expires(s)
  PROVE  TypeInv' /\ RowSteps
  <1>1. TypeOK /\ CallsOK /\ BatchOK
    BY Parts
  <1>2. row[s] # None /\ row[s] \in Rows
    BY <1>1 DEF Show, Expires, TypeOK, TableOK
  <1>3. UNCHANGED <<minted, terms, schoolPw, call, batch, countVars>>
    BY DEF Show, Expires
  <1>4. RowSteps
    <2>1. CASE Show(s)
      BY <2>1, <1>1, SameRows DEF Show
    <2>2. CASE Expires(s)
      <3>1. row' = [row EXCEPT ![s] = [row[s] EXCEPT !.over = TRUE]]
        BY <2>2 DEF Expires
      <3> QED
        BY <3>1, <1>1, <1>2, RowOps, WriteRow
    <2> QED
      BY <2>1, <2>2
  <1>5. ShownOK'
    <2>1. CASE Show(s)
      <3>1. row[s].enc \in Ids
        BY <1>2 DEF Rows
      <3> QED
        BY <2>1, <3>1, <1>1 DEF Show, ShownOK, TypeOK
    <2>2. CASE Expires(s)
      BY <2>2, <1>1, ShownSame DEF Expires
    <2> QED
      BY <2>1, <2>2
  <1> QED
    BY <1>1, <1>3, <1>4, <1>5, Assemble DEF BatchOK, CallsOK, CallHasRow, TypeOK, TableOK, countVars

\* A lock is granted: only the call moves on.
LEMMA GrantedStep ==
  ASSUME TypeInv, NEW t \in Tasks, Granted(t)
  PROVE  TypeInv' /\ RowSteps
  <1>1. TypeOK /\ CallsOK /\ BatchOK
    BY Parts
  <1>2. UNCHANGED <<row, minted, terms, schoolPw, batch, shownVars, countVars>>
        /\ call[t] # None /\ (Enters(t) \/ Moves(t, "create"))
    BY DEF Granted, OwnerLockGranted, RowLockGranted, At
  <1>3. CallsOK'
    BY <1>1, <1>2, CallEnters, CallMoves
  <1> QED
    BY <1>1, <1>2, <1>3, SameRows, ShownSame, Assemble DEF BatchOK, TypeOK, TableOK, countVars

\* What every answer of the school leaves alone.
LEMMA AnswerFrame ==
  ASSUME TypeInv, RowSteps, CallsOK', BatchOK', ShownOK', minted' \in 0..MaxMinted,
         UNCHANGED <<terms, schoolPw, countVars>>
  PROVE  TypeInv' /\ RowSteps
  BY Assemble DEF TypeInv, TypeOK, countVars

\* What a call in flight has read, and the row it will write.
LEMMA CallFacts ==
  ASSUME TypeInv, NEW t \in Tasks, call[t] # None
  PROVE  /\ call[t].sem \in Semesters /\ call[t].pw \in Passwords
         /\ minted \in 0..MaxMinted
         /\ row[call[t].sem] # None => row[call[t].sem] \in Rows
         /\ call[t].op # "create" => call[t].rec \in Rows
         /\ call[t].rec # None => call[t].rec \in Rows
  BY DEF TypeInv, TypeOK, TableOK, TasksOK, CallHasRow, Calls

LEMMA CreateAcceptedStep ==
  ASSUME TypeInv, NEW t \in Tasks, CreateAccepted(t)
  PROVE  TypeInv' /\ RowSteps
  <1> DEFINE s == call[t].sem
             old == call[t].rec
             p == call[t].pw
  <1>1. TypeOK /\ CallsOK /\ BatchOK
    BY Parts
  <1>2. s \in Semesters /\ p \in Passwords /\ minted \in 0..MaxMinted
        /\ (row[s] # None => row[s] \in Rows)
    BY <1>1 DEF CreateAccepted, At, CallsOK, Calls, TypeOK, TableOK
  <1>3. Done(t) /\ UNCHANGED <<terms, schoolPw, batch, countVars>>
    BY DEF CreateAccepted
  <1>4. ShownOK'
    <2>1. old # None => old \in Rows
      BY CallFacts DEF CreateAccepted, At
    <2>2. Answer(s, old) \in Ids
      <3>1. CASE old # None \/ row[s] # None
        BY <1>2, <2>1, <3>1 DEF Answer, Rows
      <3>2. CASE old = None /\ row[s] = None
        BY <1>2, <3>2, FreshRows DEF Answer, CreateAccepted
      <3> QED
        BY <3>1, <3>2
    <2>3. /\ owed' = owed \cup Shown(t, Answer(s, old))
          /\ beaten' = beaten \ {t} /\ halved' = halved
      BY DEF CreateAccepted
    <2> HIDE DEF s, old
    <2> QED
      BY <2>2, <2>3, <1>1 DEF ShownOK, Shown, TypeOK
  <1>5. \/ Update(s, old.id, Reauthorized(row[s], p)) /\ UNCHANGED minted
        \/ row[s] # None /\ row' = [row EXCEPT ![s] = Snapshot(row[s])] /\ UNCHANGED minted
        \/ /\ minted < MaxMinted /\ minted' = minted + 1
           /\ row' = [row EXCEPT ![s] = Opened(minted + 1, p)]
    BY DEF CreateAccepted
  <1> HIDE DEF s, old, p
  <1>6. row[s] # None => /\ Replaces(row[s], Reauthorized(row[s], p))
                         /\ Replaces(row[s], Snapshot(row[s]))
    BY <1>2, RowOps
  <1>7. RowSteps /\ minted' \in 0..MaxMinted
    <2>1. CASE Update(s, old.id, Reauthorized(row[s], p)) /\ UNCHANGED minted
      BY <2>1, <1>1, <1>2, <1>6, UpdateRow
    <2>2. CASE row[s] # None /\ row' = [row EXCEPT ![s] = Snapshot(row[s])] /\ UNCHANGED minted
      BY <2>2, <1>1, <1>2, <1>6, WriteRow
    <2>3. CASE /\ minted < MaxMinted /\ minted' = minted + 1
               /\ row' = [row EXCEPT ![s] = Opened(minted + 1, p)]
      <3>1. Replaces(row[s], Opened(minted + 1, p)) /\ minted + 1 \in 0..MaxMinted
        BY <2>3, <1>2, FreshRows DEF Replaces
      <3> QED
        BY <2>3, <3>1, <1>1, <1>2, WriteRow
    <2> QED
      BY <1>5, <2>1, <2>2, <2>3
  <1>8. CallsOK' /\ BatchOK'
    BY <1>1, <1>3, CallEnds DEF BatchOK
  <1> QED
    BY <1>3, <1>7, <1>8, <1>4, AnswerFrame

LEMMA ProofAcceptedStep ==
  ASSUME TypeInv, NEW t \in Tasks, ProofAccepted(t)
  PROVE  TypeInv' /\ RowSteps
  <1> DEFINE s == call[t].sem
             old == call[t].rec
  <1>1. TypeOK /\ CallsOK /\ BatchOK
    BY Parts
  <1>2. call[t] # None /\ UNCHANGED <<terms, schoolPw, batch, countVars>>
    BY DEF ProofAccepted, At
  <1>3. s \in Semesters /\ minted \in 0..MaxMinted /\ (row[s] # None => row[s] \in Rows)
    BY <1>2, CallFacts
  <1>4. \/ /\ minted < MaxMinted /\ minted' = minted + 1
           /\ Update(s, old.id, Rotated(row[s])) /\ Done(t)
        \/ Update(s, old.id, None) /\ Done(t) /\ UNCHANGED minted
        \/ /\ UNCHANGED <<row, minted>>
           /\ Done(t) \/ Enters(t) \/ Moves(t, "rowwait")
    BY DEF ProofAccepted
  <1>5. ShownOK'
    <2>1. old # None => old.enc \in Ids
      BY <1>2, CallFacts DEF Rows
    <2>2. call[t].op = "status" => old # None
      BY <1>1, <1>2 DEF CallsOK, CallHasRow
    <2>3. /\ owed' \subseteq owed \cup (IF minted < MaxMinted THEN {minted + 1} ELSE {})
                                   \cup (IF call[t].op = "status" THEN {old.enc} ELSE {})
          /\ beaten' \subseteq Tasks /\ halved' = halved
      BY <1>1, TakenBack DEF ProofAccepted, Shown, TypeOK
    <2>4. minted < MaxMinted => minted + 1 \in Ids
      BY <1>3, FreshRows
    <2> HIDE DEF s, old
    <2> QED
      BY <2>1, <2>2, <2>3, <2>4, <1>1 DEF ShownOK, TypeOK
  <1> HIDE DEF s, old
  <1>6. RowSteps /\ minted' \in 0..MaxMinted
    <2>1. CASE /\ minted < MaxMinted /\ minted' = minted + 1
               /\ Update(s, old.id, Rotated(row[s]))
      <3>1. minted + 1 \in 0..MaxMinted /\ (row[s] # None => Replaces(row[s], Rotated(row[s])))
        BY <2>1, <1>3, FreshRows DEF Replaces
      <3> QED
        BY <2>1, <3>1, <1>1, <1>3, UpdateRow
    <2>2. CASE Update(s, old.id, None) /\ UNCHANGED minted
      <3>1. Replaces(row[s], None)
        BY DEF Replaces
      <3> QED
        BY <2>2, <3>1, <1>1, <1>3, UpdateRow
    <2>3. CASE UNCHANGED <<row, minted>>
      BY <2>3, <1>1, <1>3, SameRows
    <2> QED
      BY <1>4, <2>1, <2>2, <2>3
  <1>7. CallsOK' /\ BatchOK'
    BY <1>1, <1>2, <1>4, CallEnds, CallEnters, CallMoves DEF BatchOK
  <1> QED
    BY <1>2, <1>6, <1>7, <1>5, AnswerFrame

LEMMA RequestFailsStep ==
  ASSUME TypeInv, NEW t \in Tasks, RequestFails(t)
  PROVE  TypeInv' /\ RowSteps
  <1>1. TypeOK /\ CallsOK /\ BatchOK
    BY Parts
  <1>2. Done(t) /\ UNCHANGED <<row, minted, terms, schoolPw, batch, owed, halved, countVars>>
    BY DEF RequestFails
  <1>3. ShownOK'
    BY <1>1 DEF RequestFails, ShownOK, TypeOK
  <1>4. CallsOK' /\ BatchOK'
    BY <1>1, <1>2, CallEnds DEF BatchOK
  <1> QED
    BY <1>1, <1>2, <1>4, <1>3, SameRows, AnswerFrame DEF TypeOK, TableOK

\* The three ends of a refresh: one UPDATE of its row, then the task goes on.
LEMMA FetchStep ==
  ASSUME TypeInv, NEW t \in Tasks, FetchAccepted(t) \/ FetchRejected(t) \/ FetchUnavailable(t)
  PROVE  TypeInv' /\ RowSteps
  <1> DEFINE s == call[t].sem
             id == call[t].rec.id
             n == More(call[t].rec.fails)
             pause == IF n >= MaxFailures THEN PauseTicks ELSE 0
  <1>1. TypeOK /\ CallsOK /\ BatchOK
    BY Parts
  <1>2. /\ call[t] # None /\ Return(t)
        /\ UNCHANGED <<minted, terms, schoolPw, shownVars, countVars>>
    BY DEF FetchAccepted, FetchRejected, FetchUnavailable, At
  <1>3. s \in Semesters /\ minted \in 0..MaxMinted /\ (row[s] # None => row[s] \in Rows)
    BY <1>2, CallFacts
  <1>4. \/ Update(s, id, Snapshot(row[s]))
        \/ call[t].op # "create" /\ Update(s, id, Failed(row[s], n, pause, RetryCap))
        \/ call[t].op # "create" /\ Update(s, id, Failed(row[s], n, 0, RetryAfter(n)))
    BY DEF FetchAccepted, FetchRejected, FetchUnavailable, Saved
  <1>5. call[t].op # "create" => /\ n \in 0..FailCap /\ RetryAfter(n) \in 0..Interval
                                 /\ pause \in 0..PauseTicks
    <2>1. call[t].op # "create" => call[t].rec.fails \in 0..FailCap
      BY <1>2, CallFacts DEF Rows
    <2>2. call[t].op # "create" => n \in 0..FailCap /\ RetryAfter(n) \in 0..Interval
      BY <2>1, Counts
    <2>3. pause \in 0..PauseTicks
      BY Bounds
    <2> QED
      BY <2>2, <2>3
  <1> HIDE DEF s, id, n, pause
  <1>6. RowSteps
    <2>1. CASE Update(s, id, Snapshot(row[s]))
      <3>1. row[s] # None => Replaces(row[s], Snapshot(row[s]))
        BY <1>3, RowOps
      <3> QED
        BY <2>1, <3>1, <1>1, <1>3, UpdateRow
    <2>2. CASE call[t].op # "create" /\ Update(s, id, Failed(row[s], n, pause, RetryCap))
      <3>1. row[s] # None => Replaces(row[s], Failed(row[s], n, pause, RetryCap))
        BY <2>2, <1>3, <1>5, RowOps, Bounds
      <3> QED
        BY <2>2, <3>1, <1>1, <1>3, UpdateRow
    <2>3. CASE call[t].op # "create" /\ Update(s, id, Failed(row[s], n, 0, RetryAfter(n)))
      <3>1. row[s] # None => Replaces(row[s], Failed(row[s], n, 0, RetryAfter(n)))
        BY <2>3, <1>3, <1>5, RowOps, Bounds
      <3> QED
        BY <2>3, <3>1, <1>1, <1>3, UpdateRow
    <2> QED
      BY <1>4, <2>1, <2>2, <2>3
  <1>7. CallsOK' /\ BatchOK'
    BY <1>1, <1>2, CallReturns
  <1> QED
    BY <1>1, <1>2, <1>3, <1>6, <1>7, ShownSame, AnswerFrame

\* A round is claimed: the rows in it are postponed and the first is taken up.
LEMMA ClaimDueStep ==
  ASSUME TypeInv, ClaimDue
  PROVE  TypeInv' /\ RowSteps
  <1>1. TypeOK /\ CallsOK /\ BatchOK
    BY Parts
  <1>2. PICK q \in Rounds :
          /\ row' = [s \in Semesters |-> IF \E i \in DOMAIN q : q[i] = s
                                         THEN Postponed(row[s]) ELSE row[s]]
          /\ TakeUp([i \in DOMAIN q |-> [sem |-> q[i], rec |-> Seen(row[q[i]], "record")]])
    BY DEF ClaimDue
  <1>3. PICK n \in Nat : q \in [1..n -> DueRows]
    <2>1. Cardinality(DueRows) \in Nat
      <3>1. IsFiniteSet(DueRows)
        BY BoundsAssumption, FS_Subset DEF DueRows
      <3> QED
        BY <3>1, FS_CardinalityType
    <2> QED
      BY <2>1, BoundsAssumption DEF Rounds
  <1>4. \A s \in DueRows : s \in Semesters /\ row[s] # None /\ row[s] \in Rows
    BY <1>1 DEF DueRows, TypeOK, TableOK
  <1>5. RowSteps
    <2>1. ASSUME NEW s \in Semesters
          PROVE  RowStep(s) /\ row'[s] \in Rows \cup {None}
      <3>1. CASE \E i \in DOMAIN q : q[i] = s
        <4>1. s \in DueRows
          BY <3>1, <1>3
        <4>2. Replaces(row[s], Postponed(row[s])) /\ row'[s] = Postponed(row[s])
          BY <4>1, <3>1, <1>2, <1>4, RowOps
        <4> QED
          BY <4>2, NamesAssumption DEF Replaces, Keeps, RowStep
      <3>2. CASE ~ \E i \in DOMAIN q : q[i] = s
        BY <3>2, <1>1, <1>2 DEF RowStep, TypeOK, TableOK
      <3> QED
        BY <3>1, <3>2
    <2> QED
      BY <2>1, <1>2 DEF RowSteps
  <1>6. CallsOK' /\ BatchOK'
    <2> DEFINE Claimed == [sem : Semesters, rec : Rows]
               r == [i \in DOMAIN q |-> [sem |-> q[i], rec |-> Seen(row[q[i]], "record")]]
    <2>1. ASSUME NEW i \in DOMAIN q PROVE [sem |-> q[i], rec |-> Seen(row[q[i]], "record")] \in Claimed
      <3>1. q[i] \in DueRows
        BY <1>3
      <3> QED
        BY <3>1, <1>4, RowOps
    <2>2. r \in [1..n -> Claimed]
      BY <2>1, <1>3
    <2>3. r \in Seq(Claimed)
      <3> HIDE DEF r, Claimed
      <3> QED
        BY <2>2, <1>3
    <2> QED
      BY <2>3, <1>1, <1>2, RoundTakenUp
  <1>7. UNCHANGED <<minted, terms, schoolPw, shownVars, countVars>>
    BY DEF ClaimDue
  <1> QED
    BY <1>1, <1>5, <1>6, <1>7, ShownSame, AnswerFrame DEF TypeOK, TableOK

LEMMA TickStep ==
  ASSUME TypeInv, Tick
  PROVE  TypeInv' /\ RowSteps
  <1>1. TypeOK /\ CallsOK /\ BatchOK
    BY Parts
  <1>2. RowSteps
    <2>1. ASSUME NEW s \in Semesters
          PROVE  RowStep(s) /\ row'[s] \in Rows \cup {None}
      <3>1. row'[s] = Aged(row[s])
        BY DEF Tick
      <3>2. CASE row[s] = None
        BY <3>1, <3>2 DEF Aged, RowStep
      <3>3. CASE row[s] # None
        <4>1. Replaces(row[s], Aged(row[s]))
          BY <3>3, <1>1, RowOps DEF TypeOK, TableOK
        <4> QED
          BY <3>1, <4>1, NamesAssumption DEF Replaces, Keeps, RowStep
      <3> QED
        BY <3>2, <3>3
    <2> QED
      BY <2>1 DEF RowSteps, Tick
  <1>3. CallsOK'
    <2>1. ASSUME NEW t \in Tasks
          PROVE  /\ call'[t] \in Calls \cup {None}
                 /\ call'[t] # None /\ call'[t].op # "create" => call'[t].rec # None
      <3>1. call'[t] = AgedCall(call[t])
        BY DEF Tick
      <3>2. CASE call[t] = None \/ call[t].op # "refresh"
        BY <3>1, <3>2, <1>1 DEF AgedCall, CallsOK, CallHasRow
      <3>3. CASE call[t] # None /\ call[t].op = "refresh"
        <4> DEFINE aged == [call[t].rec EXCEPT !.recent = Down(call[t].rec.recent)]
        <4>1. call[t] \in Calls /\ call[t].rec \in Rows
          BY <3>3, <1>1 DEF CallsOK, CallHasRow, Calls
        <4>2. aged \in Rows /\ aged # None
          BY <4>1, RowOps, NamesAssumption
        <4>3. call'[t] = [call[t] EXCEPT !.rec = aged]
          BY <3>1, <3>3, <4>1 DEF AgedCall, Calls
        <4> HIDE DEF aged
        <4>4. call'[t] \in Calls /\ call'[t].rec = aged
          BY <4>1, <4>2, <4>3 DEF Calls
        <4> QED
          BY <4>2, <4>4
      <3> QED
        BY <3>2, <3>3
    <2>2. call' = [t \in Tasks |-> AgedCall(call[t])]
      BY DEF Tick
    <2>3. call' \in [Tasks -> Calls \cup {None}]
      BY <2>1, <2>2
    <2> QED
      BY <2>1, <2>3 DEF CallsOK, CallHasRow
  <1>4. UNCHANGED <<minted, terms, schoolPw, batch, shownVars, countVars>>
    BY DEF Tick
  <1> QED
    BY <1>1, <1>2, <1>3, <1>4, ShownSame, AnswerFrame DEF BatchOK, TypeOK, TableOK

\* The student's password, the configuration, and the process dying.
LEMMA OutsideStep ==
  ASSUME TypeInv, \/ ChangePassword \/ EditTerms \/ Crash
                  \/ \E t \in Requests : CrashInCreate(t)
  PROVE  TypeInv' /\ RowSteps
  <1>1. TypeOK /\ CallsOK /\ BatchOK
    BY Parts
  <1>2. CASE ChangePassword
    <2>1. schoolPw' \in Passwords /\ UNCHANGED <<row, minted, terms, call, batch, shownVars, countVars>>
      BY <1>1, <1>2, BoundsAssumption DEF ChangePassword, TypeOK, Passwords
    <2> QED
      BY <1>1, <2>1, SameRows, ShownSame, Assemble
      DEF BatchOK, CallsOK, CallHasRow, TypeOK, TableOK, countVars
  <1>3. CASE EditTerms
    <2>1. terms' \subseteq Semesters /\ edits' \in 0..MaxEdits
          /\ UNCHANGED <<row, minted, schoolPw, call, batch, shownVars, starts, crashes>>
      BY <1>1, <1>3, BoundsAssumption DEF EditTerms, TypeOK
    <2> QED
      BY <1>1, <2>1, SameRows, ShownSame, Assemble DEF BatchOK, CallsOK, CallHasRow, TypeOK, TableOK
  <1>4. CASE Restarted /\ (UNCHANGED <<row, minted, halved>> \/ \E t \in Requests : CrashInCreate(t))
    <2>1. /\ crashes' \in 0..MaxCrashes /\ UNCHANGED <<terms, schoolPw, owed, starts, edits>>
          /\ call' = [t \in Tasks |-> None] /\ batch' = <<>> /\ beaten' = {}
      BY <1>1, <1>4, BoundsAssumption DEF Restarted, TypeOK
    <2>2. CallsOK' /\ BatchOK'
      BY <2>1 DEF CallsOK, CallHasRow, BatchOK
    <2>3. RowSteps /\ minted' \in 0..MaxMinted /\ halved' \subseteq Ids
      <3>1. CASE UNCHANGED <<row, minted, halved>>
        BY <3>1, <1>1, SameRows DEF TypeOK, TableOK
      <3>2. ASSUME NEW t \in Requests, CrashInCreate(t)
            PROVE  RowSteps /\ minted' \in 0..MaxMinted /\ halved' \subseteq Ids
        <4> DEFINE s == call[t].sem
                   old == call[t].rec
                   p == call[t].pw
        <4>1. t \in Tasks /\ call[t] # None
          BY <3>2 DEF CrashInCreate, At, Tasks
        <4>2. s \in Semesters /\ p \in Passwords /\ minted \in 0..MaxMinted
              /\ (row[s] # None => row[s] \in Rows)
          BY <4>1, CallFacts
        <4>3. \/ /\ minted < MaxMinted /\ minted' = minted + 1
                 /\ row' = [row EXCEPT ![s] = NewRow(minted + 1, p)]
                 /\ halved' = halved \cup {minted + 1}
              \/ Update(s, old.id, NewPassword(row[s], p)) /\ UNCHANGED <<minted, halved>>
          BY <3>2 DEF CrashInCreate
        <4> HIDE DEF s, old, p
        <4>4. CASE /\ minted < MaxMinted /\ minted' = minted + 1
                   /\ row' = [row EXCEPT ![s] = NewRow(minted + 1, p)]
                   /\ halved' = halved \cup {minted + 1}
          <5>1. /\ Replaces(row[s], NewRow(minted + 1, p)) /\ minted + 1 \in 0..MaxMinted
                /\ halved' \subseteq Ids
            BY <4>4, <4>2, <1>1, FreshRows DEF Replaces, TypeOK
          <5> QED
            BY <4>4, <4>2, <5>1, <1>1, WriteRow
        <4>5. CASE Update(s, old.id, NewPassword(row[s], p)) /\ UNCHANGED <<minted, halved>>
          <5>1. row[s] # None => Replaces(row[s], NewPassword(row[s], p))
            BY <4>2, RowOps
          <5> QED
            BY <4>5, <4>2, <5>1, <1>1, UpdateRow DEF TypeOK
        <4> QED
          BY <4>3, <4>4, <4>5
      <3> QED
        BY <1>4, <3>1, <3>2
    <2> QED
      BY <1>1, <2>1, <2>2, <2>3, Assemble DEF ShownOK, TypeOK
  <1> QED
    BY <1>2, <1>3, <1>4 DEF Crash, CrashInCreate

LEMMA NextStep ==
  ASSUME TypeInv, [Next]_vars
  PROVE  TypeInv' /\ RowSteps
  <1>1. TypeOK /\ CallsOK /\ BatchOK
    BY Parts
  <1>2. ASSUME NEW t \in Tasks, Answered(t) PROVE TypeInv' /\ RowSteps
    BY <1>2, CreateAcceptedStep, ProofAcceptedStep, RequestFailsStep, FetchStep DEF Answered
  <1>3. ASSUME NEW t \in Requests, Start(t) PROVE TypeInv' /\ RowSteps
    BY <1>3, StartStep DEF Start
  <1>4. CASE UNCHANGED vars
    BY <1>1, <1>4, SameRows, ShownSame, Assemble
    DEF vars, countVars, BatchOK, CallsOK, CallHasRow, TypeOK, TableOK
  <1>5. CASE Surroundings
    BY <1>5, TickStep, OutsideStep DEF Surroundings
  <1> QED
    BY <1>2, <1>3, <1>4, <1>5, GrantedStep, AtOnceStep, ShowStep, ClaimDueStep, OutsideStep DEF Next

-----------------------------------------------------------------------------
(* Addresses.  An owed address is that of a row as long as a handler that  *)
(* is not beaten still goes by the address of the row it has read.         *)

Promising    == {"create", "status", "rotate"}
CreatePoints == {"ownerwait", "create"}
Promises(t)  == call[t] # None /\ call[t].rec # None /\ call[t].op \in Promising
HasRead(t)   == /\ Found(call[t].sem, call[t].rec.id)
                /\ call[t].op # "rotate" => row[call[t].sem].hash = call[t].rec.enc

\* The address of a row in two forms (token_enc, token_hash), the addresses shown, the tasks that
\* will show one, and who waits in create().
Paired     == \A s \in Subscribed : row[s].enc = row[s].hash
Standing   == \A k \in owed : \E s \in Subscribed : row[s].hash = k
Current    == \A t \in Tasks : t \notin beaten /\ Promises(t) => HasRead(t)
CreateOnly == \A t \in Tasks : call[t] # None /\ call[t].at \in CreatePoints => call[t].op = "create"
AddressInv == Paired /\ Standing /\ Current /\ CreateOnly

-----------------------------------------------------------------------------
(* The theorems.                                                           *)

\* Numbers for the subscriptions the process finds: an injection exists.
LEMMA FirstIdType == FirstId \in [Semesters -> 1..Cardinality(Semesters)]
  <1>1. \E f \in [Semesters -> 1..Cardinality(Semesters)] :
          \A s, t \in Semesters : f[s] = f[t] => s = t
    <2>1. ExistsBijection(Semesters, 1..Cardinality(Semesters))
      BY BoundsAssumption, FS_CardinalityType, Fun_ExistsBijSymmetric
    <2>2. PICK f \in [Semesters -> 1..Cardinality(Semesters)] : IsInjective(f)
      BY <2>1 DEF ExistsBijection, Bijection, Injection
    <2> QED
      BY <2>2 DEF IsInjective
  <1> QED
    BY <1>1 DEF FirstId

LEMMA InitInv == Init => TypeInv /\ AddressInv /\ SnapshotUnlessCrashed
  <1> SUFFICES ASSUME Init PROVE TypeInv /\ AddressInv /\ SnapshotUnlessCrashed
    OBVIOUS
  <1>1. PICK old \in SUBSET Semesters :
          row = [s \in Semesters |-> IF s \in old THEN Opened(FirstId[s], 1) ELSE None]
    BY DEF Init
  <1>2. \A s \in Semesters : /\ Opened(FirstId[s], 1) \in Rows
                             /\ Opened(FirstId[s], 1).enc = Opened(FirstId[s], 1).hash
                             /\ Opened(FirstId[s], 1).blob = "yes"
    <2>1. \A s \in Semesters : FirstId[s] \in Ids
      BY FirstIdType, Bounds, BoundsAssumption DEF Ids
    <2> QED
      BY <2>1, Bounds DEF Opened, Snapshot, NewRow, Rows
  <1>3. row \in [Semesters -> Rows \cup {None}]
    BY <1>1, <1>2
  <1>4. owed = {row[s].enc : s \in Subscribed} /\ owed \subseteq Ids
    <2>1. owed = {row[s].enc : s \in Subscribed}
      BY DEF Init
    <2>2. \A s \in Subscribed : row[s].enc \in Ids
      BY <1>3 DEF Subscribed, Rows
    <2> QED
      BY <2>1, <2>2
  <1>5. TypeInv
    BY <1>3, <1>4, Bounds, BoundsAssumption
    DEF Init, TypeInv, TypeOK, TableOK, TasksOK, CallHasRow
  <1>6. \A s \in Subscribed : row[s].enc = row[s].hash /\ row[s].blob = "yes"
    BY <1>1, <1>2 DEF Subscribed
  <1>7. \A t \in Tasks : call[t] = None
    BY DEF Init
  <1>8. AddressInv
    BY <1>4, <1>6, <1>7 DEF AddressInv, Paired, Standing, Current, CreateOnly, Promises
  <1>9. SnapshotUnlessCrashed
    BY <1>6 DEF SnapshotUnlessCrashed
  <1> QED
    BY <1>5, <1>8, <1>9

\* The rows, the handlers in flight and the claimed rounds keep their types.
THEOREM TypeCorrect == Spec => []TypeOK
  <1>1. Init => TypeInv
    BY InitInv
  <1>2. TypeInv /\ [Next]_vars => TypeInv'
    BY NextStep
  <1>3. TypeInv => TypeOK
    BY DEF TypeInv
  <1> QED
    BY <1>1, <1>2, <1>3, PTL DEF Spec

\* No step brings back an address that was rotated away or closed.
THEOREM OldAddressesStayDead == Spec => AddressNeverReturns
  <1>1. Init => TypeInv
    BY InitInv
  <1>2. TypeInv /\ [Next]_vars => TypeInv'
    BY NextStep
  <1>3. TypeInv /\ [Next]_vars =>
          [\A s \in Semesters : row'[s] # None =>
             \/ row'[s].hash > minted
             \/ row[s] # None /\ row'[s].hash = row[s].hash]_vars
    <2> SUFFICES ASSUME TypeInv, [Next]_vars, NEW s \in Semesters, row'[s] # None
                 PROVE  \/ row'[s].hash > minted
                        \/ row[s] # None /\ row'[s].hash = row[s].hash
      OBVIOUS
    <2>1. RowStep(s) /\ minted \in Nat
      BY NextStep, BoundsAssumption DEF RowSteps, TypeInv, TypeOK, TableOK
    <2> QED
      BY <2>1 DEF RowStep, KeepsAddress
  <1> QED
    BY <1>1, <1>2, <1>3, PTL DEF Spec, AddressNeverReturns

-----------------------------------------------------------------------------
(* Snapshots.  A row without one comes from a crash between the two commits *)
(* of its create(): every other write of a row stores a snapshot or keeps  *)
(* the one that is there.                                                  *)

BlobKept(r, new) ==
  new = None \/ new.blob = "yes" \/ (r # None /\ new.blob = r.blob /\ new.id = r.id)
BlobsKept == \A s \in Semesters : BlobKept(row[s], row'[s])

LEMMA BlobOps ==
  ASSUME NEW r \in Rows
  PROVE  /\ BlobKept(r, Snapshot(r)) /\ BlobKept(r, Postponed(r)) /\ BlobKept(r, Aged(r))
         /\ BlobKept(r, Rotated(r))
         /\ BlobKept(r, [r EXCEPT !.over = TRUE])
         /\ \A p : /\ BlobKept(r, Reauthorized(r, p)) /\ BlobKept(r, NewPassword(r, p))
                   /\ BlobKept(r, [r EXCEPT !.pause = p])
         /\ \A n, pause, after : BlobKept(r, Failed(r, n, pause, after))
  <1>1. r # None
    BY NamesAssumption
  <1>2. Snapshot(r).blob = "yes" /\ \A p : Reauthorized(r, p).blob = "yes"
    BY DEF Rows, Snapshot, Reauthorized, NewPassword
  <1>3. /\ Postponed(r).blob = r.blob /\ Aged(r).blob = r.blob /\ Rotated(r).blob = r.blob
        /\ [r EXCEPT !.over = TRUE].blob = r.blob
        /\ \A p : [r EXCEPT !.pause = p].blob = r.blob /\ NewPassword(r, p).blob = r.blob
        /\ \A n, pause, after : Failed(r, n, pause, after).blob = r.blob
    BY <1>1 DEF Rows, Postponed, Aged, Rotated, Failed, NewPassword
  <1>4. /\ Postponed(r).id = r.id /\ Aged(r).id = r.id /\ Rotated(r).id = r.id
        /\ [r EXCEPT !.over = TRUE].id = r.id
        /\ \A p : [r EXCEPT !.pause = p].id = r.id /\ NewPassword(r, p).id = r.id
        /\ \A n, pause, after : Failed(r, n, pause, after).id = r.id
    BY <1>1 DEF Rows, Postponed, Aged, Rotated, Failed, NewPassword
  <1> QED
    BY <1>1, <1>2, <1>3, <1>4 DEF BlobKept

LEMMA BlobWritten ==
  ASSUME TypeOK, NEW s \in Semesters, NEW new, row[s] # None => BlobKept(row[s], new),
         \/ row' = row
         \/ row' = [row EXCEPT ![s] = new] /\ (row[s] = None => new = None \/ new.blob = "yes")
  PROVE  BlobsKept
  BY DEF BlobsKept, BlobKept, TypeOK, TableOK

LEMMA BlobUpdated ==
  ASSUME TypeOK, NEW s \in Semesters, NEW id, NEW new, Update(s, id, new),
         row[s] # None => BlobKept(row[s], new)
  PROVE  BlobsKept
  BY BlobWritten DEF Update, Found, BlobsKept, BlobKept

LEMMA BlobSame == row' = row => BlobsKept
  BY DEF BlobsKept, BlobKept

\* The answers of the school.
LEMMA BlobAnswered ==
  ASSUME TypeInv, NEW t \in Tasks, Answered(t)
  PROVE  BlobsKept
  <1> DEFINE s == call[t].sem
             id == call[t].rec.id
  <1>1. TypeOK /\ call[t] # None
    BY DEF TypeInv, Answered, CreateAccepted, ProofAccepted, RequestFails, FetchAccepted,
           FetchRejected, FetchUnavailable, At
  <1>2. s \in Semesters /\ (row[s] # None => row[s] \in Rows)
    BY <1>1, CallFacts
  <1>3. CASE CreateAccepted(t)
    <2> DEFINE p == call[t].pw
    <2>1. \/ Update(s, id, Reauthorized(row[s], p))
          \/ row[s] # None /\ row' = [row EXCEPT ![s] = Snapshot(row[s])]
          \/ row' = [row EXCEPT ![s] = Opened(minted + 1, p)]
      BY <1>3 DEF CreateAccepted
    <2>2. Opened(minted + 1, p).blob = "yes"
      BY DEF Opened, Snapshot, NewRow
    <2> HIDE DEF s, id, p
    <2> QED
      BY <1>1, <1>2, <2>1, <2>2, BlobOps, BlobUpdated, BlobWritten DEF BlobKept
  <1>4. CASE ProofAccepted(t)
    <2>1. \/ Update(s, id, Rotated(row[s])) \/ Update(s, id, None) \/ row' = row
      BY <1>4 DEF ProofAccepted
    <2> HIDE DEF s, id
    <2>2. BlobKept(row[s], None)
      BY DEF BlobKept
    <2> QED
      BY <1>1, <1>2, <2>1, <2>2, BlobOps, BlobUpdated, BlobSame
  <1>5. CASE RequestFails(t)
    BY <1>5, BlobSame DEF RequestFails
  <1>6. CASE FetchAccepted(t) \/ FetchRejected(t) \/ FetchUnavailable(t)
    <2>1. \/ Update(s, id, Snapshot(row[s]))
          \/ \E n, pause, after : Update(s, id, Failed(row[s], n, pause, after))
      BY <1>6 DEF FetchAccepted, FetchRejected, FetchUnavailable, Saved
    <2> HIDE DEF s, id
    <2> QED
      BY <1>1, <1>2, <2>1, BlobOps, BlobUpdated
  <1> QED
    BY <1>3, <1>4, <1>5, <1>6 DEF Answered

\* The owner's and the administrator's changes that wait for nobody, and the end of the 210 days.
LEMMA BlobAtOnce ==
  ASSUME TypeInv, NEW s \in Semesters, Rotate(s) \/ Close(s) \/ SetPaused(s) \/ Expires(s)
  PROVE  BlobsKept
  <1>1. TypeOK /\ row[s] # None /\ row[s] \in Rows
    BY DEF TypeInv, TypeOK, TableOK, Rotate, Close, SetPaused, Expires
  <1>2. \/ row' = [row EXCEPT ![s] = Rotated(row[s])] \/ row' = [row EXCEPT ![s] = None]
        \/ \E p : row' = [row EXCEPT ![s] = [row[s] EXCEPT !.pause = p]]
        \/ row' = [row EXCEPT ![s] = [row[s] EXCEPT !.over = TRUE]]
    BY DEF Rotate, Close, SetPaused, Expires
  <1>3. BlobKept(row[s], None)
    BY DEF BlobKept
  <1> QED
    BY <1>1, <1>2, <1>3, BlobOps, BlobWritten

\* A round of the scheduler and the clock: every row is written alike.
LEMMA BlobSwept ==
  ASSUME TypeInv, ClaimDue \/ Tick
  PROVE  BlobsKept
  <1>1. \A s \in Semesters : row'[s] \in {row[s], Postponed(row[s]), Aged(row[s])}
    BY DEF ClaimDue, Tick
  <1>2. \A s \in Semesters : row[s] = None => row'[s] = None
    <2>1. CASE ClaimDue
      <3>1. PICK q \in Rounds : row' = [s \in Semesters |-> IF \E i \in DOMAIN q : q[i] = s
                                                            THEN Postponed(row[s]) ELSE row[s]]
        BY <2>1 DEF ClaimDue
      <3>2. \A i \in DOMAIN q : q[i] \in DueRows
        BY DEF Rounds
      <3> QED
        BY <3>1, <3>2 DEF DueRows
    <2>2. CASE Tick
      BY <2>2 DEF Tick, Aged
    <2> QED
      BY <2>1, <2>2
  <1>3. \A s \in Semesters : row[s] \in Rows \/ row[s] = None
    BY DEF TypeInv, TypeOK, TableOK
  <1> QED
    BY <1>1, <1>2, <1>3, BlobOps DEF BlobsKept, BlobKept

\* create() dies: the row it has inserted is one of the halved.
LEMMA BlobHalved ==
  ASSUME TypeInv, NEW t \in Requests, CrashInCreate(t), SnapshotUnlessCrashed
  PROVE  SnapshotUnlessCrashed'
  <1> DEFINE s == call[t].sem
             p == call[t].pw
  <1>1. TypeOK /\ call[t] # None /\ t \in Tasks
    BY DEF TypeInv, CrashInCreate, At, Tasks
  <1>2. s \in Semesters /\ (row[s] # None => row[s] \in Rows)
    BY <1>1, CallFacts
  <1>3. CASE /\ row' = [row EXCEPT ![s] = NewRow(minted + 1, p)]
             /\ halved' = halved \cup {minted + 1}
    <2>1. NewRow(minted + 1, p).id = minted + 1
      BY DEF NewRow
    <2> HIDE DEF s, p
    <2> QED
      BY <1>1, <1>2, <1>3, <2>1 DEF SnapshotUnlessCrashed, Subscribed, TypeOK, TableOK
  <1>4. CASE Update(s, call[t].rec.id, NewPassword(row[s], p)) /\ UNCHANGED halved
    <2>1. BlobsKept
      <3> HIDE DEF s, p
      <3> QED
        BY <1>1, <1>2, <1>4, BlobOps, BlobUpdated
    <2> QED
      BY <1>4, <2>1 DEF SnapshotUnlessCrashed, Subscribed, BlobsKept, BlobKept
  <1> QED
    BY <1>3, <1>4 DEF CrashInCreate

LEMMA BlobStep ==
  ASSUME TypeInv, [Next]_vars, SnapshotUnlessCrashed
  PROVE  SnapshotUnlessCrashed'
  <1>1. SUFFICES ASSUME ~ \E t \in Requests : CrashInCreate(t) PROVE BlobsKept /\ UNCHANGED halved
    BY BlobHalved DEF SnapshotUnlessCrashed, Subscribed, BlobsKept, BlobKept
  <1>2. ASSUME NEW t \in Requests, Start(t) PROVE BlobsKept /\ UNCHANGED halved
    BY <1>2, BlobSame DEF Start, StartAdminRefresh, StartCreate, StartRefresh, StartProof, shownVars
  <1>3. ASSUME NEW t \in Tasks, Granted(t) PROVE BlobsKept /\ UNCHANGED halved
    BY <1>3, BlobSame DEF Granted, OwnerLockGranted, RowLockGranted, shownVars
  <1>4. ASSUME NEW t \in Tasks, Answered(t) PROVE BlobsKept /\ UNCHANGED halved
    BY <1>4, BlobAnswered
    DEF Answered, CreateAccepted, ProofAccepted, RequestFails, FetchAccepted, FetchRejected,
        FetchUnavailable, shownVars
  <1>5. ASSUME NEW s \in Semesters, Rotate(s) \/ Close(s) \/ SetPaused(s) \/ Expires(s)
        PROVE  BlobsKept /\ UNCHANGED halved
    BY <1>5, BlobAtOnce DEF Rotate, Close, SetPaused, Expires, shownVars
  <1>6. ASSUME NEW s \in Semesters, Show(s) PROVE BlobsKept /\ UNCHANGED halved
    BY <1>6, BlobSame DEF Show
  <1>7. CASE ClaimDue \/ Tick
    BY <1>7, BlobSwept DEF ClaimDue, Tick, shownVars
  <1>8. CASE ChangePassword \/ EditTerms \/ Crash \/ UNCHANGED vars
    BY <1>8, BlobSame DEF ChangePassword, EditTerms, Crash, vars, shownVars
  <1> QED
    BY <1>1, <1>2, <1>3, <1>4, <1>5, <1>6, <1>7, <1>8 DEF Next, Surroundings

\* A subscription is without a snapshot only if its own create() died between its two commits,
\* whatever requests, rejections and refreshes were in flight together.
THEOREM SubscribedHaveSnapshots == Spec => []SnapshotUnlessCrashed
  <1>1. Init => TypeInv /\ SnapshotUnlessCrashed
    BY InitInv
  <1>2. TypeInv /\ SnapshotUnlessCrashed /\ [Next]_vars => (TypeInv /\ SnapshotUnlessCrashed)'
    BY NextStep, BlobStep
  <1> QED
    BY <1>1, <1>2, PTL DEF Spec

-----------------------------------------------------------------------------
(* The addresses the student was shown.                                    *)

\* What a step does to a task that was not idle before: it ends, goes on with the row it
\* has read, or refreshes the next row of a round.
GoesOn(t) == /\ call[t] # None /\ call'[t] # None
             /\ call'[t].sem = call[t].sem /\ call'[t].op = call[t].op
             /\ call[t].op \in Promising => call'[t].rec = call[t].rec
             /\ call'[t].at \in CreatePoints => call[t].at \in CreatePoints
Recorded(t) == call'[t] # None /\ call'[t].op = "record" /\ call'[t].at \notin CreatePoints
CallStep(t) == call'[t] = None \/ GoesOn(t) \/ Recorded(t)
CallSteps == \A t \in Tasks : CallStep(t)

LEMMA SameCalls == call' = call => CallSteps
  BY DEF CallSteps, CallStep, GoesOn

LEMMA EndStep ==
  ASSUME CallsOK, NEW t \in Tasks, Done(t)
  PROVE  CallSteps /\ call'[t] = None
  BY DEF CallsOK, Done, CallSteps, CallStep, GoesOn

LEMMA MoveStep ==
  ASSUME CallsOK, NEW t \in Tasks, call[t] # None, NEW point, Moves(t, point),
         point \in CreatePoints => call[t].at \in CreatePoints
  PROVE  CallSteps
  <1>1. call[t] \in Calls /\ call' = [call EXCEPT ![t] = [call[t] EXCEPT !.at = point]]
    BY DEF CallsOK, Moves
  <1> DEFINE c == [call[t] EXCEPT !.at = point]
  <1>2. c.sem = call[t].sem /\ c.op = call[t].op /\ c.rec = call[t].rec /\ c.at = point
    BY <1>1 DEF Calls
  <1>3. call'[t] = c /\ \A u \in Tasks : u # t => call'[u] = call[u]
    BY <1>1 DEF CallsOK
  <1> HIDE DEF c
  <1>4. call'[t] = None \/ GoesOn(t)
    BY <1>2, <1>3 DEF GoesOn
  <1> QED
    BY <1>3, <1>4 DEF CallSteps, CallStep, GoesOn

LEMMA EnterStep ==
  ASSUME CallsOK, NEW t \in Tasks, call[t] # None, Enters(t)
  PROVE  CallSteps
  BY EndStep, MoveStep DEF Enters, CreatePoints

LEMMA TakeUpStep ==
  ASSUME CallsOK, NEW q, TakeUp(q)
  PROVE  CallSteps
  <1>1. CASE q = <<>> \/ q[1].sem \notin terms
    BY <1>1, EndStep, SchedulerIsTask DEF TakeUp
  <1>2. CASE ~(q = <<>> \/ q[1].sem \notin terms)
    <2>1. PICK point \in {"fetch", "rowwait"} :
            call' = [call EXCEPT ![Scheduler] =
                       [at |-> point, op |-> "record", sem |-> q[1].sem,
                        pw |-> q[1].rec.cred, rec |-> q[1].rec]]
      BY <1>2 DEF TakeUp
    <2> DEFINE c == [at |-> point, op |-> "record", sem |-> q[1].sem,
                     pw |-> q[1].rec.cred, rec |-> q[1].rec]
    <2>2. c.op = "record" /\ c.at \notin CreatePoints
      BY DEF CreatePoints
    <2>3. call'[Scheduler] = c /\ \A u \in Tasks : u # Scheduler => call'[u] = call[u]
      BY <2>1, SchedulerIsTask DEF CallsOK
    <2> HIDE DEF c
    <2> QED
      BY <2>2, <2>3 DEF CallSteps, CallStep, GoesOn, Recorded
  <1> QED
    BY <1>1, <1>2

LEMMA ReturnStep ==
  ASSUME CallsOK, NEW t \in Tasks, Return(t)
  PROVE  CallSteps
  BY EndStep, TakeUpStep DEF Return

LEMMA AgedStep ==
  ASSUME CallsOK, Tick
  PROVE  CallSteps
  <1> SUFFICES ASSUME NEW t \in Tasks PROVE CallStep(t)
    BY DEF CallSteps
  <1>1. call'[t] = AgedCall(call[t])
    BY DEF Tick
  <1>2. CASE call[t] = None \/ call[t].op # "refresh"
    BY <1>1, <1>2 DEF AgedCall, CallStep, GoesOn
  <1>3. CASE call[t] # None /\ call[t].op = "refresh"
    <2>1. call[t] \in Calls
      BY <1>3 DEF CallsOK
    <2>2. /\ call'[t].sem = call[t].sem /\ call'[t].op = call[t].op /\ call'[t].at = call[t].at
      BY <1>1, <1>3, <2>1 DEF AgedCall, Calls
    <2> QED
      BY <1>3, <2>2 DEF CallStep, GoesOn, Promising
  <1> QED
    BY <1>2, <1>3

\* Steps that leave the address of every row alone.
AddressesKept == \A s \in Semesters : row[s] # None => KeepsAddress(row[s], row'[s])
\* What such a step, or one that takes an address back, does to the tasks that were overtaken.
BeatenStay == \A t \in beaten : t \in beaten' \/ call'[t] = None

LEMMA KeptWritten ==
  ASSUME TypeOK, NEW s \in Semesters, NEW new, row[s] # None => Keeps(row[s], new),
         row' = row \/ row' = [row EXCEPT ![s] = new]
  PROVE  AddressesKept
  BY DEF AddressesKept, Keeps, KeepsAddress, TypeOK, TableOK

LEMMA KeptUpdated ==
  ASSUME TypeOK, NEW s \in Semesters, NEW id, NEW new, Update(s, id, new),
         row[s] # None => Keeps(row[s], new)
  PROVE  AddressesKept
  BY KeptWritten DEF Update

LEMMA KeptSame == row' = row => AddressesKept
  BY DEF AddressesKept, KeepsAddress

LEMMA PairedStep ==
  ASSUME RowSteps, Paired
  PROVE  Paired'
  BY DEF RowSteps, RowStep, KeepsAddress, Paired, Subscribed

LEMMA CreateOnlyStep ==
  ASSUME CallSteps, CreateOnly
  PROVE  CreateOnly'
  BY DEF CallSteps, CallStep, GoesOn, Recorded, CreateOnly

LEMMA Undisturbed ==
  ASSUME TypeInv, AddressInv, RowSteps, AddressesKept, CallSteps, BeatenStay,
         \A k \in owed' : k \in owed \/ \E s \in Semesters : row'[s] # None /\ row'[s].hash = k
  PROVE  AddressInv'
  <1>1. Standing'
    <2> SUFFICES ASSUME NEW k \in owed' PROVE \E s \in Semesters : row'[s] # None /\ row'[s].hash = k
      BY DEF Standing, Subscribed
    <2>1. CASE k \in owed
      <3>1. PICK s \in Semesters : row[s] # None /\ row[s].hash = k
        BY <2>1 DEF AddressInv, Standing, Subscribed
      <3> QED
        BY <3>1 DEF AddressesKept, KeepsAddress
    <2> QED
      BY <2>1
  <1>2. Current'
    <2> SUFFICES ASSUME NEW t \in Tasks, t \notin beaten', Promises(t)' PROVE HasRead(t)'
      BY DEF Current
    <2>1. GoesOn(t) /\ t \notin beaten
      BY DEF CallSteps, CallStep, Recorded, Promises, Promising, BeatenStay
    <2>2. Promises(t) /\ call'[t].rec = call[t].rec
      BY <2>1 DEF GoesOn, Promises
    <2>3. HasRead(t) /\ call[t].sem \in Semesters
      BY <2>1, <2>2, CallFacts DEF AddressInv, Current, GoesOn
    <2> QED
      BY <2>1, <2>2, <2>3 DEF HasRead, Found, GoesOn, AddressesKept, KeepsAddress
  <1> QED
    BY <1>1, <1>2, PairedStep, CreateOnlyStep DEF AddressInv

\* The address of a row is taken back: by a rotation, with a new one, or by a closing.
LEMMA TakenBackStep ==
  ASSUME TypeInv, AddressInv, RowSteps, CallSteps, BeatenStay,
         NEW s \in Semesters, NEW id, NEW o, NEW new, Update(s, id, new),
         o = "close" \/ (o = "rotate" /\ new # None /\ (row[s] # None => new.id = row[s].id)),
         \A t \in Overtaken(s, id, o) : t \in beaten' \/ call'[t] = None,
         \A k \in owed' : k \in Withdrawn(s, id)
                          \/ \E u \in Semesters : row'[u] # None /\ row'[u].hash = k
  PROVE  AddressInv'
  <1>1. \A u \in Semesters : u # s \/ ~Found(s, id) => row'[u] = row[u]
    BY DEF Update, TypeInv, TypeOK, TableOK
  <1>2. Found(s, id) => row'[s] = new
    BY DEF Update, TypeInv, TypeOK, TableOK
  <1>3. Standing'
    <2> SUFFICES ASSUME NEW k \in owed' PROVE \E u \in Semesters : row'[u] # None /\ row'[u].hash = k
      BY DEF Standing, Subscribed
    <2>1. CASE k \in Withdrawn(s, id)
      <3>1. k \in owed /\ (Found(s, id) => k # row[s].hash)
        BY <2>1 DEF Withdrawn
      <3>2. PICK u \in Semesters : row[u] # None /\ row[u].hash = k
        BY <3>1 DEF AddressInv, Standing, Subscribed
      <3> QED
        BY <1>1, <3>1, <3>2
    <2> QED
      BY <2>1
  <1>4. Current'
    <2> SUFFICES ASSUME NEW t \in Tasks, t \notin beaten', Promises(t)' PROVE HasRead(t)'
      BY DEF Current
    <2>1. GoesOn(t) /\ t \notin beaten
      BY DEF CallSteps, CallStep, Recorded, Promises, Promising, BeatenStay
    <2>2. Promises(t) /\ call'[t].rec = call[t].rec
      BY <2>1 DEF GoesOn, Promises
    <2>3. HasRead(t) /\ call[t].sem \in Semesters
      BY <2>1, <2>2, CallFacts DEF AddressInv, Current, GoesOn
    <2>4. CASE call[t].sem = s /\ Found(s, id)
      <3>1. t \notin Overtaken(s, id, o)
        BY <2>1 DEF GoesOn
      <3>2. call[t].op = "rotate" /\ o = "rotate"
        BY <2>1, <2>2, <2>4, <3>1 DEF Overtaken, GoesOn, Promises, Promising
      <3> QED
        BY <1>2, <2>1, <2>2, <2>3, <2>4, <3>2 DEF HasRead, Found, GoesOn
    <2>5. CASE ~(call[t].sem = s /\ Found(s, id))
      BY <1>1, <2>1, <2>2, <2>3, <2>5 DEF HasRead, Found, GoesOn
    <2> QED
      BY <2>4, <2>5
  <1> QED
    BY <1>3, <1>4, PairedStep, CreateOnlyStep DEF AddressInv

\* A task starts: it has just read its row.
LEMMA StartAddress ==
  ASSUME TypeInv, AddressInv, NEW t \in Requests, Start(t)
  PROVE  AddressInv'
  <1>1. PICK s \in Semesters :
          \E o \in {"create", "refresh", "status", "rotate", "close", "record"}, p \in Passwords,
             point \in {"prove", "ownerwait", "create", "rowwait", "fetch"} :
             /\ point \in CreatePoints => o = "create"
             /\ Reads(t, o, s, p, point)
    <2>1. PICK s \in Semesters :
            \/ StartAdminRefresh(t, s)
            \/ \E p \in Passwords : \/ StartCreate(t, s, p) \/ StartRefresh(t, s, p)
                                    \/ \E o \in {"status", "rotate", "close"} : StartProof(t, o, s, p)
      BY DEF Start
    <2>2. CASE StartAdminRefresh(t, s)
      <3>1. row[s].cred \in Passwords
        BY <2>2 DEF StartAdminRefresh, TypeInv, TypeOK, TableOK, Rows
      <3> QED
        BY <2>2, <3>1 DEF StartAdminRefresh, CreatePoints
    <2>3. CASE \E p \in Passwords : StartCreate(t, s, p)
      BY <2>3 DEF StartCreate
    <2>4. CASE \E p \in Passwords : StartRefresh(t, s, p)
      BY <2>4 DEF StartRefresh, CreatePoints
    <2>5. CASE \E p \in Passwords : \E o \in {"status", "rotate", "close"} : StartProof(t, o, s, p)
      BY <2>5 DEF StartProof, CreatePoints
    <2> QED
      BY <2>1, <2>2, <2>3, <2>4, <2>5
  <1>2. PICK o \in {"create", "refresh", "status", "rotate", "close", "record"}, p \in Passwords,
             point \in {"prove", "ownerwait", "create", "rowwait", "fetch"} :
             (point \in CreatePoints => o = "create") /\ Reads(t, o, s, p, point)
    BY <1>1
  <1>3. UNCHANGED <<row, owed, beaten>>
    BY DEF Start, StartAdminRefresh, StartCreate, StartRefresh, StartProof, shownVars
  <1> DEFINE c == [at |-> point, op |-> o, sem |-> s, pw |-> p, rec |-> Seen(row[s], o)]
  <1>4. call'[t] = c /\ \A u \in Tasks : u # t => call'[u] = call[u]
    BY <1>2 DEF Reads, Tasks, TypeInv, TypeOK, TasksOK
  <1>5. c.at = point /\ c.op = o /\ c.sem = s /\ c.rec = Seen(row[s], o)
    OBVIOUS
  <1> HIDE DEF c
  <1>6. Seen(row[s], o) # None =>
          row[s] # None /\ Seen(row[s], o).id = row[s].id /\ Seen(row[s], o).enc = row[s].enc
    <2>1. row[s] \in Rows \/ row[s] = None
      BY DEF TypeInv, TypeOK, TableOK
    <2> QED
      BY <2>1 DEF Seen, Rows
  <1>7. row[s] # None => row[s].enc = row[s].hash
    BY DEF AddressInv, Paired, Subscribed
  <1>8. Current'
    <2> SUFFICES ASSUME NEW u \in Tasks, u \notin beaten', Promises(u)' PROVE HasRead(u)'
      BY DEF Current
    <2>1. CASE u = t
      BY <1>3, <1>4, <1>5, <1>6, <1>7, <2>1 DEF HasRead, Found, Promises
    <2>2. CASE u # t
      BY <1>3, <1>4, <2>2 DEF HasRead, Found, Promises, AddressInv, Current
    <2> QED
      BY <2>1, <2>2
  <1>9. CreateOnly'
    BY <1>2, <1>4, <1>5 DEF AddressInv, CreateOnly
  <1> QED
    BY <1>3, <1>8, <1>9 DEF AddressInv, Paired, Standing, Subscribed

\* create() answers with the address of the row it has read, of the one it found, or a new one.
LEMMA CreateAddress ==
  ASSUME TypeInv, AddressInv, NEW t \in Tasks, CreateAccepted(t)
  PROVE  AddressInv'
  <1> DEFINE s == call[t].sem
             old == call[t].rec
             p == call[t].pw
  <1>1. TypeOK /\ CallsOK /\ call[t] # None /\ RowSteps
    BY Parts, CreateAcceptedStep DEF CreateAccepted, At
  <1>2. s \in Semesters /\ p \in Passwords /\ (row[s] # None => row[s] \in Rows)
    BY <1>1, CallFacts
  <1>3. CallSteps /\ call'[t] = None /\ BeatenStay
    BY <1>1, EndStep DEF CreateAccepted, BeatenStay
  <1>4. old # None /\ t \notin beaten => Found(s, old.id) /\ row[s].hash = old.enc
    <2>1. call[t].op = "create"
      BY <1>1 DEF CreateAccepted, At, AddressInv, CreateOnly, CreatePoints
    <2> QED
      BY <1>1, <2>1 DEF AddressInv, Current, Promises, Promising, HasRead
  <1>5. row[s] # None => row[s].enc = row[s].hash
    BY <1>2 DEF AddressInv, Paired, Subscribed
  <1>6. owed' = owed \cup Shown(t, Answer(s, old))
    BY DEF CreateAccepted
  <1>7. CASE old # None /\ Update(s, old.id, Reauthorized(row[s], p))
    <2>1. AddressesKept
      <3> HIDE DEF s, old, p
      <3> QED
        BY <1>1, <1>2, <1>7, KeepOps, KeptUpdated
    <2> HIDE DEF s, old, p
    <2>2. t \notin beaten => row'[s] # None /\ row'[s].hash = Answer(s, old)
      BY <1>2, <1>4, <1>7, <2>1 DEF AddressesKept, KeepsAddress, Answer, Found
    <2> QED
      BY <1>1, <1>2, <1>3, <1>6, <2>1, <2>2, Undisturbed DEF Shown
  <1>8. CASE old = None /\ row[s] # None /\ row' = [row EXCEPT ![s] = Snapshot(row[s])]
    <2>1. AddressesKept
      <3> HIDE DEF s, old, p
      <3> QED
        BY <1>1, <1>2, <1>8, KeepOps, KeptWritten
    <2> HIDE DEF s, old, p
    <2>2. row'[s] # None /\ row'[s].hash = Answer(s, old)
      BY <1>2, <1>5, <1>8, <2>1 DEF AddressesKept, KeepsAddress, Answer
    <2> QED
      BY <1>1, <1>2, <1>3, <1>6, <2>1, <2>2, Undisturbed DEF Shown
  <1>9. CASE /\ old = None /\ row[s] = None /\ minted < MaxMinted
             /\ row' = [row EXCEPT ![s] = Opened(minted + 1, p)]
    <2> HIDE DEF s, old, p
    <2>1. AddressesKept
      BY <1>1, <1>2, <1>9, KeptWritten
    <2>2. Opened(minted + 1, p) \in Rows /\ Opened(minted + 1, p).hash = minted + 1
      BY <1>1, <1>2, <1>9, FreshRows DEF TypeOK, TableOK
    <2>3. row'[s] # None /\ row'[s].hash = Answer(s, old)
      BY <1>1, <1>2, <1>9, <2>2, NamesAssumption DEF Answer, TypeOK, TableOK
    <2> QED
      BY <1>1, <1>2, <1>3, <1>6, <2>1, <2>3, Undisturbed DEF Shown
  <1> QED
    BY <1>7, <1>8, <1>9 DEF CreateAccepted

\* The school accepts a caller: a rotation or a closing goes through, if its row is still there.
LEMMA ProofAddress ==
  ASSUME TypeInv, AddressInv, NEW t \in Tasks, ProofAccepted(t)
  PROVE  AddressInv'
  <1> DEFINE s == call[t].sem
             old == call[t].rec
  <1>1. TypeOK /\ CallsOK /\ call[t] # None /\ RowSteps
    BY Parts, ProofAcceptedStep DEF ProofAccepted, At
  <1>2. s \in Semesters /\ (row[s] # None => row[s] \in Rows) /\ minted \in 0..MaxMinted
    BY <1>1, CallFacts
  <1>3. call[t].op # "create" => old # None
    BY <1>1 DEF CallsOK, CallHasRow
  <1>4. CASE call[t].op = "rotate"
    <2>1. /\ minted < MaxMinted /\ Update(s, old.id, Rotated(row[s])) /\ Done(t)
          /\ owed' = Withdrawn(s, old.id) \cup Shown(t, minted + 1)
          /\ beaten' = (beaten \cup Overtaken(s, old.id, "rotate")) \ {t}
      BY <1>4 DEF ProofAccepted
    <2>2. CallSteps /\ call'[t] = None
      BY <1>1, <2>1, EndStep
    <2>3. t \notin beaten => Found(s, old.id)
      BY <1>1, <1>3, <1>4 DEF AddressInv, Current, Promises, Promising, HasRead
    <2>4. row[s] # None => /\ Rotated(row[s]) \in Rows /\ Rotated(row[s]).hash = minted + 1
                           /\ Rotated(row[s]).id = row[s].id
      BY <1>2, <2>1, FreshRows DEF Rotated, Rows
    <2> HIDE DEF s, old
    <2>5. t \notin beaten => row'[s] # None /\ row'[s].hash = minted + 1
      BY <1>1, <1>2, <2>1, <2>3, <2>4, NamesAssumption DEF Found, Update, TypeOK, TableOK
    <2>6. CASE row[s] # None
      <3>1. Rotated(row[s]) # None /\ Rotated(row[s]).id = row[s].id
        BY <2>4, <2>6, NamesAssumption
      <3>2. \A k \in owed' : k \in Withdrawn(s, old.id)
                             \/ \E u \in Semesters : row'[u] # None /\ row'[u].hash = k
        BY <1>2, <2>1, <2>5 DEF Shown
      <3>3. BeatenStay /\ \A u \in Overtaken(s, old.id, "rotate") : u \in beaten' \/ call'[u] = None
        BY <2>1, <2>2 DEF BeatenStay
      <3> QED
        BY <1>1, <1>2, <2>1, <2>2, <3>1, <3>2, <3>3, TakenBackStep
    <2>7. CASE row[s] = None
      <3>1. row' = row /\ owed' = owed /\ BeatenStay
        BY <2>1, <2>2, <2>3, <2>7 DEF Update, Found, Withdrawn, Shown, BeatenStay
      <3> QED
        BY <1>1, <2>2, <3>1, KeptSame, Undisturbed
    <2> QED
      BY <2>6, <2>7
  <1>5. CASE call[t].op = "close"
    <2>1. /\ Update(s, old.id, None) /\ Done(t) /\ owed' = Withdrawn(s, old.id)
          /\ beaten' = beaten \cup Overtaken(s, old.id, "close")
      BY <1>5 DEF ProofAccepted
    <2>2. CallSteps
      BY <1>1, <2>1, EndStep
    <2> HIDE DEF s, old
    <2>3. BeatenStay /\ \A u \in Overtaken(s, old.id, "close") : u \in beaten' \/ call'[u] = None
      BY <2>1 DEF BeatenStay
    <2> QED
      BY <1>1, <1>2, <2>1, <2>2, <2>3, TakenBackStep
  <1>6. CASE call[t].op = "status"
    <2>1. /\ row' = row /\ Done(t) /\ owed' = owed \cup Shown(t, old.enc) /\ beaten' = beaten \ {t}
      BY <1>6 DEF ProofAccepted
    <2>2. CallSteps /\ call'[t] = None /\ BeatenStay
      BY <1>1, <2>1, EndStep DEF BeatenStay
    <2>3. t \notin beaten => row[s] # None /\ row[s].hash = old.enc
      BY <1>1, <1>3, <1>6 DEF AddressInv, Current, Promises, Promising, HasRead, Found
    <2> HIDE DEF s, old
    <2> QED
      BY <1>1, <1>2, <2>1, <2>2, <2>3, KeptSame, Undisturbed DEF Shown
  <1>7. CASE call[t].op = "refresh"
    <2>1. UNCHANGED <<row, owed, beaten>> /\ (Done(t) \/ Enters(t) \/ Moves(t, "rowwait"))
      BY <1>7 DEF ProofAccepted
    <2>2. CallSteps
      BY <1>1, <2>1, EndStep, EnterStep, MoveStep DEF CreatePoints
    <2> QED
      BY <1>1, <2>1, <2>2, KeptSame, Undisturbed DEF BeatenStay
  <1> QED
    BY <1>4, <1>5, <1>6, <1>7 DEF ProofAccepted

\* A refresh ends, or a request is refused.
LEMMA FetchAddress ==
  ASSUME TypeInv, AddressInv, NEW t \in Tasks,
         FetchAccepted(t) \/ FetchRejected(t) \/ FetchUnavailable(t) \/ RequestFails(t)
  PROVE  AddressInv'
  <1> DEFINE s == call[t].sem
             id == call[t].rec.id
             n == More(call[t].rec.fails)
  <1>1. TypeOK /\ CallsOK /\ call[t] # None /\ RowSteps
    BY Parts, FetchStep, RequestFailsStep
    DEF FetchAccepted, FetchRejected, FetchUnavailable, RequestFails, At
  <1>2. s \in Semesters /\ (row[s] # None => row[s] \in Rows)
    BY <1>1, CallFacts
  <1>3. CASE RequestFails(t)
    <2>1. row' = row /\ Done(t) /\ owed' = owed /\ beaten' = beaten \ {t}
      BY <1>3 DEF RequestFails
    <2>2. CallSteps /\ BeatenStay
      BY <1>1, <2>1, EndStep DEF BeatenStay
    <2> QED
      BY <1>1, <2>1, <2>2, KeptSame, Undisturbed
  <1>4. CASE FetchAccepted(t) \/ FetchRejected(t) \/ FetchUnavailable(t)
    <2>1. Return(t) /\ UNCHANGED <<owed, beaten>>
      BY <1>4 DEF FetchAccepted, FetchRejected, FetchUnavailable, shownVars
    <2>2. CallSteps /\ BeatenStay
      BY <1>1, <2>1, ReturnStep DEF BeatenStay
    <2>3. AddressesKept
      <3>1. \/ Update(s, id, Snapshot(row[s]))
            \/ /\ call[t].op # "create"
               /\ \E pause \in 0..PauseTicks, after \in 0..Interval :
                    Update(s, id, Failed(row[s], n, pause, after))
        <4>1. call[t].op # "create" => n \in 0..FailCap /\ RetryAfter(n) \in 0..Interval
          BY <1>1, CallFacts, Counts DEF Rows
        <4> QED
          BY <1>4, <4>1, Bounds DEF FetchAccepted, FetchRejected, FetchUnavailable, Saved
      <3>2. call[t].op # "create" => n \in 0..FailCap
        BY <1>1, CallFacts, Counts DEF Rows
      <3> HIDE DEF s, id, n
      <3>3. CASE Update(s, id, Snapshot(row[s]))
        BY <1>1, <1>2, <3>3, KeepOps, KeptUpdated
      <3>4. ASSUME call[t].op # "create", NEW pause \in 0..PauseTicks, NEW after \in 0..Interval,
                   Update(s, id, Failed(row[s], n, pause, after))
            PROVE  AddressesKept
        <4>1. row[s] # None => Keeps(row[s], Failed(row[s], n, pause, after))
          BY <1>2, <3>2, <3>4, KeepOps
        <4> QED
          BY <1>1, <1>2, <3>4, <4>1, KeptUpdated
      <3> QED
        BY <3>1, <3>3, <3>4
    <2> QED
      BY <1>1, <2>1, <2>2, <2>3, Undisturbed
  <1> QED
    BY <1>3, <1>4

\* The changes that wait for nobody.
LEMMA AtOnceAddress ==
  ASSUME TypeInv, AddressInv, NEW s \in Semesters,
         Rotate(s) \/ Close(s) \/ SetPaused(s) \/ Show(s) \/ Expires(s)
  PROVE  AddressInv'
  <1>1. /\ TypeOK /\ CallsOK /\ RowSteps /\ call' = call /\ CallSteps
        /\ row[s] # None /\ row[s] \in Rows /\ minted \in 0..MaxMinted
    BY Parts, AtOnceStep, ShowStep, SameCalls
    DEF Rotate, Close, SetPaused, Show, Expires, TypeOK, TableOK
  <1>2. CASE Rotate(s)
    <2>1. /\ Update(s, row[s].id, Rotated(row[s])) /\ minted < MaxMinted
          /\ owed' = Withdrawn(s, row[s].id) \cup {minted + 1}
          /\ beaten' = beaten \cup Overtaken(s, row[s].id, "rotate")
      BY <1>2 DEF Rotate, Update, Found
    <2>2. /\ Rotated(row[s]) # None /\ Rotated(row[s]).hash = minted + 1
          /\ Rotated(row[s]).id = row[s].id
      BY <1>1, <2>1, FreshRows, NamesAssumption DEF Rotated, Rows
    <2>3. row'[s] # None /\ row'[s].hash = minted + 1
      BY <1>1, <1>2, <2>2 DEF Rotate, TypeOK, TableOK
    <2> QED
      BY <1>1, <2>1, <2>2, <2>3, TakenBackStep DEF BeatenStay
  <1>3. CASE Close(s)
    <2>1. /\ Update(s, row[s].id, None) /\ owed' = Withdrawn(s, row[s].id)
          /\ beaten' = beaten \cup Overtaken(s, row[s].id, "close")
      BY <1>3 DEF Close, Update, Found
    <2> QED
      BY <1>1, <2>1, TakenBackStep DEF BeatenStay
  <1>4. CASE SetPaused(s) \/ Expires(s)
    <2>1. \/ \E p \in 0..PauseTicks : row' = [row EXCEPT ![s] = [row[s] EXCEPT !.pause = p]]
          \/ row' = [row EXCEPT ![s] = [row[s] EXCEPT !.over = TRUE]]
      BY <1>4, Bounds DEF SetPaused, Expires
    <2>2. AddressesKept
      BY <1>1, <2>1, KeepOps, KeptWritten
    <2> QED
      BY <1>1, <1>4, <2>2, Undisturbed DEF SetPaused, Expires, shownVars, BeatenStay
  <1>5. CASE Show(s)
    <2>1. row' = row /\ owed' = owed \cup {row[s].hash} /\ beaten' = beaten
      BY <1>1, <1>5 DEF Show, AddressInv, Paired, Subscribed
    <2> QED
      BY <1>1, <2>1, KeptSame, Undisturbed DEF BeatenStay
  <1> QED
    BY <1>2, <1>3, <1>4, <1>5

\* The scheduler's round, the clock and a process that dies.
LEMMA SweptAddress ==
  ASSUME TypeInv, AddressInv, ClaimDue \/ Tick \/ Crash \/ \E t \in Requests : CrashInCreate(t)
  PROVE  AddressInv'
  <1>1. TypeOK /\ CallsOK /\ RowSteps
    BY Parts, ClaimDueStep, TickStep, OutsideStep
  <1>2. CASE ClaimDue \/ Tick
    <2>1. CallSteps /\ UNCHANGED <<owed, beaten>>
      BY <1>1, <1>2, TakeUpStep, AgedStep DEF ClaimDue, Tick, shownVars
    <2>2. \A s \in Semesters : row'[s] \in {row[s], Postponed(row[s]), Aged(row[s])}
      BY <1>2 DEF ClaimDue, Tick
    <2>3. AddressesKept
      <3> SUFFICES ASSUME NEW s \in Semesters, row[s] # None PROVE KeepsAddress(row[s], row'[s])
        BY DEF AddressesKept
      <3>1. Keeps(row[s], Postponed(row[s])) /\ Keeps(row[s], Aged(row[s]))
        BY <1>1, KeepOps DEF TypeOK, TableOK
      <3> QED
        BY <2>2, <3>1 DEF Keeps, KeepsAddress
    <2> QED
      BY <1>1, <2>1, <2>3, Undisturbed DEF BeatenStay
  <1>3. CASE Restarted /\ (Crash \/ \E t \in Requests : CrashInCreate(t))
    <2>1. CallSteps /\ BeatenStay /\ owed' = owed
      BY <1>3 DEF Restarted, CallSteps, CallStep, BeatenStay, TypeInv, TypeOK
    <2>2. CASE row' = row
      BY <1>1, <2>1, <2>2, KeptSame, Undisturbed
    <2>3. ASSUME NEW t \in Requests, CrashInCreate(t) PROVE AddressInv'
      <3> DEFINE s == call[t].sem
                 p == call[t].pw
      <3>1. t \in Tasks /\ call[t] # None
        BY <2>3 DEF CrashInCreate, At, Tasks
      <3>2. s \in Semesters /\ p \in Passwords /\ (row[s] # None => row[s] \in Rows)
        BY <3>1, CallFacts
      <3>3. \/ row[s] = None /\ row' = [row EXCEPT ![s] = NewRow(minted + 1, p)]
            \/ Update(s, call[t].rec.id, NewPassword(row[s], p))
        BY <2>3 DEF CrashInCreate
      <3> HIDE DEF s, p
      <3>4. AddressesKept
        BY <1>1, <3>2, <3>3, KeepOps, KeptWritten, KeptUpdated
      <3> QED
        BY <1>1, <2>1, <3>4, Undisturbed
    <2> QED
      BY <2>2, <2>3, <1>3 DEF Crash
  <1> QED
    BY <1>2, <1>3 DEF Crash, CrashInCreate

LEMMA AddressStep ==
  ASSUME TypeInv, AddressInv, [Next]_vars
  PROVE  AddressInv'
  <1>1. CallsOK /\ RowSteps
    BY Parts, NextStep
  <1>2. ASSUME NEW t \in Tasks, Granted(t) PROVE AddressInv'
    <2>1. /\ call[t] # None /\ UNCHANGED <<row, owed, beaten>>
          /\ Enters(t) \/ (Moves(t, "create") /\ call[t].at = "ownerwait")
      BY <1>2 DEF Granted, OwnerLockGranted, RowLockGranted, At, shownVars
    <2>2. CallSteps
      BY <1>1, <2>1, EnterStep, MoveStep DEF CreatePoints
    <2> QED
      BY <1>1, <2>1, <2>2, KeptSame, Undisturbed DEF BeatenStay
  <1>3. ASSUME NEW t \in Tasks, Answered(t) PROVE AddressInv'
    BY <1>3, CreateAddress, ProofAddress, FetchAddress DEF Answered
  <1>4. CASE ChangePassword \/ EditTerms \/ UNCHANGED vars
    <2>1. UNCHANGED <<row, call, owed, beaten>>
      BY <1>4 DEF ChangePassword, EditTerms, vars, shownVars
    <2> QED
      BY <1>1, <2>1, KeptSame, SameCalls, Undisturbed DEF BeatenStay
  <1> QED
    BY <1>2, <1>3, <1>4, StartAddress, AtOnceAddress, SweptAddress DEF Next, Surroundings

\* Every address a reply of status(), qr(), create() or rotate() showed is that of a row, and the
\* row has a snapshot or its create() died between its commits: what was shown answers until it is
\* rotated, closed or 210 days old.
THEOREM ShownAddressServes == Spec => []AddressShownServes
  <1>1. Init => TypeInv /\ AddressInv /\ SnapshotUnlessCrashed
    BY InitInv
  <1>2. TypeInv /\ AddressInv /\ SnapshotUnlessCrashed /\ [Next]_vars
        => (TypeInv /\ AddressInv /\ SnapshotUnlessCrashed)'
    BY NextStep, AddressStep, BlobStep
  <1>3. TypeInv /\ AddressInv /\ SnapshotUnlessCrashed => AddressShownServes
    <2> SUFFICES ASSUME TypeInv, AddressInv, SnapshotUnlessCrashed, NEW k \in owed
                 PROVE  \E s \in Subscribed :
                          row[s].hash = k /\ (Feeds(row[s]) \/ row[s].over \/ row[s].id \in halved)
      BY DEF AddressShownServes
    <2>1. PICK s \in Subscribed : row[s].hash = k
      BY DEF AddressInv, Standing
    <2>2. row[s].blob \in {"yes", "no"} /\ row[s].over \in BOOLEAN
      BY DEF Subscribed, TypeInv, TypeOK, TableOK, Rows
    <2>3. row[s].blob = "no" => row[s].id \in halved
      BY DEF SnapshotUnlessCrashed
    <2> QED
      BY <2>1, <2>2, <2>3 DEF Feeds
  <1> QED
    BY <1>1, <1>2, <1>3, PTL DEF Spec

-----------------------------------------------------------------------------
(* From the rows of a timetable to the events of a feed (CalendarRules).   *)

\* A set of numbers has a least one.
LEMMA LeastOf ==
  ASSUME NEW S \in SUBSET Nat, S # {}
  PROVE  \E m \in S : \A k \in S : m <= k
  <1>1. PICK m \in S : \A k \in S : <<k, m>> \notin OpToRel(<, Nat)
    BY NatLessThanWellFounded, WFMin, Zenon
  <1>2. \A k \in S : ~(k < m)
    BY <1>1 DEF OpToRel
  <1> QED
    BY <1>2

\* What holds at 0 and is passed on from n to n + 1 holds for every number.
LEMMA NoFirstFailure ==
  ASSUME NEW T, 0 \in T, \A n \in Nat : n \in T => n + 1 \in T
  PROVE  Nat \subseteq T
  <1> SUFFICES ASSUME Nat \ T # {} PROVE FALSE
    OBVIOUS
  <1>1. PICK m \in Nat \ T : \A k \in Nat \ T : m <= k
    <2>1. Nat \ T \in SUBSET Nat
      OBVIOUS
    <2> QED
      BY <2>1, LeastOf
  <1>2. m # 0 /\ m - 1 \in Nat /\ ~(m <= m - 1)
    BY <1>1
  <1>3. m - 1 \in T
    BY <1>1, <1>2
  <1>4. (m - 1) + 1 \in T /\ (m - 1) + 1 = m
    BY <1>1, <1>2, <1>3
  <1> QED
    BY <1>1, <1>4

Run == [start : Nat, count : Nat \ {0}]
DaysOf(run) == {run.start + 7 * i : i \in 0..run.count - 1}

LEMMA RunDays ==
  ASSUME NEW run \in Run
  PROVE  /\ LastDay(run) \in Nat /\ LastDay(run) \in DaysOf(run)
         /\ \A d \in DaysOf(run) : d \in Nat /\ run.start <= d /\ d <= LastDay(run)
         /\ LET longer == [run EXCEPT !.count = @ + 1]
            IN  /\ longer \in Run /\ longer.start = run.start /\ LastDay(longer) = LastDay(run) + 7
                /\ DaysOf(longer) = DaysOf(run) \cup {LastDay(run) + 7}
  <1>1. run.start \in Nat /\ run.count \in Nat /\ run.count >= 1
    BY DEF Run
  <1>2. LastDay(run) \in Nat /\ LastDay(run) \in DaysOf(run)
    <2>1. run.count - 1 \in 0..run.count - 1
      BY <1>1
    <2> QED
      BY <1>1, <2>1 DEF LastDay, DaysOf
  <1>3. \A d \in DaysOf(run) : d \in Nat /\ run.start <= d /\ d <= LastDay(run)
    BY <1>1 DEF DaysOf, LastDay
  <1> DEFINE longer == [run EXCEPT !.count = @ + 1]
  <1>4. longer \in Run /\ longer.start = run.start /\ longer.count = run.count + 1
    BY <1>1 DEF Run
  <1> HIDE DEF longer
  <1>5. LastDay(longer) = LastDay(run) + 7
    BY <1>1, <1>4 DEF LastDay
  <1>6. DaysOf(longer) = DaysOf(run) \cup {LastDay(run) + 7}
    <2>1. 0..longer.count - 1 = (0..run.count - 1) \cup {run.count}
      BY <1>1, <1>4
    <2>2. LastDay(run) + 7 = run.start + 7 * run.count
      BY <1>1 DEF LastDay
    <2> QED
      BY <1>4, <2>1, <2>2 DEF DaysOf
  <1> QED
    BY <1>2, <1>3, <1>4, <1>5, <1>6 DEF longer

\* The runs r of the days of a set before n.
RunsCover(r, dates, n) ==
  /\ r \in Seq(Run)
  /\ \A d \in Nat : d \in dates /\ d < n <=> \E k \in 1..Len(r) : d \in DaysOf(r[k])
  /\ \A k, l \in 1..Len(r) : k < l => LastDay(r[k]) < r[l].start
  /\ \A k \in 1..Len(r) : LastDay(r[k]) < n

LEMMA LongerCovers ==
  ASSUME NEW r, NEW dates, NEW n \in Nat, RunsCover(r, dates, n), n \in dates
  PROVE  RunsCover(Longer(r, n), dates, n + 1)
  <1> DEFINE L == Len(r)
             q == Longer(r, n)
  <1>1. r \in Seq(Run) /\ L \in Nat /\ \A k \in 1..L : r[k] \in Run
    BY DEF RunsCover
  <1>2. \A k \in 1..L : LastDay(r[k]) \in Nat /\ r[k].start \in Nat
    BY <1>1, RunDays DEF Run
  <1>3. \A d \in Nat : d \in dates /\ d < n + 1 <=> d = n \/ \E k \in 1..L : d \in DaysOf(r[k])
    BY DEF RunsCover
  <1>4. CASE r # <<>> /\ Continues(Last(r), n)
    <2> DEFINE longer == [r[L] EXCEPT !.count = @ + 1]
    <2>1. L \in 1..L /\ r[L] \in Run /\ Last(r) = r[L]
      BY <1>1, <1>4 DEF Last
    <2>2. LastDay(r[L]) + 7 = n
      BY <1>2, <1>4, <2>1 DEF Continues
    <2>3. /\ longer \in Run /\ longer.start = r[L].start /\ LastDay(longer) = n
          /\ DaysOf(longer) = DaysOf(r[L]) \cup {n}
      BY <2>1, <2>2, RunDays
    <2>4. q = [r EXCEPT ![L] = longer]
      BY <1>4 DEF Longer
    <2> HIDE DEF longer
    <2>5. q \in Seq(Run) /\ Len(q) = L /\ \A k \in 1..L : q[k] = IF k = L THEN longer ELSE r[k]
      BY <1>1, <2>1, <2>3, <2>4
    <2> HIDE DEF q, L
    <2>6. \A d \in Nat : d \in dates /\ d < n + 1 <=> \E k \in 1..Len(q) : d \in DaysOf(q[k])
      BY <1>3, <2>1, <2>3, <2>5
    <2>7. \A k, l \in 1..L : k < l => LastDay(r[k]) < r[l].start
      BY DEF RunsCover, L
    <2>8. \A k, l \in 1..Len(q) : k < l => LastDay(q[k]) < q[l].start
      BY <1>1, <2>3, <2>5, <2>7
    <2>9. \A k \in 1..Len(q) : LastDay(q[k]) < n + 1
      <3>1. \A k \in 1..L : LastDay(r[k]) < n
        BY DEF RunsCover, L
      <3> QED
        BY <1>2, <2>3, <2>5, <3>1
    <2> QED
      BY <2>5, <2>6, <2>8, <2>9 DEF RunsCover, q
  <1>5. CASE ~(r # <<>> /\ Continues(Last(r), n))
    <2> DEFINE one == [start |-> n, count |-> 1]
    <2>1. one \in Run /\ one.start = n /\ LastDay(one) = n /\ DaysOf(one) = {n}
      BY DEF Run, LastDay, DaysOf
    <2>2. q = Append(r, one)
      BY <1>5 DEF Longer
    <2> HIDE DEF one
    <2>3. /\ q \in Seq(Run) /\ Len(q) = L + 1
          /\ \A k \in 1..L + 1 : q[k] = IF k = L + 1 THEN one ELSE r[k]
      BY <1>1, <2>1, <2>2
    <2>4. \A k \in 1..L : LastDay(r[k]) < n
      BY DEF RunsCover
    <2>5. \A k, l \in 1..L : k < l => LastDay(r[k]) < r[l].start
      BY DEF RunsCover
    <2> HIDE DEF q, L
    <2>6. \A d \in Nat : d \in dates /\ d < n + 1 <=> \E k \in 1..Len(q) : d \in DaysOf(q[k])
      <3>1. 1..Len(q) = (1..L) \cup {L + 1} /\ L + 1 \notin 1..L
        BY <1>1, <2>3
      <3>2. \A k \in 1..L : q[k] = r[k]
        BY <2>3, <3>1
      <3>3. q[L + 1] = one
        BY <2>3, <3>1
      <3> QED
        BY <1>3, <2>1, <3>1, <3>2, <3>3
    <2>7. \A k, l \in 1..Len(q) : k < l => LastDay(q[k]) < q[l].start
      <3> SUFFICES ASSUME NEW k \in 1..Len(q), NEW l \in 1..Len(q), k < l
                   PROVE  LastDay(q[k]) < q[l].start
        OBVIOUS
      <3>1. k \in 1..L /\ q[k] = r[k]
        BY <1>1, <2>3
      <3>2. CASE l = L + 1
        BY <2>1, <2>3, <2>4, <3>1, <3>2
      <3>3. CASE l # L + 1
        <4>1. l \in 1..L /\ q[l] = r[l]
          BY <1>1, <2>3, <3>3
        <4> QED
          BY <2>5, <3>1, <4>1
      <3> QED
        BY <3>2, <3>3
    <2>8. \A k \in 1..Len(q) : LastDay(q[k]) < n + 1
      BY <1>1, <1>2, <2>1, <2>3, <2>4
    <2> QED
      BY <2>3, <2>6, <2>7, <2>8 DEF RunsCover, q
  <1> QED
    BY <1>4, <1>5

LEMMA RunsPass ==
  ASSUME NEW r, NEW dates, NEW n \in Nat, RunsCover(r, dates, n), n \notin dates
  PROVE  RunsCover(r, dates, n + 1)
  <1>1. \A d \in Nat : d \in dates => (d < n + 1 <=> d < n)
    OBVIOUS
  <1>2. \A d \in Nat : d \in dates /\ d < n + 1 <=> \E k \in 1..Len(r) : d \in DaysOf(r[k])
    <2> DEFINE OnADay(d) == \E k \in 1..Len(r) : d \in DaysOf(r[k])
    <2>1. \A d \in Nat : d \in dates /\ d < n <=> OnADay(d)
      BY DEF RunsCover
    <2> HIDE DEF OnADay
    <2>2. \A d \in Nat : d \in dates /\ d < n + 1 <=> OnADay(d)
      BY <1>1, <2>1
    <2> QED
      BY <2>2 DEF OnADay
  <1>3. \A k \in 1..Len(r) : LastDay(r[k]) < n + 1
    <2>1. \A k \in 1..Len(r) : r[k] \in Run /\ LastDay(r[k]) < n
      BY DEF RunsCover
    <2>2. \A k \in 1..Len(r) : LastDay(r[k]) \in Nat
      BY <2>1, RunDays
    <2> QED
      BY <2>1, <2>2
  <1> QED
    BY <1>2, <1>3 DEF RunsCover

\* The function that WeeklyRuns defines exists: up to 0, and up to n + 1 if up to n.
RunsFrom(dates, f, end) ==
  f = [n \in 0..end |->
         IF n = 0 THEN <<>>
         ELSE IF n - 1 \in dates THEN Longer(f[n - 1], n - 1) ELSE f[n - 1]]

LEMMA RunsDefined ==
  ASSUME NEW dates, NEW end \in Nat
  PROVE  \E f : RunsFrom(dates, f, end)
  <1> DEFINE T == {n \in Nat : \E f : RunsFrom(dates, f, n)}
             g(f, n) == IF n - 1 \in dates THEN Longer(f[n - 1], n - 1) ELSE f[n - 1]
  <1>1. 0 \in T
    <2>1. RunsFrom(dates, [n \in 0..0 |-> <<>>], 0)
      BY DEF RunsFrom
    <2> QED
      BY <2>1
  <1>2. ASSUME NEW n \in Nat, n \in T PROVE n + 1 \in T
    <2>1. PICK f : RunsFrom(dates, f, n)
      BY <1>2
    <2> DEFINE h == [m \in 0..n + 1 |-> IF m = n + 1 THEN g(f, n + 1) ELSE f[m]]
    <2>2. \A m \in 0..n : f[m] = IF m = 0 THEN <<>> ELSE g(f, m)
      BY <2>1 DEF RunsFrom
    <2>3. \A m \in 0..n + 1 : m # 0 => m - 1 \in 0..n /\ h[m - 1] = f[m - 1]
      OBVIOUS
    <2>4. \A m \in 0..n + 1 : m # 0 => g(h, m) = g(f, m)
      BY <2>3
    <2>5. \A m \in 0..n + 1 : h[m] = IF m = 0 THEN <<>> ELSE g(h, m)
      BY <2>2, <2>4
    <2>6. h = [m \in 0..n + 1 |-> h[m]]
      OBVIOUS
    <2> HIDE DEF h
    <2>7. RunsFrom(dates, h, n + 1)
      BY <2>5, <2>6 DEF RunsFrom
    <2> QED
      BY <2>7
  <1> HIDE DEF T
  <1>3. Nat \subseteq T
    BY <1>1, <1>2, NoFirstFailure
  <1> QED
    BY <1>3 DEF T

LEMMA WeeklyRunsCover ==
  ASSUME NEW dates, NEW end \in Nat
  PROVE  RunsCover(WeeklyRuns(dates, end), dates, end)
  <1> DEFINE f == CHOOSE f : RunsFrom(dates, f, end)
             T == {n \in Nat : n <= end => RunsCover(f[n], dates, n)}
  <1>1. RunsFrom(dates, f, end)
    BY RunsDefined
  <1>2. WeeklyRuns(dates, end) = f[end]
    BY DEF WeeklyRuns, RunsFrom
  <1> HIDE DEF f
  <1>3. 0 \in T
    <2>1. f[0] = <<>>
      BY <1>1 DEF RunsFrom
    <2>2. <<>> \in Seq(Run) /\ 1..Len(<<>>) = {} /\ \A d \in Nat : ~(d < 0)
      OBVIOUS
    <2>3. RunsCover(<<>>, dates, 0)
      BY <2>2 DEF RunsCover
    <2> QED
      BY <2>1, <2>3
  <1>4. ASSUME NEW n \in Nat, n \in T PROVE n + 1 \in T
    <2> SUFFICES ASSUME n + 1 <= end PROVE RunsCover(f[n + 1], dates, n + 1)
      OBVIOUS
    <2>1. RunsCover(f[n], dates, n)
      BY <1>4
    <2>2. f[n + 1] = IF n \in dates THEN Longer(f[n], n) ELSE f[n]
      BY <1>1 DEF RunsFrom
    <2> QED
      BY <2>1, <2>2, LongerCovers, RunsPass
  <1> HIDE DEF T
  <1>5. end \in T
    BY <1>3, <1>4, NoFirstFailure
  <1> QED
    BY <1>2, <1>5 DEF T

\* Of finitely many numbers one is the greatest.
LEMMA GreatestAt ==
  ASSUME NEW K, IsFiniteSet(K), NEW f, \A p \in K : f[p] \in Nat
  PROVE  K # {} => \E p \in K : \A q \in K : f[q] <= f[p]
  <1> DEFINE Greatest(S) == \E p \in S : \A q \in S : f[q] <= f[p]
             T == {n \in Nat : \A S \in SUBSET K : Cardinality(S) = n /\ S # {} => Greatest(S)}
  <1>1. \A S \in SUBSET K : IsFiniteSet(S) /\ Cardinality(S) \in Nat
    BY FS_Subset, FS_CardinalityType
  <1>2. 0 \in T
    BY <1>1, FS_EmptySet
  <1>3. ASSUME NEW n \in Nat, n \in T PROVE n + 1 \in T
    <2> SUFFICES ASSUME NEW S \in SUBSET K, Cardinality(S) = n + 1, NEW x \in S PROVE Greatest(S)
      OBVIOUS
    <2> DEFINE R == S \ {x}
    <2>1. Cardinality(R) = n /\ R \in SUBSET K
      <3>1. IsFiniteSet(S) /\ x \in S
        BY <1>1
      <3>2. Cardinality(R) = Cardinality(S) - 1
        BY <3>1, FS_RemoveElement
      <3> QED
        BY <3>2
    <2>2. CASE R = {}
      <3>1. S = {x} /\ f[x] \in Nat
        BY <2>2
      <3> QED
        BY <3>1
    <2>3. CASE R # {}
      <3>1. PICK y \in R : \A q \in R : f[q] <= f[y]
        BY <1>3, <2>1, <2>3
      <3>2. f[x] \in Nat /\ f[y] \in Nat /\ \A q \in S : f[q] \in Nat
        BY <2>1
      <3>3. CASE f[x] <= f[y]
        <4>1. \A q \in S : f[q] <= f[y]
          BY <3>1, <3>3
        <4> QED
          BY <4>1
      <3>4. CASE ~(f[x] <= f[y])
        <4>1. \A q \in S : f[q] <= f[x]
          BY <3>1, <3>2, <3>4
        <4> QED
          BY <4>1
      <3> QED
        BY <3>3, <3>4
    <2> QED
      BY <2>2, <2>3
  <1> HIDE DEF T
  <1>4. Cardinality(K) \in T
    BY <1>1, <1>2, <1>3, NoFirstFailure
  <1> QED
    BY <1>4 DEF T

\* period_window spans the periods of the table.
LEMMA WindowSpans ==
  ASSUME NEW table, IsFiniteSet(DOMAIN table), \A p \in DOMAIN table : table[p] \in Nat \X Nat,
         NEW periods, NEW p \in periods \cap DOMAIN table
  PROVE  LET w == PeriodWindow(periods, table) IN w # <<>> /\ w[1] <= table[p][1] /\ table[p][2] <= w[2]
  <1> DEFINE K == periods \cap DOMAIN table
             B == {table[q][1] : q \in K}
             E == {table[q][2] : q \in K}
             b == CHOOSE t \in B : \A q \in K : t <= table[q][1]
             e == CHOOSE t \in E : \A q \in K : t >= table[q][2]
  <1>1. IsFiniteSet(K) /\ K # {} /\ p \in K
    BY FS_Subset
  <1>2. \A q \in K : table[q][1] \in Nat /\ table[q][2] \in Nat
    OBVIOUS
  <1>3. PeriodWindow(periods, table) = <<b, e>>
    BY DEF PeriodWindow
  <1>4. \A q \in K : b <= table[q][1]
    <2>1. B \in SUBSET Nat /\ B # {}
      BY <1>1, <1>2
    <2>2. PICK m \in B : \A k \in B : m <= k
      BY <2>1, LeastOf
    <2>3. \A q \in K : m <= table[q][1]
      BY <2>2
    <2> QED
      BY <2>3
  <1>5. \A q \in K : e >= table[q][2]
    <2> DEFINE f == [q \in K |-> table[q][2]]
    <2>1. \A q \in K : f[q] = table[q][2] /\ f[q] \in Nat
      BY <1>2
    <2> HIDE DEF f
    <2>2. PICK r \in K : \A q \in K : f[q] <= f[r]
      BY <1>1, <2>1, GreatestAt
    <2>3. \A q \in K : f[r] >= table[q][2]
      BY <1>2, <2>1, <2>2
    <2>4. \E t \in E : \A q \in K : t >= table[q][2]
      BY <2>1, <2>3
    <2> QED
      BY <2>4
  <1> HIDE DEF b, e, K
  <1> QED
    BY <1>1, <1>2, <1>3, <1>4, <1>5

\* A timetable's row, a term and a configuration as their readers make them.
Row == [day : -1..6, segments : SUBSET (Int \X Int), parity : {"any", "odd", "even"},
        course : SUBSET Int, block : SUBSET Int]
Term == [weeks : Nat, start : Nat, exdates : SUBSET Int]
IsConfig(cfg) ==
  /\ IsFiniteSet(DOMAIN cfg.table) /\ \A p \in DOMAIN cfg.table : cfg.table[p] \in Nat \X Nat

LEMMA DatesAreLessons ==
  ASSUME NEW entry \in Row, NEW term \in Term, entry.day # -1,
         NEW weeks, weeks = ParseWeeks(entry.segments, entry.parity, term.weeks), weeks # Error
  PROVE  /\ OccurrenceDates(term, entry.day, weeks)
              = {d \in 0..(7 * term.weeks - 1) : Lesson(d, entry, term)}
         /\ \A d \in OccurrenceDates(term, entry.day, weeks) : d \in Nat /\ d < 7 * term.weeks
  <1> DEFINE all == UNION {s[1]..s[2] : s \in entry.segments}
             dates == OccurrenceDates(term, entry.day, weeks)
             Admits(w) == entry.parity = "any" \/ (w % 2 = 1) = (entry.parity = "odd")
  <1>1. /\ entry.day \in 0..6 /\ term.weeks \in Nat /\ term.start \in Nat
        /\ \A s \in entry.segments : s[1] \in Int /\ s[2] \in Int
        /\ entry.parity \in {"any", "odd", "even"}
    <2>1. /\ entry.day \in -1..6 /\ entry.parity \in {"any", "odd", "even"}
          /\ entry.segments \in SUBSET (Int \X Int)
      BY DEF Row
    <2>2. term.weeks \in Nat /\ term.start \in Nat
      BY DEF Term
    <2>3. \A s \in entry.segments : s \in Int \X Int
      BY <2>1
    <2> QED
      BY <2>1, <2>2, <2>3
  <1>2. /\ weeks = OfParity(all, entry.parity)
        /\ \A s \in entry.segments : 1 <= s[1]
        /\ \A w \in all : w <= term.weeks
    BY <1>1 DEF ParseWeeks
  <1>3. \A w \in all : w \in Int
    BY <1>1
  <1>4. \A w \in Int : w \in all <=> \E s \in entry.segments : s[1] <= w /\ w <= s[2]
    BY <1>1
  <1>5. \A w \in all : 1 <= w /\ w <= term.weeks
    BY <1>1, <1>2, <1>3, <1>4
  <1>6. \A w \in Int : w \in weeks <=> w \in all /\ Admits(w)
    BY <1>1, <1>2, <1>3 DEF OfParity
  <1>7. weeks \subseteq all
    BY <1>2 DEF OfParity
  <1> HIDE DEF all
  <1>8. ASSUME NEW d \in dates PROVE d \in 0..(7 * term.weeks - 1) /\ Lesson(d, entry, term)
    <2>1. PICK w \in weeks : d = 7 * (w - 1) + entry.day
      BY <1>8 DEF OccurrenceDates
    <2>2. d >= term.start /\ d \notin term.exdates
      BY <1>8 DEF OccurrenceDates
    <2>3. w \in Int /\ 1 <= w /\ w <= term.weeks
      BY <1>3, <1>5, <1>7
    <2>4. d \in Int /\ 0 <= d /\ d <= 7 * term.weeks - 1 /\ d % 7 = entry.day /\ d \div 7 + 1 = w
      BY <1>1, <2>1, <2>3
    <2>5. (\E s \in entry.segments : s[1] <= w /\ w <= s[2]) /\ Admits(w)
      BY <1>4, <1>6, <1>7, <2>3
    <2> HIDE DEF dates
    <2>6. d \in 0..(7 * term.weeks - 1)
      BY <1>1, <2>4
    <2> QED
      BY <2>2, <2>4, <2>5, <2>6 DEF Lesson
  <1>9. ASSUME NEW d \in 0..(7 * term.weeks - 1), Lesson(d, entry, term) PROVE d \in dates
    <2> DEFINE w == d \div 7 + 1
    <2>1. w \in Int /\ d \in Int /\ d % 7 = entry.day /\ d = 7 * (w - 1) + (d % 7)
      <3>1. d \in Int /\ d % 7 = entry.day
        BY <1>1, <1>9 DEF Lesson
      <3>2. d \div 7 \in Int /\ d = 7 * (d \div 7) + (d % 7)
        BY <3>1
      <3> QED
        BY <3>1, <3>2
    <2>2. (\E s \in entry.segments : s[1] <= w /\ w <= s[2]) /\ Admits(w)
      BY <1>9 DEF Lesson
    <2>3. d >= term.start /\ d \notin term.exdates
      BY <1>9 DEF Lesson
    <2> HIDE DEF w
    <2>4. w \in weeks
      BY <1>4, <1>6, <2>1, <2>2
    <2>5. d = 7 * (w - 1) + entry.day
      BY <2>1
    <2>6. d \in {7 * (v - 1) + entry.day : v \in weeks}
      BY <2>4, <2>5
    <2> QED
      BY <2>3, <2>6 DEF OccurrenceDates
  <1> QED
    BY <1>1, <1>8, <1>9

LEMMA RowShowsLessons ==
  ASSUME NEW entry \in Row, NEW term \in Term, NEW cfg, IsConfig(cfg)
  PROVE  EventsShowLessons(entry, term, cfg)
  <1> DEFINE periods == ResolvePeriods(entry.course, entry.block, cfg.onConflict)
             window  == PeriodWindow(periods, cfg.table)
             weeks   == ParseWeeks(entry.segments, entry.parity, term.weeks)
             noted   == IF Conflict(entry.course, entry.block) THEN 1 ELSE 0
             end     == 7 * term.weeks
             dates   == OccurrenceDates(term, entry.day, weeks)
             runs    == WeeklyRuns(dates, end)
             events  == [i \in 1..Len(runs) |-> [run |-> runs[i], window |-> window]]
             built   == BuildEvents(entry, term, cfg)
             lessons == {d \in 0..(7 * term.weeks - 1) : Lesson(d, entry, term)}
             Built   == entry.day # -1 /\ periods # Error /\ window # <<>> /\ weeks # Error
  <1>1. CASE ~Built
    <2>1. built.events = <<>> /\ built.anomalies > 0
      BY <1>1 DEF BuildEvents, Nothing
    <2>2. DOMAIN built.events = {}
      BY <2>1
    <2> HIDE DEF built
    <2> QED
      BY <2>1, <2>2 DEF EventsShowLessons, built
  <1>2. CASE Built
    <2>1. built = [events |-> events, anomalies |-> noted]
      BY <1>2 DEF BuildEvents
    <2>2. end \in Nat
      BY DEF Term
    <2>3. dates = lessons /\ \A d \in dates : d \in Nat /\ d < end
      BY <1>2, DatesAreLessons
    <2>4. RunsCover(runs, dates, end)
      BY <2>2, WeeklyRunsCover
    <2> HIDE DEF dates, runs, end, lessons, window, periods
    <2>5. /\ runs \in Seq(Run) /\ Len(runs) \in Nat
          /\ \A i \in 1..Len(runs) : runs[i] \in Run
      BY <2>4 DEF RunsCover
    <2>6. DOMAIN events = 1..Len(runs) /\ \A i \in 1..Len(runs) :
            events[i].window = window /\ Expansion(events[i]) = DaysOf(runs[i])
      BY DEF Expansion, DaysOf
    <2>7. \A i, j \in 1..Len(runs) : i # j => DaysOf(runs[i]) \cap DaysOf(runs[j]) = {}
      <3>1. \A i, j \in 1..Len(runs) : i < j => LastDay(runs[i]) < runs[j].start
        BY <2>4 DEF RunsCover
      <3>2. \A i, j \in 1..Len(runs) : i < j => DaysOf(runs[i]) \cap DaysOf(runs[j]) = {}
        <4> SUFFICES ASSUME NEW i \in 1..Len(runs), NEW j \in 1..Len(runs), i < j,
                            NEW d \in DaysOf(runs[i]), d \in DaysOf(runs[j])
                     PROVE  FALSE
          OBVIOUS
        <4>1. d \in Nat /\ d <= LastDay(runs[i]) /\ runs[j].start <= d /\ LastDay(runs[i]) \in Nat
          BY <2>5, RunDays
        <4>2. runs[j].start \in Nat /\ LastDay(runs[i]) < runs[j].start
          BY <2>5, <3>1 DEF Run
        <4> QED
          BY <4>1, <4>2
      <3>3. \A i, j \in 1..Len(runs) : i # j => i < j \/ j < i
        BY <2>5
      <3> QED
        BY <3>2, <3>3, Zenon
    <2>8. UNION {DaysOf(runs[i]) : i \in 1..Len(runs)} = lessons
      <3>1. \A d \in Nat : d \in dates /\ d < end <=> \E k \in 1..Len(runs) : d \in DaysOf(runs[k])
        BY <2>4 DEF RunsCover
      <3>2. \A i \in 1..Len(runs) : \A d \in DaysOf(runs[i]) : d \in Nat
        BY <2>5, RunDays
      <3>3. \A d : d \in lessons <=> d \in Nat /\ d \in dates /\ d < end
        BY <2>3
      <3> QED
        BY <3>1, <3>2, <3>3
    <2>9. \A p \in periods : p \in DOMAIN cfg.table =>
            window[1] <= cfg.table[p][1] /\ cfg.table[p][2] <= window[2]
      BY WindowSpans DEF IsConfig, window
    <2> HIDE DEF events, built, noted
    <2>10. built.events = events
      BY <2>1
    <2> DEFINE shown == [i \in DOMAIN built.events |-> Expansion(built.events[i])]
    <2>11. DOMAIN shown = 1..Len(runs) /\ \A i \in 1..Len(runs) : shown[i] = DaysOf(runs[i])
      BY <2>6, <2>10
    <2> HIDE DEF shown
    <2>12. UNION {shown[i] : i \in DOMAIN shown} = lessons
      BY <2>8, <2>11
    <2>13. \A i, j \in DOMAIN shown : i # j => shown[i] \cap shown[j] = {}
      BY <2>7, <2>11
    <2>14. built.events = <<>> => lessons = {}
      BY <2>6, <2>8, <2>10
    <2>15. \A i \in DOMAIN built.events, p \in periods :
             p \in DOMAIN cfg.table => /\ built.events[i].window[1] <= cfg.table[p][1]
                                       /\ cfg.table[p][2] <= built.events[i].window[2]
      BY <2>6, <2>9, <2>10
    <2> QED
      BY <2>12, <2>13, <2>14, <2>15 DEF EventsShowLessons, shown, built, lessons, periods
  <1> QED
    BY <1>1, <1>2

LEMMA RunsRowsAreRows ==
  /\ WeekRows \subseteq Row /\ PeriodRows \subseteq Row /\ MCTerms \subseteq Term
  /\ \A cfg \in MCConfigs : IsConfig(cfg)
  <1>1. MCSegments \subseteq SUBSET (Int \X Int)
    <2> SUFFICES ASSUME NEW a \in (0..5) \X (0..5), NEW b \in (0..5) \X (0..5)
                 PROVE  {a, b} \in SUBSET (Int \X Int)
      BY DEF MCSegments
    <2> QED
      OBVIOUS
  <1>2. WeekRows \subseteq Row
    <2>1. {0, 1} \subseteq -1..6 /\ {{1}} \subseteq SUBSET Int /\ {{}} \subseteq SUBSET Int
      OBVIOUS
    <2> QED
      BY <1>1, <2>1 DEF WeekRows, Row
  <1>3. PeriodRows \subseteq Row
    <2>1. /\ {-1, 0} \subseteq -1..6 /\ SUBSET (1..3) \subseteq SUBSET Int /\ {{}, {1, 2}} \subseteq SUBSET Int
          /\ {{}, {<<1, 2>>}} \subseteq SUBSET (Int \X Int)
      OBVIOUS
    <2> QED
      BY <2>1 DEF PeriodRows, Row
  <1>4. MCTerms \subseteq Term
    BY DEF MCTerms, Term
  <1>5. ASSUME NEW cfg \in MCConfigs PROVE IsConfig(cfg)
    <2>1. PICK n \in {1, 3}, c \in {"skip", "trust_course"} :
            cfg = [table |-> [p \in 1..n |-> <<2 * p, 2 * p + 1>>], onConflict |-> c]
      BY DEF MCConfigs
    <2>2. DOMAIN cfg.table = 1..n /\ 1 \in Int /\ n \in Int
      BY <2>1
    <2>3. IsFiniteSet(DOMAIN cfg.table)
      BY <2>2, FS_Interval
    <2>4. ASSUME NEW p \in 1..n PROVE cfg.table[p] \in Nat \X Nat
      BY <2>1, <2>4
    <2> QED
      BY <2>2, <2>3, <2>4 DEF IsConfig
  <1> QED
    BY <1>2, <1>3, <1>4, <1>5

\* Every row of a timetable, whatever weeks, parity, periods, first day of teaching and days off:
\* the events of a feed show its lessons, each once and none else; a row with lessons that has no
\* event is reported; and no known period is outside the event (rules.py, ics.py); and so do the
\* feeds of the service (EventsAreLessons).
THEOREM FeedsShowLessons ==
  /\ \A entry \in Row, term \in Term : \A cfg : IsConfig(cfg) => EventsShowLessons(entry, term, cfg)
  /\ Spec => []EventsAreLessons
  <1>1. \A entry \in Row, term \in Term : \A cfg : IsConfig(cfg) => EventsShowLessons(entry, term, cfg)
    BY RowShowsLessons
  <1>2. AllEvents
    BY <1>1, RunsRowsAreRows DEF AllEvents
  <1>3. EventsAreLessons
    BY <1>2 DEF EventsAreLessons
  <1> QED
    BY <1>1, <1>3, PTL
=============================================================================
