--------------------------- MODULE SessionProofs ---------------------------
(***************************************************************************)
(* Theorems about SessionStore, for any users, threads and limits.         *)
(***************************************************************************)
EXTENDS SessionStore, FiniteSetTheorems, TLAPS

Live(s)     == hash[s].full /\ hash[s].life = "young"
Unlisted(s) == hash[s].full /\ ~hash[s].listed
LiveNext(s)     == hash'[s].full /\ hash'[s].life = "young"
UnlistedNext(s) == hash'[s].full /\ ~hash'[s].listed
Probing     == {"cold", "student", "refresh", "ask", "slide", "invalidate", "confirm"}
LoginOnly   == {"confirm", "school", "verify"} \cup Storing
Quiet       == outlived = 0 /\ crashes = 0

\* Where a call can be, and whose session it has.
Placed ==
  \A c \in Calls :
    /\ call[c].at = "idle" => ~IsLogin(c)
    /\ call[c].at \in LoginOnly => IsLogin(c)
    /\ call[c].at \notin {"idle", "school"} =>
         call[c].sid \in 1..Len(logins) /\ (IsLogin(c) => logins[call[c].sid] = call[c].user)

\* A login has its user's lock until a lease runs out under its holder.
Locked == outlived = 0 => \A c \in Calls : IsLogin(c) => lock[call[c].user] = c

\* The school accepts a user's latest login or none.
Latest(u, s) == \A r \in 1..Len(logins) : logins[r] = u => r <= s
SchoolLatest ==
  \A u \in Users : school[u] # 0 =>
    school[u] \in 1..Len(logins) /\ logins[school[u]] = u /\ Latest(u, school[u])

\* A login whose probe was answered has the user's latest login.
Probed ==
  outlived = 0 => \A c \in Calls :
    IsLogin(c) /\ call[c].at \in {"slide", "confirm"} => Latest(call[c].user, call[c].sid)

\* A session is out of its user's set only while it is being stored; a login that probes has
\* the session the school accepts, unless that one cannot be reused.
ListedSoon ==
  Quiet => \A s \in Sids : Unlisted(s) => \E c \in Calls : call[c].at = "sadd" /\ call[c].sid = s
KnowsBest ==
  Quiet => \A c \in Calls : IsLogin(c) /\ call[c].at \in Probing =>
    LET s == school[call[c].user] IN s = 0 \/ s = call[c].sid \/ ~Live(s)

Inv == TypeOK /\ Placed /\ Locked /\ SchoolLatest /\ Probed /\ ListedSoon /\ KnowsBest /\ NoSelfKick

-----------------------------------------------------------------------------
(* What the commands do to the hashes and the index.                       *)

\* No session becomes reusable, and none falls out of its user's set.
HashMove ==
  /\ hash' \in [Sids -> Hash \cup {Absent}] /\ index' \subseteq Sids
  /\ \A s \in Sids : (LiveNext(s) => Live(s)) /\ (UnlistedNext(s) => Unlisted(s))

LEMMA SameStore ==
  ASSUME TypeOK, UNCHANGED store PROVE HashMove
  BY DEF TypeOK, store, HashMove, Live, LiveNext, Unlisted, UnlistedNext

LEMMA DropMove ==
  ASSUME TypeOK, NEW s, Drop(s) PROVE HashMove /\ (s \in Sids => ~LiveNext(s))
  BY DEF TypeOK, Drop, HashMove, Live, LiveNext, Unlisted, UnlistedNext, Absent

LEMMA GetMoves ==
  ASSUME TypeOK, NEW s
  PROVE  /\ Found(s) => HashMove
         /\ Missing(s) => HashMove /\ (s \in Sids => ~LiveNext(s))
  <1>1. ASSUME Found(s) PROVE HashMove
    BY <1>1, SameStore DEF Found
  <1>2. ASSUME Missing(s), ~Stored(s) PROVE HashMove /\ (s \in Sids => ~LiveNext(s))
    <2>1. UNCHANGED store
      BY <1>2 DEF Missing
    <2> QED
      BY <1>2, <2>1, SameStore DEF Stored, Live, LiveNext, Absent, store
  <1>3. ASSUME Missing(s), Stored(s) PROVE HashMove /\ (s \in Sids => ~LiveNext(s))
    BY <1>3, DropMove DEF Missing
  <1> QED
    BY <1>1, <1>2, <1>3

LEMMA WriteMoves ==
  ASSUME TypeOK, NEW s, UNCHANGED index,
         \/ hash' = [hash EXCEPT ![s] = WithExp(@)]
         \/ hash' = [hash EXCEPT ![s] = WithPortal(@)]
  PROVE  HashMove
  <1>1. \A r \in Sids : hash[r] \in Hash \cup {Absent}
    BY DEF TypeOK
  <1> DEFINE Same(h, k) == /\ k \in Hash /\ k.full = h.full /\ k.listed = h.listed
                           /\ k.life = "young" => h.life = "young"
  <1>2. \A h \in Hash \cup {Absent} : Same(h, WithExp(h)) /\ Same(h, WithPortal(h))
    <2>1. ASSUME NEW h \in Hash PROVE Same(h, WithExp(h))
      BY <2>1 DEF Hash, WithExp
    <2>2. ASSUME NEW h \in Hash PROVE Same(h, WithPortal(h))
      <3>1. h # Absent
        BY <2>2 DEF Hash, Absent
      <3> QED
        BY <2>2, <3>1 DEF Hash, WithPortal
    <2>3. Same(Absent, WithExp(Absent))
      BY DEF Hash, Absent, WithExp
    <2>4. Same(Absent, WithPortal(Absent))
      BY DEF Hash, Absent, WithPortal
    <2> QED
      BY <2>1, <2>2, <2>3, <2>4
  <1>3. /\ DOMAIN hash' = Sids /\ hash' = [r \in Sids |-> hash'[r]]
        /\ \A r \in Sids : hash'[r] \in {hash[r], WithExp(hash[r]), WithPortal(hash[r])}
    BY DEF TypeOK
  <1>4. \A r \in Sids :
          /\ hash'[r] \in Hash \cup {Absent}
          /\ hash'[r].full = hash[r].full /\ hash'[r].listed = hash[r].listed
          /\ hash'[r].life = "young" => hash[r].life = "young"
    BY <1>1, <1>2, <1>3
  <1>5. hash' \in [Sids -> Hash \cup {Absent}]
    BY <1>3, <1>4
  <1> QED
    BY <1>4, <1>5 DEF TypeOK, HashMove, Live, LiveNext, Unlisted, UnlistedNext

LEMMA ListMove ==
  ASSUME TypeOK, NEW s, UNCHANGED index,
         hash' = IF Stored(s) THEN [hash EXCEPT ![s].listed = TRUE] ELSE hash
  PROVE  HashMove /\ (s \in Sids => ~UnlistedNext(s))
  <1> DEFINE Lists(h) == [h EXCEPT !.listed = TRUE]
  <1>1. \A r \in Sids : hash[r] \in Hash \cup {Absent}
    BY DEF TypeOK
  <1>2. \A h \in Hash : /\ Lists(h) \in Hash /\ Lists(h).listed
                        /\ Lists(h).full = h.full /\ Lists(h).life = h.life
    BY DEF Hash
  <1>3. CASE Stored(s) /\ s \in Sids
    <2>1. hash' = [hash EXCEPT ![s] = Lists(hash[s])] /\ hash[s] \in Hash
      BY <1>1, <1>3 DEF Stored
    <2> HIDE DEF Lists
    <2>2. \A r \in Sids : hash'[r] = IF r = s THEN Lists(hash[s]) ELSE hash[r]
      BY <2>1 DEF TypeOK
    <2> QED
      BY <1>1, <1>2, <2>1, <2>2 DEF TypeOK, HashMove, Live, LiveNext, Unlisted, UnlistedNext
  <1>4. CASE ~(Stored(s) /\ s \in Sids)
    <2>1. hash' = hash
      BY <1>4 DEF TypeOK
    <2>2. s \in Sids => hash[s] = Absent
      BY <1>4 DEF Stored
    <2> QED
      BY <1>1, <2>1, <2>2, SameStore DEF store, HashMove, Live, LiveNext, Unlisted, UnlistedNext, Absent
  <1> QED
    BY <1>3, <1>4

-----------------------------------------------------------------------------
(* What the steps of a call do to the calls and the locks.                 *)

Others(c) == \A d \in Calls : d # c => call'[d] = call[d]

\* A call loses nothing but its own lock, and only at its end.
LocksKept(c) ==
  /\ lock' \in [Users -> Calls \cup {Nobody, "left"}]
  /\ \A u \in Users : lock'[u] = lock[u] \/ (lock[u] = c /\ call'[c].user = Nobody)

CallMove(c) == call' \in [Calls -> Call] /\ Others(c) /\ LocksKept(c)

LEMMA NoCallType == NoCall \in Call
  BY BoundsAssumption DEF NoCall, Call, Points

LEMMA GoesMove ==
  ASSUME TypeOK, NEW c \in Calls, NEW p \in Points, Goes(c, p)
  PROVE  /\ CallMove(c) /\ call'[c].at = p /\ call'[c].user = call[c].user
         /\ call'[c].sid = call[c].sid /\ call'[c].shaky = call[c].shaky
  <1>1. call[c] \in Call /\ call' = [call EXCEPT ![c] = [call[c] EXCEPT !.at = p]]
    BY DEF TypeOK, Goes
  <1>2. [call[c] EXCEPT !.at = p] \in Call
    BY <1>1 DEF Call
  <1> QED
    BY <1>1, <1>2 DEF TypeOK, Goes, CallMove, Others, LocksKept, Call

LEMMA EndsMove ==
  ASSUME TypeOK, NEW c \in Calls, Ends(c)
  PROVE  CallMove(c) /\ call'[c] = NoCall
  <1>1. call'[c] = NoCall /\ call' \in [Calls -> Call] /\ Others(c)
    BY NoCallType DEF TypeOK, Ends, Others
  <1>2. LocksKept(c)
    BY <1>1 DEF TypeOK, Ends, Release, LocksKept, NoCall
  <1> QED
    BY <1>1, <1>2 DEF CallMove

LEMMA SetMove ==
  ASSUME TypeOK, NEW c \in Calls, NEW k \in Call, call' = [call EXCEPT ![c] = k], UNCHANGED lock
  PROVE  CallMove(c) /\ call'[c] = k
  BY DEF TypeOK, CallMove, Others, LocksKept

\* A step of a call that neither starts it nor logs in at the school nor stores the hash.
Steady == UNCHANGED <<logins, school, bounds>>
Stops(c) == call'[c].at = "idle" /\ call'[c].user = Nobody /\ call[c].at # "sadd"
GoesOn(c) ==
  /\ call[c].at \notin {"idle", "school"} /\ call'[c].at # "idle"
  /\ call'[c].sid = call[c].sid
  /\ \/ call'[c].user = call[c].user
     \/ call'[c].user = Nobody /\ call'[c].at = "warmup"
  /\ call'[c].at \in LoginOnly => IsLogin(c)
  /\ call[c].at = "sadd" => ~UnlistedNext(call[c].sid)
  /\ call'[c].at \in Probing /\ IsLogin(c) => call[c].at \in Probing
  /\ call'[c].at \in {"slide", "confirm"} /\ IsLogin(c) =>
       call[c].at \in {"slide", "confirm"} \/ Alive(call[c].sid)
  /\ call'[c].at = "school" /\ ~call'[c].shaky =>
       call[c].at \in Probing /\ ~LiveNext(call[c].sid)
Plain(c) == HashMove /\ CallMove(c) /\ Steady /\ (Stops(c) \/ GoesOn(c))

LEMMA PlainKeeps ==
  ASSUME Inv, NEW c \in Calls, Plain(c) PROVE Inv'
  <1> USE DEF Plain, Steady, bounds
  <1>1. TypeOK'
    BY DEF Inv, TypeOK, HashMove, CallMove, LocksKept
  <1>2. \A d \in Calls : /\ call[d] \in Call /\ call'[d] \in Call
                         /\ d # c => call'[d] = call[d]
    BY DEF Inv, TypeOK, CallMove, Others
  <1>3. Placed'
    BY <1>2 DEF Inv, Placed, IsLogin, Stops, GoesOn, LoginOnly, Storing
  <1>4. Locked'
    BY <1>2, NobodyAssumption DEF Inv, Locked, IsLogin, Stops, GoesOn, CallMove, LocksKept, Call
  <1>5. SchoolLatest'
    BY DEF Inv, SchoolLatest, Latest
  <1>6. Probed'
    BY <1>2 DEF Inv, Probed, Placed, SchoolLatest, Latest, IsLogin, Stops, GoesOn, Alive, Owner, Call
  <1>7. ListedSoon'
    BY <1>2 DEF Inv, ListedSoon, Quiet, HashMove, Stops, GoesOn, Unlisted, UnlistedNext
  <1>8. \A u \in Users : school[u] # 0 => school[u] \in Sids
    BY DEF Inv, TypeOK, Sids
  <1>9. KnowsBest'
    BY <1>2, <1>8 DEF Inv, KnowsBest, Quiet, HashMove, IsLogin, Stops, GoesOn, Call, Probing,
                     Live, LiveNext
  <1>10. NoSelfKick'
    BY <1>2, <1>8 DEF Inv, NoSelfKick, KnowsBest, Placed, Quiet, HashMove, IsLogin, Stops, GoesOn,
                     Call, Live, LiveNext, LoginOnly
  <1> QED
    BY <1>1, <1>3, <1>4, <1>5, <1>6, <1>7, <1>9, <1>10 DEF Inv

-----------------------------------------------------------------------------
(* The use of a session.                                                   *)

LEMMA SidKnown ==
  ASSUME Inv, NEW c \in Calls, call[c].at \notin {"idle", "school"}
  PROVE  call[c].sid \in Sids /\ (~Stored(call[c].sid) => ~Live(call[c].sid))
  <1>1. call[c].sid \in 1..Len(logins) /\ Len(logins) \in Nat /\ Len(logins) <= MaxLogins
    BY DEF Inv, Placed, TypeOK
  <1>2. call[c].sid \in Sids
    BY <1>1, BoundsAssumption DEF Sids
  <1> QED
    BY <1>2 DEF Stored, Live, LiveNext, Absent

LEMMA PassKeeps ==
  ASSUME Inv, NEW c \in Calls, NEW p \in Probing, call[c].at \in Probing, Goes(c, p),
         HashMove, Steady, p = "confirm" => IsLogin(c),
         p \in {"slide", "confirm"} /\ IsLogin(c) =>
           call[c].at \in {"slide", "confirm"} \/ Alive(call[c].sid)
  PROVE  Inv'
  <1>1. p \in Points
    BY DEF Points, Probing
  <1> QED
    BY <1>1, GoesMove, PlainKeeps
       DEF Inv, Plain, GoesOn, Probing, LoginOnly, Storing, IsLogin

LEMMA EndKeeps ==
  ASSUME Inv, NEW c \in Calls, Ends(c), HashMove, Steady, call[c].at # "sadd" PROVE Inv'
  BY EndsMove, PlainKeeps DEF Inv, Plain, Stops, NoCall

LEMMA RefusedKeeps ==
  ASSUME Inv, NEW c \in Calls, call[c].at \in Probing, Refused(c), HashMove, Steady,
         ~LiveNext(call[c].sid)
  PROVE  Inv'
  <1>1. CASE IsLogin(c)
    <2>1. Goes(c, "school") /\ "school" \in Points
      BY <1>1 DEF Refused, Points
    <2> QED
      BY <1>1, <2>1, GoesMove, PlainKeeps
         DEF Inv, Plain, GoesOn, Probing, LoginOnly, Storing, IsLogin
  <1>2. CASE ~IsLogin(c)
    BY <1>2, EndKeeps DEF Refused, Probing
  <1> QED
    BY <1>1, <1>2

LEMMA UnsureKeeps ==
  ASSUME Inv, NEW c \in Calls, call[c].at \in Probing, Unsure(c), HashMove, Steady
  PROVE  Inv'
  <1>1. CASE IsLogin(c)
    <2> DEFINE k == [call[c] EXCEPT !.at = "school", !.shaky = TRUE]
    <2>1. call[c] \in Call
      BY DEF Inv, TypeOK
    <2>2. k \in Call /\ k.at = "school" /\ k.shaky /\ k.user = call[c].user /\ k.sid = call[c].sid
      BY <2>1 DEF Call, Points
    <2>3. call' = [call EXCEPT ![c] = k] /\ UNCHANGED lock
      BY <1>1 DEF Unsure
    <2> HIDE DEF k
    <2>4. CallMove(c) /\ call'[c] = k
      BY <2>2, <2>3, SetMove DEF Inv
    <2> QED
      BY <1>1, <2>2, <2>4, PlainKeeps DEF Plain, GoesOn, Probing, LoginOnly, Storing, IsLogin
  <1>2. CASE ~IsLogin(c)
    BY <1>2, EndKeeps DEF Unsure, Probing
  <1> QED
    BY <1>1, <1>2

LEMMA TouchKeeps ==
  ASSUME Inv, NEW c \in Calls, call[c].at \in Probing, Touch(c), HashMove, Steady,
         IsLogin(c) => Alive(call[c].sid)
  PROVE  Inv'
  BY PassKeeps, EndKeeps DEF Touch, AfterUse, Probing

LEMMA ColdKeeps == ASSUME Inv, NEW c \in Calls, Cold(c) PROVE Inv'
  <1> DEFINE s == call[c].sid
  <1>1. call[c].at \in Probing /\ call[c].at = "cold" /\ Steady /\ TypeOK /\ s \in Sids
    BY SidKnown DEF Cold, Probing, Steady, Inv
  <1>2. CASE Found(s)
    <2>1. HashMove
      BY <1>1, <1>2, GetMoves
    <2>2. \A p \in {"ask", "student", "invalidate"} : Goes(c, p) => Inv'
      BY <1>1, <2>1, PassKeeps DEF Probing
    <2>3. Unsure(c) => Inv'
      BY <1>1, <2>1, UnsureKeeps
    <2> QED
      BY <1>2, <2>2, <2>3, <1>1, GetMoves, RefusedKeeps DEF Cold
  <1>3. CASE Missing(s) /\ Refused(c)
    BY <1>1, <1>3, GetMoves, RefusedKeeps
  <1> QED
    BY <1>2, <1>3 DEF Cold

LEMMA StudentKeeps == ASSUME Inv, NEW c \in Calls, Student(c) PROVE Inv'
  <1>1. call[c].at \in Probing /\ call[c].at = "student" /\ Steady /\ HashMove
    BY SameStore DEF Student, Probing, Steady, Inv
  <1>2. \A p \in {"refresh", "invalidate"} : Goes(c, p) => Inv'
    BY <1>1, PassKeeps DEF Probing
  <1>3. Unsure(c) => Inv'
    BY <1>1, UnsureKeeps
  <1>4. ~Stored(call[c].sid) /\ Refused(c) => Inv'
    <2>1. ~Stored(call[c].sid) => ~LiveNext(call[c].sid)
      BY <1>1, SidKnown DEF HashMove
    <2> QED
      BY <1>1, <2>1, RefusedKeeps
  <1> QED
    BY <1>2, <1>3, <1>4 DEF Student

LEMMA RefreshKeeps == ASSUME Inv, NEW c \in Calls, Refresh(c) PROVE Inv'
  <1>1. call[c].at \in Probing /\ call[c].at = "refresh" /\ Steady /\ TypeOK
    BY DEF Refresh, Probing, Steady, Inv
  <1>2. HashMove
    <2>1. UNCHANGED index /\ hash' = [hash EXCEPT ![call[c].sid] = WithPortal(@)]
      BY DEF Refresh
    <2> QED
      BY <1>1, <2>1, WriteMoves
  <1>3. \A p \in {"ask", "invalidate"} : Goes(c, p) => Inv'
    BY <1>1, <1>2, PassKeeps DEF Probing
  <1> QED
    BY <1>3 DEF Refresh

LEMMA AskKeeps == ASSUME Inv, NEW c \in Calls, Ask(c) PROVE Inv'
  <1>1. call[c].at \in Probing /\ call[c].at = "ask" /\ Steady /\ HashMove
    BY SameStore DEF Ask, Probing, Steady, Inv
  <1>2. Goes(c, "invalidate") => Inv'
    BY <1>1, PassKeeps DEF Probing
  <1> QED
    BY <1>1, <1>2, TouchKeeps, UnsureKeeps DEF Ask

LEMMA SlideKeeps == ASSUME Inv, NEW c \in Calls, Slide(c) PROVE Inv'
  <1>1. call[c].at \in Probing /\ call[c].at = "slide" /\ Steady /\ TypeOK
    BY DEF Slide, Probing, Steady, Inv
  <1>2. HashMove
    <2>1. UNCHANGED index /\ hash' = [hash EXCEPT ![call[c].sid] = WithExp(@)]
      BY DEF Slide
    <2> QED
      BY <1>1, <2>1, WriteMoves
  <1>3. IsLogin(c) /\ Goes(c, "confirm") => Inv'
    BY <1>1, <1>2, PassKeeps DEF Probing
  <1> QED
    BY <1>1, <1>2, <1>3, EndKeeps DEF Slide, AfterUse

LEMMA InvalidateKeeps == ASSUME Inv, NEW c \in Calls, Invalidate(c) PROVE Inv'
  <1>1. /\ call[c].at \in Probing /\ call[c].at = "invalidate" /\ Steady /\ TypeOK
        /\ call[c].sid \in Sids
    BY SidKnown DEF Invalidate, Probing, Steady, Inv
  <1> QED
    BY <1>1, DropMove, RefusedKeeps DEF Invalidate

-----------------------------------------------------------------------------
(* The steps of a login that leave logins and school alone.                *)

\* A call goes on with a new record that keeps its user and session.
LEMMA StoringKeeps ==
  ASSUME Inv, NEW c \in Calls, NEW k \in Call, call[c].at \in Storing,
         call' = [call EXCEPT ![c] = k], UNCHANGED lock,
         k.user = call[c].user, k.sid = call[c].sid, k.at \in Storing,
         HashMove, Steady, call[c].at = "sadd" => ~UnlistedNext(call[c].sid)
  PROVE  Inv'
  <1>1. CallMove(c) /\ call'[c] = k
    BY SetMove DEF Inv
  <1>2. IsLogin(c)
    BY DEF Inv, Placed, LoginOnly
  <1> QED
    BY <1>1, <1>2, PlainKeeps DEF Plain, GoesOn, Probing, Storing

LEMMA HandOutKeeps == ASSUME Inv, NEW c \in Calls, HandOut(c) PROVE Inv'
  <1>1. /\ call[c].at \in Probing /\ call[c].at = "confirm" /\ Steady /\ TypeOK /\ IsLogin(c)
        /\ call[c].sid \in Sids
    BY SidKnown DEF HandOut, Probing, Steady, Inv, Placed, LoginOnly
  <1>2. Found(call[c].sid) /\ Ends(c) => Inv'
    BY <1>1, GetMoves, EndKeeps
  <1>3. Missing(call[c].sid) /\ Goes(c, "school") => Inv'
    BY <1>1, GetMoves, RefusedKeeps DEF Refused
  <1> QED
    BY <1>2, <1>3 DEF HandOut

LEMMA LoginFailsKeeps == ASSUME Inv, NEW c \in Calls, LoginFails(c) PROVE Inv'
  <1>1. Steady /\ HashMove
    BY SameStore DEF LoginFails, Steady, Inv
  <1> QED
    BY <1>1, EndKeeps DEF LoginFails

LEMMA StoreUserKeeps == ASSUME Inv, NEW c \in Calls, StoreUser(c) PROVE Inv'
  <1> DEFINE k == [call[c] EXCEPT !.at = "zadd"]
  <1>1. call[c].at = "sadd" /\ Steady /\ TypeOK /\ call[c] \in Call /\ call[c].sid \in Sids
    BY SidKnown DEF StoreUser, Steady, Inv, TypeOK
  <1>2. k \in Call /\ k.at = "zadd" /\ k.user = call[c].user /\ k.sid = call[c].sid
    BY <1>1 DEF Call, Points, Storing
  <1>3. call' = [call EXCEPT ![c] = k] /\ UNCHANGED lock
    BY DEF StoreUser, Goes
  <1>4. HashMove /\ ~UnlistedNext(call[c].sid)
    <2>1. /\ UNCHANGED index
          /\ hash' = IF Stored(call[c].sid) THEN [hash EXCEPT ![call[c].sid].listed = TRUE] ELSE hash
      BY DEF StoreUser
    <2> QED
      BY <1>1, <2>1, ListMove
  <1> HIDE DEF k
  <1> QED
    BY <1>1, <1>2, <1>3, <1>4, StoringKeeps DEF Storing

LEMMA SameHash ==
  ASSUME TypeOK, UNCHANGED hash, index' \subseteq Sids PROVE HashMove
  BY DEF TypeOK, HashMove, Live, LiveNext, Unlisted, UnlistedNext

\* The index never has more members than there are session ids.
LEMMA OverBounded ==
  ASSUME NEW S, S \subseteq Sids
  PROVE  Cardinality(S) \in 0..MaxLogins
  <1>1. IsFiniteSet(Sids) /\ Cardinality(Sids) = MaxLogins
    BY FS_Interval, BoundsAssumption DEF Sids
  <1>2. IsFiniteSet(S) /\ Cardinality(S) <= Cardinality(Sids)
    BY <1>1, FS_Subset
  <1>3. Cardinality(S) \in Nat
    BY <1>2, FS_CardinalityType
  <1> QED
    BY <1>1, <1>2, <1>3, BoundsAssumption

LEMMA StoreIndexKeeps == ASSUME Inv, NEW c \in Calls, StoreIndex(c) PROVE Inv'
  <1> DEFINE n == Cardinality(index')
             k == [call[c] EXCEPT !.at = "evict", !.over = n - MaxSessions]
             j == [call[c] EXCEPT !.at = "drop"]
  <1>1. call[c].at = "zadd" /\ Steady /\ TypeOK /\ call[c] \in Call /\ call[c].sid \in Sids
    BY SidKnown DEF StoreIndex, Steady, Inv, TypeOK
  <1>2. index' \subseteq Sids
    BY <1>1 DEF StoreIndex, TypeOK
  <1>3. n \in 0..MaxLogins
    BY <1>2, OverBounded
  <1>4. HashMove
    BY <1>1, <1>2, SameHash DEF StoreIndex
  <1>5. j \in Call /\ j.at = "drop" /\ j.user = call[c].user /\ j.sid = call[c].sid
    BY <1>1 DEF Call, Points, Storing
  <1> HIDE DEF n
  <1>6. n > MaxSessions => k \in Call /\ k.at = "evict" /\ k.user = call[c].user /\ k.sid = call[c].sid
    <2>1. n > MaxSessions => n - MaxSessions \in 0..MaxLogins
      BY <1>3, BoundsAssumption
    <2> QED
      BY <1>1, <2>1 DEF Call, Points, Storing
  <1>7. \/ call' = [call EXCEPT ![c] = j] /\ UNCHANGED lock
        \/ n > MaxSessions /\ call' = [call EXCEPT ![c] = k] /\ UNCHANGED lock
    BY DEF StoreIndex, Goes, n
  <1> HIDE DEF k, j
  <1> QED
    BY <1>1, <1>4, <1>5, <1>6, <1>7, StoringKeeps DEF Storing

LEMMA EvictKeeps == ASSUME Inv, NEW c \in Calls, Evict(c) PROVE Inv'
  <1> DEFINE S == Oldest(call[c].over)
             k == [call[c] EXCEPT !.at = "drop", !.over = 0, !.victims = S]
  <1>1. call[c].at = "evict" /\ Steady /\ TypeOK /\ call[c] \in Call
    BY DEF Evict, Steady, Inv, TypeOK
  <1>2. S \subseteq index /\ S \subseteq Sids
    BY <1>1 DEF Oldest, TypeOK
  <1>3. index' \subseteq Sids
    BY <1>1 DEF Evict, TypeOK
  <1>4. HashMove
    BY <1>1, <1>3, SameHash DEF Evict
  <1> HIDE DEF S
  <1>5. k \in Call /\ k.at = "drop" /\ k.user = call[c].user /\ k.sid = call[c].sid
    <2>1. 0 \in 0..MaxLogins /\ S \in SUBSET Sids
      BY <1>2, BoundsAssumption
    <2> QED
      BY <1>1, <2>1 DEF Call, Points, Storing
  <1>6. call' = [call EXCEPT ![c] = k] /\ UNCHANGED lock
    BY DEF Evict, S
  <1> HIDE DEF k
  <1> QED
    BY <1>1, <1>4, <1>5, <1>6, StoringKeeps DEF Storing

LEMMA DropVictimKeeps == ASSUME Inv, NEW c \in Calls, DropVictim(c) PROVE Inv'
  <1>1. call[c].at = "drop" /\ Steady /\ TypeOK /\ call[c] \in Call
    BY DEF DropVictim, Steady, Inv, TypeOK
  <1>2. PICK s \in call[c].victims :
          Drop(s) /\ call' = [call EXCEPT ![c].victims = @ \ {s}] /\ UNCHANGED lock
    BY DEF DropVictim
  <1> DEFINE k == [call[c] EXCEPT !.victims = @ \ {s}]
  <1>3. HashMove
    BY <1>1, <1>2, DropMove
  <1>4. k \in Call /\ k.at = "drop" /\ k.user = call[c].user /\ k.sid = call[c].sid
    BY <1>1 DEF Call, Points, Storing
  <1>5. call' = [call EXCEPT ![c] = k] /\ UNCHANGED lock
    BY <1>2
  <1> HIDE DEF k
  <1> QED
    BY <1>1, <1>3, <1>4, <1>5, StoringKeeps DEF Storing

LEMMA CreatedKeeps == ASSUME Inv, NEW c \in Calls, Created(c) PROVE Inv'
  <1> DEFINE k == [NoCall EXCEPT !.at = "warmup", !.sid = call[c].sid]
  <1>1. call[c].at = "drop" /\ Steady /\ TypeOK /\ call[c] \in Call /\ HashMove
    BY SameStore DEF Created, Steady, Inv, TypeOK
  <1>2. Ends(c) => Inv'
    BY <1>1, EndKeeps
  <1>3. ASSUME call' = [call EXCEPT ![c] = k], Release(c) PROVE Inv'
    <2>1. k \in Call /\ k.at = "warmup" /\ k.user = Nobody /\ k.sid = call[c].sid
      BY <1>1, NoCallType DEF NoCall, Call, Points
    <2>2. IsLogin(c)
      BY <1>1 DEF Inv, Placed, LoginOnly, Storing
    <2> HIDE DEF k
    <2>3. call'[c] = k /\ call' \in [Calls -> Call] /\ Others(c)
      BY <1>1, <1>3, <2>1 DEF TypeOK, Others
    <2>4. LocksKept(c)
      BY <1>1, <1>3, <2>1, <2>3 DEF TypeOK, Release, LocksKept
    <2> QED
      BY <1>1, <2>1, <2>2, <2>3, <2>4, PlainKeeps
         DEF Plain, CallMove, GoesOn, Probing, LoginOnly, Storing
  <1> QED
    BY <1>2, <1>3 DEF Created

LEMMA WarmUpKeeps == ASSUME Inv, NEW c \in Calls, WarmUp(c) PROVE Inv'
  <1>1. call[c].at = "warmup" /\ Steady /\ TypeOK /\ HashMove
    BY SameStore DEF WarmUp, Steady, Inv
  <1>2. Goes(c, "portal") => Inv'
    BY <1>1, GoesMove, PlainKeeps DEF Points, Plain, GoesOn, Probing, LoginOnly, Storing
  <1> QED
    BY <1>1, <1>2, EndKeeps DEF WarmUp

LEMMA WarmRefreshKeeps == ASSUME Inv, NEW c \in Calls, WarmRefresh(c) PROVE Inv'
  <1>1. call[c].at = "portal" /\ Steady /\ TypeOK /\ UNCHANGED index
        /\ hash' = [hash EXCEPT ![call[c].sid] = WithPortal(@)]
    BY DEF WarmRefresh, Steady, Inv
  <1> QED
    BY <1>1, WriteMoves, EndKeeps DEF WarmRefresh

-----------------------------------------------------------------------------
(* Starts, the login at the school and the write of the new session.       *)

\* Only the hashes and the index change.
LEMMA StoreOnlyKeeps ==
  ASSUME Inv, HashMove, Steady, UNCHANGED <<call, lock>> PROVE Inv'
  <1> USE DEF Steady, bounds
  <1>1. TypeOK' /\ Placed' /\ Locked' /\ SchoolLatest' /\ Probed'
    BY DEF Inv, TypeOK, HashMove, Placed, IsLogin, Locked, SchoolLatest, Latest, Probed
  <1>2. ListedSoon'
    BY DEF Inv, ListedSoon, Quiet, HashMove, Unlisted, UnlistedNext
  <1>3. \A u \in Users : school[u] # 0 => school[u] \in Sids
    BY DEF Inv, TypeOK, Sids
  <1>4. \A d \in Calls : call[d].user \in Users \cup {Nobody}
    BY DEF Inv, TypeOK, Call
  <1>5. KnowsBest'
    BY <1>3, <1>4 DEF Inv, KnowsBest, Quiet, HashMove, IsLogin, Live, LiveNext
  <1>6. NoSelfKick'
    BY <1>3, <1>4 DEF Inv, NoSelfKick, Placed, LoginOnly, IsLogin, HashMove, Live, LiveNext
  <1> QED
    BY <1>1, <1>2, <1>5, <1>6 DEF Inv

\* What a query begins with, and what a login begins with.
QueryStart(k) ==
  /\ k.user = Nobody /\ k.at \in {"cold", "ask", "slide"} /\ k.sid \in 1..Len(logins)
  /\ UNCHANGED lock
LoginStart(c, k) ==
  /\ k.user \in Users /\ lock[k.user] = Nobody /\ lock' = [lock EXCEPT ![k.user] = c]
  /\ k.at \in {"cold", "ask", "school"}
  /\ k.at # "school" => k.sid \in 1..Len(logins) /\ logins[k.sid] = k.user
  /\ Quiet => LET s == school[k.user] IN s = 0 \/ (k.at # "school" /\ s = k.sid) \/ ~Live(s)

LEMMA StartKeeps ==
  ASSUME Inv, NEW c \in Calls, NEW k \in Call, call[c].at = "idle",
         call' = [call EXCEPT ![c] = k], UNCHANGED store, Steady,
         QueryStart(k) \/ LoginStart(c, k)
  PROVE  Inv'
  <1> USE DEF Steady, bounds, store
  <1>1. \A d \in Calls : /\ call[d] \in Call /\ call'[d] \in Call
                         /\ call'[d] = IF d = c THEN k ELSE call[d]
    BY DEF Inv, TypeOK
  <1>2. TypeOK'
    <2>1. call' \in [Calls -> Call]
      BY DEF Inv, TypeOK
    <2>2. lock' \in [Users -> Calls \cup {Nobody, "left"}]
      BY DEF Inv, TypeOK, QueryStart, LoginStart
    <2> QED
      BY <2>1, <2>2 DEF Inv, TypeOK
  <1>3. Placed'
    BY <1>1, NobodyAssumption DEF Inv, Placed, IsLogin, QueryStart, LoginStart, LoginOnly, Storing
  <1>4. Locked'
    <2> SUFFICES ASSUME outlived' = 0, NEW d \in Calls, call'[d].user # Nobody
                 PROVE  lock'[call'[d].user] = d
      BY DEF Locked, IsLogin
    <2>1. CASE d = c
      BY <1>1, <2>1 DEF QueryStart, LoginStart, Inv, TypeOK
    <2>2. CASE d # c
      <3>1. call'[d] = call[d] /\ call[d].user \in Users /\ lock[call[d].user] = d /\ d # Nobody
        BY <1>1, <2>2, NobodyAssumption DEF Inv, Locked, IsLogin, Call
      <3> QED
        BY <3>1 DEF QueryStart, LoginStart, Inv, TypeOK
    <2> QED
      BY <2>1, <2>2
  <1>5. SchoolLatest'
    BY DEF Inv, SchoolLatest, Latest
  <1>6. Probed'
    BY <1>1 DEF Inv, Probed, Latest, IsLogin, QueryStart, LoginStart
  <1>7. ListedSoon'
    BY <1>1 DEF Inv, ListedSoon, Quiet, Unlisted
  <1>8. KnowsBest'
    BY <1>1 DEF Inv, KnowsBest, Quiet, IsLogin, Live, QueryStart, LoginStart, Probing
  <1>9. NoSelfKick'
    BY <1>1 DEF Inv, NoSelfKick, Quiet, Live, QueryStart, LoginStart
  <1> QED
    BY <1>2, <1>3, <1>4, <1>5, <1>6, <1>7, <1>8, <1>9 DEF Inv

LEMMA StartQueryKeeps == ASSUME Inv, NEW c \in Calls, StartQuery(c) PROVE Inv'
  <1>1. PICK s \in 1..Len(logins) :
          \/ /\ Found(s) /\ UNCHANGED lock
             /\ \E at \in {FirstUse(s), "slide"} :
                  call' = [call EXCEPT ![c] = [NoCall EXCEPT !.at = at, !.sid = s]]
          \/ Stored(s) /\ Missing(s) /\ UNCHANGED <<call, lock>>
    BY DEF StartQuery
  <1>2. call[c].at = "idle" /\ Steady /\ TypeOK
    BY DEF StartQuery, Steady, Inv
  <1>3. CASE Missing(s) /\ UNCHANGED <<call, lock>>
    BY <1>2, <1>3, GetMoves, StoreOnlyKeeps
  <1>4. CASE Found(s) /\ UNCHANGED lock
    <2>1. CASE UNCHANGED call
      BY <1>2, <1>4, <2>1, GetMoves, StoreOnlyKeeps
    <2>2. ASSUME NEW p \in {"cold", "ask", "slide"},
                 call' = [call EXCEPT ![c] = [NoCall EXCEPT !.at = p, !.sid = s]]
          PROVE  Inv'
      <3> DEFINE k == [NoCall EXCEPT !.at = p, !.sid = s]
      <3>1. s \in 0..MaxLogins
        BY <1>2, BoundsAssumption DEF TypeOK
      <3>2. k \in Call /\ k.user = Nobody /\ k.at = p /\ k.sid = s
        BY <3>1, NoCallType DEF NoCall, Call, Points
      <3> HIDE DEF k
      <3>3. QueryStart(k) /\ UNCHANGED store
        BY <1>4, <3>2 DEF QueryStart, Found
      <3> QED
        BY <1>2, <2>2, <3>2, <3>3, StartKeeps DEF k
    <2> QED
      BY <1>1, <1>4, <2>1, <2>2 DEF FirstUse
  <1> QED
    BY <1>1, <1>3, <1>4

\* Once the lock is free, the session that the school accepts is in the user's set.
LEMMA FreeLockListed ==
  ASSUME Inv, Quiet, NEW u \in Users, lock[u] = Nobody, school[u] # 0, Live(school[u])
  PROVE  school[u] \in Reusable(u) /\ Latest(u, school[u])
  <1>1. /\ school[u] \in 1..Len(logins) /\ logins[school[u]] = u /\ Latest(u, school[u])
        /\ school[u] \in Sids
    BY DEF Inv, SchoolLatest, TypeOK, Sids
  <1>2. ~Unlisted(school[u])
    <2> SUFFICES ASSUME Unlisted(school[u]) PROVE FALSE
      OBVIOUS
    <2>1. PICK d \in Calls : call[d].at = "sadd" /\ call[d].sid = school[u]
      BY <1>1 DEF Inv, ListedSoon
    <2>2. IsLogin(d) /\ call[d].user = u
      BY <1>1, <2>1 DEF Inv, Placed, LoginOnly, Storing
    <2> QED
      BY <2>2, NobodyAssumption DEF Inv, Locked, Quiet
  <1>3. hash[school[u]].listed
    BY <1>2 DEF Unlisted, Live
  <1> QED
    BY <1>1, <1>3 DEF Reusable, Owner, Live

LEMMA StartLoginKeeps == ASSUME Inv, NEW c \in Calls, StartLogin(c) PROVE Inv'
  <1>1. PICK u \in Users : lock[u] = Nobody /\ lock' = [lock EXCEPT ![u] = c] /\ FirstStep(c, u)
    BY DEF StartLogin
  <1>2. call[c].at = "idle" /\ Steady /\ TypeOK /\ UNCHANGED store
    BY DEF StartLogin, Steady, Inv, store
  <1>3. Reusable(u) \subseteq 1..Len(logins) /\ \A s \in Reusable(u) : logins[s] = u
    BY DEF Reusable, Owner
  <1>4. CASE Reusable(u) = {}
    <2> DEFINE k == [NoCall EXCEPT !.at = "school", !.user = u]
    <2>1. call' = [call EXCEPT ![c] = k]
      BY <1>1, <1>4 DEF FirstStep
    <2>2. k \in Call /\ k.user = u /\ k.at = "school"
      BY NoCallType DEF NoCall, Call, Points
    <2> HIDE DEF k
    <2>3. LoginStart(c, k)
      BY <1>1, <1>4, <2>2, FreeLockListed DEF LoginStart
    <2> QED
      BY <1>2, <2>1, <2>2, <2>3, StartKeeps
  <1>5. ASSUME NEW s \in Reusable(u), \A r \in Reusable(u) : r <= s,
               call' = [call EXCEPT ![c] = [NoCall EXCEPT !.at = FirstUse(s), !.user = u, !.sid = s]]
        PROVE  Inv'
    <2> DEFINE k == [NoCall EXCEPT !.at = FirstUse(s), !.user = u, !.sid = s]
    <2>1. s \in 0..MaxLogins /\ s \in 1..Len(logins) /\ s \in Nat
      BY <1>2, <1>3, <1>5, BoundsAssumption DEF TypeOK
    <2>2. FirstUse(s) \in {"cold", "ask"}
      BY DEF FirstUse
    <2>3. k \in Call /\ k.user = u /\ k.at \in {"cold", "ask"} /\ k.sid = s
      BY <2>1, <2>2, NoCallType DEF NoCall, Call, Points
    <2>4. Quiet /\ school[u] # 0 /\ Live(school[u]) => school[u] = s
      <3> SUFFICES ASSUME Quiet, school[u] # 0, Live(school[u]) PROVE school[u] = s
        OBVIOUS
      <3>1. school[u] \in Reusable(u) /\ Latest(u, school[u]) /\ school[u] \in Nat
        BY <1>1, <1>2, FreeLockListed DEF TypeOK
      <3>2. school[u] <= s /\ s <= school[u]
        BY <1>3, <1>5, <2>1, <3>1 DEF Latest
      <3> QED
        BY <2>1, <3>1, <3>2
    <2> HIDE DEF k
    <2>5. LoginStart(c, k)
      BY <1>1, <1>3, <2>1, <2>3, <2>4 DEF LoginStart
    <2> QED
      BY <1>2, <1>5, <2>3, <2>5, StartKeeps DEF k
  <1> QED
    BY <1>1, <1>4, <1>5 DEF FirstStep

\* Two logins of one user do not run at the same time.
LEMMA OneLogin ==
  ASSUME Inv, outlived = 0, NEW c \in Calls, NEW d \in Calls, IsLogin(c), IsLogin(d), c # d
  PROVE  call[c].user # call[d].user
  BY DEF Inv, Locked

LEMMA SchoolLoginKeeps == ASSUME Inv, NEW c \in Calls, SchoolLogin(c) PROVE Inv'
  <1> USE DEF bounds, store
  <1> DEFINE u == call[c].user
             s == Len(logins) + 1
             k == [call[c] EXCEPT !.at = "verify", !.sid = s, !.shaky = FALSE]
  <1>1. /\ call[c].at = "school" /\ Len(logins) < MaxLogins /\ call[c] \in Call
        /\ logins' = Append(logins, u) /\ school' = [school EXCEPT ![u] = s]
        /\ call' = [call EXCEPT ![c] = k] /\ UNCHANGED <<store, lock, bounds>>
    BY DEF SchoolLogin, Inv, TypeOK
  <1>2. IsLogin(c) /\ u \in Users
    BY <1>1 DEF Inv, Placed, LoginOnly, IsLogin, Call
  <1>3. Len(logins) \in Nat /\ s \in Nat /\ s >= 1 /\ s \in Sids /\ s \in 0..MaxLogins
    BY <1>1, BoundsAssumption DEF Inv, TypeOK, Sids
  <1>4. /\ k \in Call /\ k.at = "verify" /\ k.user = u /\ k.sid = s /\ ~k.shaky
    BY <1>1, <1>3 DEF Call, Points
  <1> HIDE DEF k
  <1>5. /\ logins' \in Seq(Users) /\ Len(logins') = s /\ logins'[s] = u
        /\ \A r \in 1..Len(logins) : logins'[r] = logins[r] /\ r \in 1..Len(logins')
        /\ \A r \in 1..Len(logins') : r = s \/ r \in 1..Len(logins)
    BY <1>1, <1>2, <1>3 DEF Inv, TypeOK
  <1>6. \A d \in Calls : /\ call[d] \in Call /\ call'[d] \in Call
                         /\ call'[d] = IF d = c THEN k ELSE call[d]
    BY <1>1, <1>4 DEF Inv, TypeOK
  <1>7. \A w \in Users : school'[w] = IF w = u THEN s ELSE school[w]
    BY <1>1 DEF Inv, TypeOK
  <1> HIDE DEF s
  <1>8. \A d \in Calls : outlived = 0 /\ d # c /\ IsLogin(d) => call[d].user # u
    BY <1>2, OneLogin
  <1>9. TypeOK'
    <2>1. call' \in [Calls -> Call]
      BY <1>1, <1>4 DEF Inv, TypeOK
    <2>2. school' \in [Users -> 0..MaxLogins]
      BY <1>1, <1>3 DEF Inv, TypeOK
    <2>3. Len(logins') <= MaxLogins
      BY <1>1, <1>3, <1>5, BoundsAssumption DEF s
    <2> QED
      BY <1>1, <1>5, <2>1, <2>2, <2>3 DEF Inv, TypeOK
  <1>10. Placed'
    BY <1>2, <1>3, <1>4, <1>5, <1>6 DEF Inv, Placed, IsLogin, LoginOnly
  <1>11. Locked'
    BY <1>1, <1>2, <1>4, <1>6 DEF Inv, Locked, IsLogin
  <1>12. SchoolLatest'
    <2>1. \A w \in Users \ {u} : school'[w] # 0 =>
            school'[w] \in 1..Len(logins') /\ logins'[school'[w]] = w
            /\ \A r \in 1..Len(logins') : logins'[r] = w => r <= school'[w]
      <3> TAKE w \in Users \ {u}
      <3> HAVE school'[w] # 0
      <3>1. /\ school'[w] = school[w] /\ school[w] \in 1..Len(logins) /\ logins[school[w]] = w
            /\ \A r \in 1..Len(logins) : logins[r] = w => r <= school[w]
        BY <1>7 DEF Inv, SchoolLatest, Latest
      <3> QED
        BY <1>5, <3>1
    <2>2. s \in 1..Len(logins') /\ logins'[s] = u /\ \A r \in 1..Len(logins') : r <= s
      BY <1>3, <1>5
    <2> QED
      BY <1>2, <1>7, <2>1, <2>2 DEF SchoolLatest, Latest
  <1>13. Probed'
    BY <1>1, <1>4, <1>5, <1>6, <1>8 DEF Inv, Probed, Latest, IsLogin
  <1>14. ListedSoon'
    BY <1>1, <1>6 DEF Inv, ListedSoon, Quiet, Unlisted
  <1>15. \A d \in Calls : IsLogin(d) => call[d].user \in Users
    BY <1>6 DEF IsLogin, Call
  <1>16. KnowsBest'
    BY <1>1, <1>4, <1>6, <1>7, <1>8, <1>15 DEF Inv, KnowsBest, Quiet, IsLogin, Live, Probing
  <1>17. NoSelfKick'
    <2>1. \A d \in Calls : call[d].at = "school" => IsLogin(d)
      BY DEF Inv, Placed, LoginOnly
    <2> QED
      BY <1>1, <1>4, <1>6, <1>7, <1>8, <1>15, <2>1 DEF Inv, NoSelfKick, Quiet
  <1> QED
    BY <1>9, <1>10, <1>11, <1>12, <1>13, <1>14, <1>16, <1>17 DEF Inv

LEMMA StoreHashKeeps == ASSUME Inv, NEW c \in Calls, StoreHash(c) PROVE Inv'
  <1> USE DEF bounds
  <1> DEFINE s == call[c].sid
             h == [full |-> TRUE, life |-> "young", warm |-> FALSE, listed |-> FALSE]
  <1>1. /\ call[c].at = "verify" /\ Alive(s) /\ Goes(c, "sadd") /\ "sadd" \in Points
        /\ hash' = [hash EXCEPT ![s] = h] /\ UNCHANGED <<index, logins, school, bounds, lock>>
        /\ TypeOK /\ Placed
    BY DEF StoreHash, Inv, Goes, Points, Storing
  <1>2. IsLogin(c) /\ s \in 1..Len(logins) /\ logins[s] = call[c].user /\ s \in Sids
    BY <1>1, SidKnown DEF Placed, LoginOnly
  <1>3. /\ CallMove(c) /\ call'[c].at = "sadd" /\ call'[c].user = call[c].user
        /\ call'[c].sid = s
    BY <1>1, GoesMove
  <1>4. \A d \in Calls : /\ call[d] \in Call /\ call'[d] \in Call
                         /\ d # c => call'[d] = call[d]
    BY <1>1, <1>3 DEF TypeOK, CallMove, Others
  <1>5. h \in Hash
    BY DEF Hash
  <1>6. \A r \in Sids : hash'[r] = IF r = s THEN h ELSE hash[r]
    BY <1>1 DEF TypeOK
  <1>7. TypeOK'
    BY <1>1, <1>3, <1>5 DEF TypeOK, CallMove
  <1> HIDE DEF h
  <1>8. Placed' /\ Locked' /\ SchoolLatest'
    BY <1>1, <1>2, <1>3, <1>4 DEF Inv, Placed, Locked, SchoolLatest, Latest, IsLogin, LoginOnly, Storing
  <1>9. Probed'
    BY <1>1, <1>3, <1>4 DEF Inv, Probed, Latest, IsLogin
  <1>10. ListedSoon'
    BY <1>1, <1>3, <1>4, <1>6 DEF Inv, ListedSoon, Quiet, Unlisted
  <1>11. \A d \in Calls : Quiet /\ d # c /\ IsLogin(d) =>
           call[d].user \in Users /\ school[call[d].user] # s
    <2> SUFFICES ASSUME Quiet, NEW d \in Calls, d # c, IsLogin(d),
                        call[d].user \in Users, school[call[d].user] = s
                 PROVE  FALSE
      BY <1>4 DEF IsLogin, Call
    <2>1. s # 0 /\ logins[s] = call[d].user
      BY <1>2 DEF Inv, SchoolLatest
    <2> QED
      BY <1>2, <2>1, OneLogin DEF Quiet
  <1>12. \A u \in Users : school[u] # 0 => school[u] \in Sids
    BY <1>1 DEF TypeOK, Sids
  <1>13. KnowsBest'
    BY <1>1, <1>3, <1>4, <1>6, <1>11, <1>12 DEF Inv, KnowsBest, Quiet, IsLogin, Live, Probing
  <1>14. NoSelfKick'
    BY <1>1, <1>3, <1>4, <1>6, <1>11, <1>12 DEF Inv, NoSelfKick, Placed, Quiet, IsLogin, LoginOnly
  <1> QED
    BY <1>7, <1>8, <1>9, <1>10, <1>13, <1>14 DEF Inv

-----------------------------------------------------------------------------
(* The sweeper, time, crashes.                                             *)

LEMMA SweepKeeps == ASSUME Inv, Sweep PROVE Inv'
  <1>1. TypeOK /\ UNCHANGED hash /\ index' \subseteq Sids /\ Steady /\ UNCHANGED <<call, lock>>
    BY DEF Sweep, Steady, Inv, TypeOK
  <1> QED
    BY <1>1, SameHash, StoreOnlyKeeps

LEMMA AgesKeeps == ASSUME Inv, NEW s \in Sids, Ages(s) PROVE Inv'
  <1>1. TypeOK /\ UNCHANGED index /\ Steady /\ UNCHANGED <<call, lock>>
    BY DEF Ages, Steady, Inv
  <1>2. PICK h : /\ hash' = [hash EXCEPT ![s] = h] /\ h \in Hash \cup {Absent}
                 /\ h.life # "young" /\ h.full \in {hash[s].full, FALSE}
                 /\ h.full => h.listed = hash[s].listed
    <2>1. hash[s] \in Hash \/ hash[s] = Absent
      BY <1>1 DEF TypeOK
    <2>2. CASE hash[s].life = "young" /\ hash' = [hash EXCEPT ![s].life = "old"]
      <3>1. hash[s] \in Hash
        BY <2>1, <2>2 DEF Absent
      <3> WITNESS [hash[s] EXCEPT !.life = "old"]
      <3> QED
        BY <2>2, <3>1 DEF Hash
    <2>3. CASE hash[s].life = "old" /\ hash' = [hash EXCEPT ![s].life = "expired"]
      <3>1. hash[s] \in Hash
        BY <2>1, <2>3 DEF Absent
      <3> WITNESS [hash[s] EXCEPT !.life = "expired"]
      <3> QED
        BY <2>3, <3>1 DEF Hash
    <2>4. CASE hash[s].life = "expired" /\ hash' = [hash EXCEPT ![s] = Absent]
      <3> WITNESS Absent
      <3> QED
        BY <2>4 DEF Absent
    <2> QED
      BY <2>2, <2>3, <2>4 DEF Ages
  <1>3. HashMove
    BY <1>1, <1>2 DEF TypeOK, HashMove, Live, LiveNext, Unlisted, UnlistedNext
  <1> QED
    BY <1>1, <1>3, StoreOnlyKeeps

LEMMA LeaseExpiresKeeps == ASSUME Inv, NEW u \in Users, LeaseExpires(u) PROVE Inv'
  <1> USE DEF bounds, store
  <1>1. /\ lock' = [lock EXCEPT ![u] = Nobody] /\ UNCHANGED <<store, logins, school, call, crashes>>
        /\ \/ lock[u] = "left" /\ outlived' = outlived
           \/ outlived + crashes < MaxMishaps /\ outlived' = outlived + 1
        /\ outlived \in 0..MaxMishaps /\ crashes \in 0..MaxMishaps
    BY DEF LeaseExpires, Inv, TypeOK
  <1>2. outlived' \in 0..MaxMishaps /\ (outlived' = 0 => outlived = 0 /\ lock[u] = "left")
    BY <1>1, BoundsAssumption
  <1>3. TypeOK' /\ Placed' /\ SchoolLatest'
    BY <1>1, <1>2 DEF Inv, TypeOK, Placed, SchoolLatest, Latest, IsLogin
  <1>4. Locked'
    BY <1>1, <1>2, NobodyAssumption DEF Inv, TypeOK, Locked, IsLogin
  <1>5. Probed' /\ ListedSoon'
    BY <1>1, <1>2 DEF Inv, Probed, ListedSoon, Latest, Quiet, IsLogin, Unlisted
  <1>6. KnowsBest' /\ NoSelfKick'
    BY <1>1, <1>2 DEF Inv, KnowsBest, NoSelfKick, Quiet, IsLogin, Live
  <1> QED
    BY <1>3, <1>4, <1>5, <1>6 DEF Inv

LEMMA SchoolForgetsKeeps == ASSUME Inv, NEW u \in Users, SchoolForgets(u) PROVE Inv'
  <1> USE DEF bounds, store
  <1>1. /\ school' = [school EXCEPT ![u] = 0] /\ UNCHANGED <<store, lock, logins, call, bounds>>
        /\ \A w \in Users : school'[w] \in {school[w], 0}
    BY DEF SchoolForgets, Inv, TypeOK
  <1>2. TypeOK' /\ Placed' /\ Locked' /\ SchoolLatest'
    BY <1>1, BoundsAssumption
       DEF Inv, TypeOK, Placed, Locked, SchoolLatest, Latest, IsLogin
  <1>3. Probed' /\ ListedSoon'
    BY <1>1 DEF Inv, Probed, ListedSoon, Latest, Quiet, IsLogin, Unlisted
  <1>4. \A d \in Calls : IsLogin(d) => call[d].user \in Users
    BY DEF Inv, TypeOK, IsLogin, Call
  <1>5. KnowsBest'
    BY <1>1, <1>4 DEF Inv, KnowsBest, Quiet, IsLogin, Live
  <1>6. NoSelfKick'
    BY <1>1, <1>4 DEF Inv, NoSelfKick, Placed, LoginOnly, Quiet, IsLogin
  <1> QED
    BY <1>2, <1>3, <1>5, <1>6 DEF Inv

LEMMA CrashKeeps == ASSUME Inv, NEW c \in Calls, Crash(c) PROVE Inv'
  <1> USE DEF bounds, store
  <1>1. /\ outlived + crashes < MaxMishaps /\ crashes' = crashes + 1
        /\ call' = [call EXCEPT ![c] = NoCall]
        /\ lock' = [u \in Users |-> IF lock[u] = c THEN "left" ELSE lock[u]]
        /\ UNCHANGED <<store, logins, school, outlived>>
        /\ outlived \in 0..MaxMishaps /\ crashes \in 0..MaxMishaps
    BY DEF Crash, Inv, TypeOK
  <1>2. crashes' \in 0..MaxMishaps /\ ~Quiet'
    BY <1>1, BoundsAssumption DEF Quiet
  <1>3. \A d \in Calls : call'[d] = IF d = c THEN NoCall ELSE call[d]
    BY <1>1 DEF Inv, TypeOK
  <1>4. TypeOK'
    BY <1>1, <1>2, NoCallType DEF Inv, TypeOK
  <1>5. Placed' /\ SchoolLatest'
    BY <1>1, <1>3 DEF Inv, Placed, SchoolLatest, Latest, IsLogin, NoCall, LoginOnly, Storing
  <1>6. Locked' /\ Probed'
    BY <1>1, <1>3, NobodyAssumption
       DEF Inv, TypeOK, Locked, Probed, Latest, IsLogin, NoCall, Call
  <1> QED
    BY <1>2, <1>4, <1>5, <1>6 DEF Inv, ListedSoon, KnowsBest, NoSelfKick, Quiet

-----------------------------------------------------------------------------
(* The limit.  Sessions beyond it are in flight, or a login has counted    *)
(* them and pops them next: the index is the measure.                      *)

NoVictims == \A c \in Calls : call[c].at # "drop" => call[c].victims = {}

\* A session that can be found is in the index or in flight.
Covered ==
  crashes = 0 => \A s \in Sids :
    hash[s].full => s \in index \/ \E c \in Calls : s \in InFlight(call[c])

\* The index is within the limit, or within what some login has counted.
Counts(c)  == call[c].at = "evict" /\ Cardinality(index) <= MaxSessions + call[c].over
IndexBound == crashes = 0 => Cardinality(index) <= MaxSessions \/ \E c \in Calls : Counts(c)

LimitInv == NoVictims /\ Covered /\ IndexBound

\* The rank of a member of a finite set of numbers.
Below(S, s) == {t \in S : t < s}

LEMMA RankBelow ==
  ASSUME NEW S, S \subseteq Nat, IsFiniteSet(S), NEW s \in S
  PROVE  /\ Cardinality(Below(S, s)) \in Nat
         /\ Cardinality(Below(S, s)) + 1 <= Cardinality(S)
         /\ \A r \in S : s < r => Cardinality(Below(S, s)) + 1 <= Cardinality(Below(S, r))
  <1>1. IsFiniteSet(Below(S, s)) /\ Cardinality(Below(S, s)) \in Nat /\ Cardinality(S) \in Nat
    BY FS_Subset, FS_CardinalityType DEF Below
  <1>2. s \notin Below(S, s)
    BY DEF Below
  <1> DEFINE T == Below(S, s) \cup {s}
  <1>3. IsFiniteSet(T) /\ Cardinality(T) = Cardinality(Below(S, s)) + 1
    BY <1>1, <1>2, FS_AddElement
  <1>4. T \subseteq S
    BY DEF Below
  <1>5. \A r \in S : s < r => T \subseteq Below(S, r)
    <2> SUFFICES ASSUME NEW r \in S, s < r, NEW t \in S, t = s \/ t < s PROVE t < r
      BY <1>4 DEF Below
    <2>1. s \in Nat /\ r \in Nat /\ t \in Nat
      OBVIOUS
    <2> QED
      BY <2>1
  <1>6. \A r \in S : IsFiniteSet(Below(S, r))
    BY FS_Subset DEF Below
  <1> HIDE DEF T
  <1>7. Cardinality(T) <= Cardinality(S)
    BY <1>4, FS_Subset
  <1>8. \A r \in S : s < r => Cardinality(T) <= Cardinality(Below(S, r))
    BY <1>5, <1>6, FS_Subset
  <1> QED
    BY <1>1, <1>3, <1>7, <1>8

\* Popping as many of the oldest as there are too many leaves no more than the limit.
LEMMA PopLeaves ==
  ASSUME NEW S, S \subseteq Nat, IsFiniteSet(S), NEW n \in Nat, NEW m \in Nat,
         Cardinality(S) <= m + n
  PROVE  Cardinality(S \ {s \in S : Cardinality(Below(S, s)) < n}) <= m
  <1> DEFINE R == S \ {s \in S : Cardinality(Below(S, s)) < n}
             f == [s \in R |-> Cardinality(Below(S, s))]
             T == n..(m + n - 1)
  <1>1. Cardinality(S) \in Nat
    BY FS_CardinalityType
  <1>2. \A s \in S : /\ Cardinality(Below(S, s)) \in Nat
                     /\ Cardinality(Below(S, s)) + 1 <= Cardinality(S)
                     /\ \A r \in S : s < r =>
                          Cardinality(Below(S, s)) + 1 <= Cardinality(Below(S, r))
    BY RankBelow
  <1>3. \A s \in R : Cardinality(Below(S, s)) \in T
    BY <1>1, <1>2
  <1>4. \A s, r \in R : f[s] = f[r] => s = r
    <2> SUFFICES ASSUME NEW s \in R, NEW r \in R, s < r PROVE f[s] # f[r]
      BY <1>2
    <2> QED
      BY <1>2
  <1>5. f \in Injection(R, T)
    <2>1. f \in [R -> T]
      BY <1>3
    <2> QED
      BY <1>4, <2>1 DEF Injection, IsInjective
  <1>6. IsFiniteSet(T) /\ Cardinality(T) <= m
    <2>1. n \in Int /\ m + n - 1 \in Int
      OBVIOUS
    <2> HIDE DEF T
    <2>2. IsFiniteSet(T) /\ Cardinality(T) = IF n > m + n - 1 THEN 0 ELSE m + n - 1 - n + 1
      BY <2>1, FS_Interval DEF T
    <2> QED
      BY <2>2
  <1> HIDE DEF f, T, R
  <1>7. IsFiniteSet(R) /\ Cardinality(R) <= Cardinality(T)
    BY <1>5, <1>6, FS_Injection
  <1>8. Cardinality(R) \in Nat /\ Cardinality(T) \in Nat
    BY <1>6, <1>7, FS_CardinalityType
  <1>9. Cardinality(R) <= m
    BY <1>6, <1>7, <1>8
  <1> QED
    BY <1>9 DEF R

\* A step of one call: a session that can be found and has left the index, or never was there,
\* is in flight as before or by this step, and the index grows only to what is counted.
Leaves(c) ==
  \A s \in Sids : hash'[s].full /\ s \notin index' =>
    \/ s \in InFlight(call'[c])
    \/ hash[s].full /\ s \notin index /\ s \notin InFlight(call[c])
Bounded(c) ==
  \/ Cardinality(index') <= MaxSessions
  \/ call'[c].at = "evict" /\ Cardinality(index') <= MaxSessions + call'[c].over
  \/ index' \subseteq index /\ ~Counts(c)

LEMMA CardOfIndex ==
  ASSUME TypeOK, NEW S, S \subseteq index
  PROVE  IsFiniteSet(S) /\ Cardinality(S) \in Nat /\ Cardinality(S) <= Cardinality(index)
         /\ Cardinality(index) \in Nat
  <1>1. IsFiniteSet(Sids)
    BY FS_Interval, BoundsAssumption DEF Sids
  <1>2. IsFiniteSet(index)
    BY <1>1, FS_Subset DEF TypeOK
  <1> QED
    BY <1>2, FS_Subset, FS_CardinalityType

LEMMA LimitMoves ==
  ASSUME Inv, LimitInv, NEW c \in Calls, Others(c), UNCHANGED crashes,
         call'[c].at # "drop" => call'[c].victims = {}, Leaves(c), Bounded(c)
  PROVE  LimitInv'
  <1>1. NoVictims'
    BY DEF LimitInv, NoVictims, Others
  <1>2. Covered'
    <2> SUFFICES ASSUME crashes = 0, NEW s \in Sids, hash'[s].full, s \notin index',
                        s \notin InFlight(call'[c])
                 PROVE  \E d \in Calls : s \in InFlight(call'[d])
      BY DEF Covered
    <2>1. hash[s].full /\ s \notin index /\ s \notin InFlight(call[c])
      BY DEF Leaves
    <2>2. PICK d \in Calls : s \in InFlight(call[d])
      BY <2>1 DEF LimitInv, Covered
    <2>3. call'[d] = call[d]
      BY <2>1, <2>2 DEF Others
    <2> QED
      BY <2>2, <2>3
  <1>3. IndexBound'
    <2> SUFFICES ASSUME crashes = 0, index' \subseteq index, ~Counts(c),
                        ~(Cardinality(index') <= MaxSessions)
                 PROVE  \E d \in Calls : Counts(d)'
      BY DEF IndexBound, Bounded, Counts
    <2>1. /\ Cardinality(index') \in Nat /\ Cardinality(index) \in Nat
          /\ Cardinality(index') <= Cardinality(index)
      BY CardOfIndex DEF Inv
    <2>2. PICK d \in Calls : Counts(d)
      BY <2>1, BoundsAssumption DEF LimitInv, IndexBound
    <2>3. call'[d] = call[d] /\ call[d].over \in Nat
      BY <2>2, BoundsAssumption DEF Others, Inv, TypeOK, Call
    <2> QED
      BY <2>1, <2>2, <2>3, BoundsAssumption DEF Counts
  <1> QED
    BY <1>1, <1>2, <1>3 DEF LimitInv

\* A call that stores nothing: no session appears or leaves the index with its fields.
CallCalm(c)  == Others(c) /\ call'[c].victims = {}
StoreCalm ==
  /\ index' \subseteq index
  /\ \A s \in Sids : hash'[s].full => hash[s].full /\ (s \in index => s \in index')

LEMMA CalmKeeps ==
  ASSUME Inv, LimitInv, NEW c \in Calls, call[c].at \notin Storing, CallCalm(c), StoreCalm,
         UNCHANGED crashes
  PROVE  LimitInv'
  <1>1. InFlight(call[c]) = {} /\ ~Counts(c)
    BY DEF LimitInv, NoVictims, InFlight, Counts, Storing
  <1> QED
    BY <1>1, LimitMoves DEF CallCalm, StoreCalm, Leaves, Bounded

LEMMA CalmCalls ==
  ASSUME TypeOK, NEW c \in Calls, call[c].victims = {}
  PROVE  /\ \A p \in Points : Goes(c, p) => CallCalm(c)
         /\ Ends(c) \/ Refused(c) \/ Unsure(c) \/ Touch(c) \/ AfterUse(c) => CallCalm(c)
  <1>1. call \in [Calls -> Call] /\ call[c] \in Call
    BY DEF TypeOK
  <1>2. \A p : Goes(c, p) => CallCalm(c)
    BY <1>1 DEF Goes, CallCalm, Others, Call
  <1>3. Ends(c) => CallCalm(c)
    BY <1>1 DEF Ends, CallCalm, Others, NoCall
  <1>4. Refused(c) => CallCalm(c)
    BY <1>2, <1>3 DEF Refused
  <1>5. Unsure(c) => CallCalm(c)
    BY <1>1, <1>3 DEF Unsure, CallCalm, Others, Call
  <1>6. AfterUse(c) => CallCalm(c)
    BY <1>2, <1>3 DEF AfterUse
  <1>7. Touch(c) => CallCalm(c)
    BY <1>2, <1>6 DEF Touch
  <1> QED
    BY <1>2, <1>3, <1>4, <1>5, <1>6, <1>7

LEMMA CalmStores ==
  ASSUME TypeOK, NEW s
  PROVE  /\ UNCHANGED store => StoreCalm
         /\ Drop(s) => StoreCalm
         /\ Found(s) \/ Missing(s) => StoreCalm
         /\ UNCHANGED index /\ hash' = [hash EXCEPT ![s] = WithExp(@)] => StoreCalm
         /\ UNCHANGED index /\ hash' = [hash EXCEPT ![s] = WithPortal(@)] => StoreCalm
  <1>1. hash \in [Sids -> Hash \cup {Absent}] /\ index \subseteq Sids
    BY DEF TypeOK
  <1>2. UNCHANGED store => StoreCalm
    BY DEF store, StoreCalm
  <1>3. Drop(s) => StoreCalm
    BY <1>1 DEF Drop, StoreCalm, Absent
  <1>4. \A h \in Hash \cup {Absent} : WithExp(h).full = h.full /\ WithPortal(h).full = h.full
    BY DEF WithExp, WithPortal, Hash, Absent
  <1>5. \A r \in Sids : hash[r] \in Hash \cup {Absent}
    BY <1>1
  <1>6. UNCHANGED index /\ hash' = [hash EXCEPT ![s] = WithExp(@)] => StoreCalm
    BY <1>1, <1>4, <1>5 DEF StoreCalm
  <1>7. UNCHANGED index /\ hash' = [hash EXCEPT ![s] = WithPortal(@)] => StoreCalm
    BY <1>1, <1>4, <1>5 DEF StoreCalm
  <1> QED
    BY <1>2, <1>3, <1>6, <1>7 DEF Found, Missing

LEMMA UseKeepsLimit ==
  ASSUME Inv, LimitInv, NEW c \in Calls, UseStep(c) PROVE LimitInv'
  <1> USE DEF bounds
  <1>1. TypeOK /\ call \in [Calls -> Call] /\ (call[c].at \notin Storing => call[c].victims = {})
    BY DEF Inv, TypeOK, LimitInv, NoVictims, Storing
  <1>2. CASE StartQuery(c)
    <2>1. call[c].at \notin Storing /\ UNCHANGED crashes
      BY <1>2 DEF StartQuery, Storing
    <2>2. PICK s : \/ /\ Found(s)
                      /\ \E at \in {FirstUse(s), "slide"} :
                           call' = [call EXCEPT ![c] = [NoCall EXCEPT !.at = at, !.sid = s]]
                   \/ Missing(s) /\ UNCHANGED call
      BY <1>2 DEF StartQuery
    <2>3. CallCalm(c)
      BY <1>1, <2>1, <2>2 DEF CallCalm, Others, NoCall
    <2>4. StoreCalm
      BY <1>1, <2>2, CalmStores
    <2> QED
      BY <2>1, <2>3, <2>4, CalmKeeps
  <1>3. CASE Cold(c)
    <2>1. call[c].at \notin Storing /\ UNCHANGED crashes
      BY <1>3 DEF Cold, Storing
    <2>2. StoreCalm
      BY <1>1, <1>3, CalmStores DEF Cold
    <2>3. CallCalm(c)
      BY <1>1, <1>3, <2>1, CalmCalls DEF Cold, Points
    <2> QED
      BY <2>1, <2>2, <2>3, CalmKeeps
  <1>4. CASE Student(c)
    <2>1. call[c].at \notin Storing /\ UNCHANGED crashes
      BY <1>4 DEF Student, Storing
    <2>2. StoreCalm
      BY <1>1, <1>4, CalmStores DEF Student
    <2>3. CallCalm(c)
      BY <1>1, <1>4, <2>1, CalmCalls DEF Student, Points
    <2> QED
      BY <2>1, <2>2, <2>3, CalmKeeps
  <1>5. CASE Refresh(c)
    <2>1. call[c].at \notin Storing /\ UNCHANGED crashes
      BY <1>5 DEF Refresh, Storing
    <2>2. StoreCalm
      BY <1>1, <1>5, CalmStores DEF Refresh
    <2>3. CallCalm(c)
      BY <1>1, <1>5, <2>1, CalmCalls DEF Refresh, Points
    <2> QED
      BY <2>1, <2>2, <2>3, CalmKeeps
  <1>6. CASE Ask(c)
    <2>1. call[c].at \notin Storing /\ UNCHANGED crashes
      BY <1>6 DEF Ask, Storing
    <2>2. StoreCalm
      BY <1>1, <1>6, CalmStores DEF Ask
    <2>3. CallCalm(c)
      BY <1>1, <1>6, <2>1, CalmCalls DEF Ask, Points
    <2> QED
      BY <2>1, <2>2, <2>3, CalmKeeps
  <1>7. CASE Slide(c)
    <2>1. call[c].at \notin Storing /\ UNCHANGED crashes
      BY <1>7 DEF Slide, Storing
    <2>2. StoreCalm
      <3>1. UNCHANGED index /\ hash' = [hash EXCEPT ![call[c].sid] = WithExp(@)]
        BY <1>7 DEF Slide
      <3> QED
        BY <1>1, <3>1, CalmStores
    <2>3. CallCalm(c)
      BY <1>1, <1>7, <2>1, CalmCalls DEF Slide
    <2> QED
      BY <2>1, <2>2, <2>3, CalmKeeps
  <1>8. CASE Invalidate(c)
    <2>1. call[c].at \notin Storing /\ UNCHANGED crashes
      BY <1>8 DEF Invalidate, Storing
    <2>2. StoreCalm
      BY <1>1, <1>8, CalmStores DEF Invalidate
    <2>3. CallCalm(c)
      BY <1>1, <1>8, <2>1, CalmCalls DEF Invalidate
    <2> QED
      BY <2>1, <2>2, <2>3, CalmKeeps
  <1> QED
    BY <1>2, <1>3, <1>4, <1>5, <1>6, <1>7, <1>8 DEF UseStep

\* The steps of a login before and after it stores the session.
LEMMA LoginCalm ==
  ASSUME Inv, LimitInv, NEW c \in Calls,
         \/ StartLogin(c) \/ HandOut(c) \/ SchoolLogin(c) \/ LoginFails(c) \/ WarmUp(c)
         \/ WarmRefresh(c)
  PROVE  LimitInv'
  <1> USE DEF bounds
  <1>1. TypeOK /\ call \in [Calls -> Call] /\ (call[c].at \notin Storing => call[c].victims = {})
    BY DEF Inv, TypeOK, LimitInv, NoVictims, Storing
  <1>2. CASE StartLogin(c)
    <2>1. call[c].at \notin Storing /\ UNCHANGED crashes
      BY <1>2 DEF StartLogin, Storing
    <2>2. StoreCalm
      BY <1>1, <1>2, CalmStores DEF StartLogin
    <2>3. PICK k : call' = [call EXCEPT ![c] = k] /\ k.victims = {}
      <3>1. PICK u \in Users : FirstStep(c, u)
        BY <1>2 DEF StartLogin
      <3>2. CASE call' = [call EXCEPT ![c] = [NoCall EXCEPT !.at = "school", !.user = u]]
        <4> DEFINE k == [NoCall EXCEPT !.at = "school", !.user = u]
        <4>1. call' = [call EXCEPT ![c] = k] /\ k.victims = {}
          BY <3>2 DEF NoCall
        <4> HIDE DEF k
        <4> QED
          BY <4>1
      <3>3. CASE \E s : call' = [call EXCEPT ![c] =
                                   [NoCall EXCEPT !.at = FirstUse(s), !.user = u, !.sid = s]]
        <4>1. PICK s : call' = [call EXCEPT ![c] =
                                  [NoCall EXCEPT !.at = FirstUse(s), !.user = u, !.sid = s]]
          BY <3>3
        <4> DEFINE k == [NoCall EXCEPT !.at = FirstUse(s), !.user = u, !.sid = s]
        <4>2. call' = [call EXCEPT ![c] = k] /\ k.victims = {}
          BY <4>1 DEF NoCall
        <4> HIDE DEF k
        <4> QED
          BY <4>2
      <3> QED
        BY <3>1, <3>2, <3>3 DEF FirstStep
    <2>4. CallCalm(c)
      BY <1>1, <2>3 DEF CallCalm, Others
    <2> QED
      BY <2>1, <2>2, <2>4, CalmKeeps
  <1>3. CASE HandOut(c)
    <2>1. call[c].at \notin Storing /\ UNCHANGED crashes
      BY <1>3 DEF HandOut, Storing
    <2>2. StoreCalm
      BY <1>1, <1>3, CalmStores DEF HandOut
    <2>3. CallCalm(c)
      BY <1>1, <1>3, <2>1, CalmCalls DEF HandOut, Points
    <2> QED
      BY <2>1, <2>2, <2>3, CalmKeeps
  <1>4. CASE SchoolLogin(c)
    <2>1. call[c].at \notin Storing /\ UNCHANGED crashes
      BY <1>4 DEF SchoolLogin, Storing
    <2>2. StoreCalm
      BY <1>1, <1>4, CalmStores DEF SchoolLogin
    <2>3. CallCalm(c)
      BY <1>1, <1>4, <2>1 DEF SchoolLogin, CallCalm, Others, Call
    <2> QED
      BY <2>1, <2>2, <2>3, CalmKeeps
  <1>5. CASE LoginFails(c)
    <2>1. call[c].at \notin Storing /\ UNCHANGED crashes
      BY <1>5 DEF LoginFails, Storing
    <2>2. StoreCalm
      BY <1>1, <1>5, CalmStores DEF LoginFails
    <2>3. CallCalm(c)
      BY <1>1, <1>5, <2>1, CalmCalls DEF LoginFails
    <2> QED
      BY <2>1, <2>2, <2>3, CalmKeeps
  <1>6. CASE WarmUp(c)
    <2>1. call[c].at \notin Storing /\ UNCHANGED crashes
      BY <1>6 DEF WarmUp, Storing
    <2>2. StoreCalm
      BY <1>1, <1>6, CalmStores DEF WarmUp
    <2>3. CallCalm(c)
      BY <1>1, <1>6, <2>1, CalmCalls DEF WarmUp, Points
    <2> QED
      BY <2>1, <2>2, <2>3, CalmKeeps
  <1>7. CASE WarmRefresh(c)
    <2>1. call[c].at \notin Storing /\ UNCHANGED crashes
      BY <1>7 DEF WarmRefresh, Storing
    <2>2. StoreCalm
      <3>1. UNCHANGED index /\ hash' = [hash EXCEPT ![call[c].sid] = WithPortal(@)]
        BY <1>7 DEF WarmRefresh
      <3> QED
        BY <1>1, <3>1, CalmStores
    <2>3. CallCalm(c)
      BY <1>1, <1>7, <2>1, CalmCalls DEF WarmRefresh
    <2> QED
      BY <2>1, <2>2, <2>3, CalmKeeps
  <1> QED
    BY <1>2, <1>3, <1>4, <1>5, <1>6, <1>7

LEMMA StoreHashCovers == ASSUME Inv, LimitInv, NEW c \in Calls, StoreHash(c) PROVE LimitInv'
  <1> USE DEF bounds
  <1>1. TypeOK /\ call \in [Calls -> Call] /\ call[c].at = "verify" /\ call[c].victims = {}
    BY DEF StoreHash, Inv, TypeOK, LimitInv, NoVictims
  <1>2. UNCHANGED <<index, crashes>> /\ ~Counts(c) /\ InFlight(call[c]) = {}
    BY <1>1 DEF StoreHash, Counts, InFlight
  <1>3. CallCalm(c) /\ call'[c].at = "sadd" /\ call'[c].sid = call[c].sid
    BY <1>1, CalmCalls, GoesMove DEF StoreHash, Points, Storing
  <1>4. \A s \in Sids \ {call[c].sid} : hash'[s] = hash[s]
    BY <1>1 DEF StoreHash, TypeOK
  <1>5. Leaves(c)
    BY <1>2, <1>3, <1>4 DEF Leaves, InFlight
  <1> QED
    BY <1>2, <1>3, <1>5, LimitMoves DEF CallCalm, Bounded

LEMMA StoreUserCovers == ASSUME Inv, LimitInv, NEW c \in Calls, StoreUser(c) PROVE LimitInv'
  <1> USE DEF bounds
  <1>1. TypeOK /\ call \in [Calls -> Call] /\ call[c].at = "sadd" /\ call[c].victims = {}
    BY DEF StoreUser, Inv, TypeOK, LimitInv, NoVictims
  <1>2. UNCHANGED <<index, crashes>> /\ ~Counts(c)
    BY <1>1 DEF StoreUser, Counts
  <1>3. CallCalm(c) /\ call'[c].at = "zadd" /\ call'[c].sid = call[c].sid
    BY <1>1, CalmCalls, GoesMove DEF StoreUser, Points, Storing
  <1>4. \A s \in Sids : hash'[s].full => hash[s].full
    <2>1. \A s \in Sids : hash[s] \in Hash \cup {Absent}
      BY <1>1 DEF TypeOK
    <2>2. hash' \in {hash, [hash EXCEPT ![call[c].sid].listed = TRUE]}
      BY DEF StoreUser
    <2>3. hash \in [Sids -> Hash \cup {Absent}]
      BY <1>1 DEF TypeOK
    <2>4. ASSUME NEW s \in Sids PROVE hash'[s].full => hash[s].full
      BY <2>1, <2>2, <2>3 DEF Hash, Absent
    <2> QED
      BY <2>4
  <1>5. Leaves(c)
    BY <1>1, <1>2, <1>3, <1>4 DEF Leaves, InFlight
  <1> QED
    BY <1>2, <1>3, <1>5, LimitMoves DEF CallCalm, Bounded

LEMMA StoreIndexCovers == ASSUME Inv, LimitInv, NEW c \in Calls, StoreIndex(c) PROVE LimitInv'
  <1> USE DEF bounds
  <1> DEFINE n == Cardinality(index')
  <1>1. /\ TypeOK /\ call \in [Calls -> Call] /\ call[c] \in Call
        /\ call[c].at = "zadd" /\ call[c].victims = {} /\ call[c].sid \in Sids
    BY SidKnown DEF StoreIndex, Inv, TypeOK, LimitInv, NoVictims
  <1>2. UNCHANGED <<hash, crashes>> /\ index' = index \cup {call[c].sid}
    BY DEF StoreIndex
  <1>3. n \in Nat
    BY <1>1, <1>2, OverBounded, BoundsAssumption DEF TypeOK
  <1>4. InFlight(call[c]) = {call[c].sid}
    BY <1>1 DEF InFlight
  <1>5. Leaves(c)
    BY <1>2, <1>4 DEF Leaves
  <1> HIDE DEF n
  <1>6. CASE n <= MaxSessions /\ Goes(c, "drop")
    <2>1. CallCalm(c)
      BY <1>1, <1>6, CalmCalls DEF Points, Storing
    <2> QED
      BY <1>2, <1>5, <1>6, <2>1, LimitMoves DEF CallCalm, Bounded, n
  <1>7. CASE /\ n > MaxSessions
             /\ call' = [call EXCEPT ![c].at = "evict", ![c].over = n - MaxSessions]
    <2>1. /\ Others(c) /\ call'[c].at = "evict" /\ call'[c].over = n - MaxSessions
          /\ call'[c].victims = {}
      BY <1>1, <1>7 DEF Others, Call
    <2>2. n <= MaxSessions + call'[c].over
      BY <1>3, <2>1, BoundsAssumption
    <2> QED
      BY <1>2, <1>5, <2>1, <2>2, LimitMoves DEF Bounded, n
  <1> QED
    BY <1>6, <1>7 DEF StoreIndex, n

LEMMA EvictCovers == ASSUME Inv, LimitInv, NEW c \in Calls, Evict(c) PROVE LimitInv'
  <1> USE DEF bounds
  <1> DEFINE S == Oldest(call[c].over)
  <1>1. /\ TypeOK /\ call \in [Calls -> Call] /\ call[c] \in Call
        /\ call[c].at = "evict" /\ call[c].victims = {} /\ call[c].over \in Nat
    BY BoundsAssumption DEF Evict, Inv, TypeOK, LimitInv, NoVictims, Call
  <1>2. UNCHANGED <<hash, crashes>> /\ index' = index \ S
    BY DEF Evict
  <1>3. Others(c) /\ call'[c].at = "drop" /\ call'[c].victims = S
    BY <1>1 DEF Evict, Others, Call
  <1>4. InFlight(call[c]) = {} /\ InFlight(call'[c]) = S
    BY <1>1, <1>3 DEF InFlight
  <1>5. Leaves(c)
    BY <1>2, <1>4 DEF Leaves
  <1>6. Counts(c) => Cardinality(index') <= MaxSessions
    <2>1. index \subseteq Nat /\ IsFiniteSet(index)
      BY <1>1, CardOfIndex, BoundsAssumption DEF TypeOK, Sids
    <2>2. S = {s \in index : Cardinality(Below(index, s)) < call[c].over}
      BY DEF Oldest, Below
    <2> QED
      BY <1>1, <1>2, <2>1, <2>2, PopLeaves, BoundsAssumption DEF Counts
  <1>7. Bounded(c)
    BY <1>2, <1>6 DEF Bounded
  <1> QED
    BY <1>2, <1>3, <1>5, <1>7, LimitMoves

LEMMA DropVictimCovers == ASSUME Inv, LimitInv, NEW c \in Calls, DropVictim(c) PROVE LimitInv'
  <1> USE DEF bounds
  <1>1. /\ TypeOK /\ call \in [Calls -> Call] /\ call[c] \in Call /\ call[c].at = "drop"
        /\ call[c].victims \subseteq Sids /\ UNCHANGED crashes
    BY DEF DropVictim, Inv, TypeOK, Call
  <1>2. PICK s \in call[c].victims : Drop(s) /\ call' = [call EXCEPT ![c].victims = @ \ {s}]
    BY DEF DropVictim
  <1>3. Others(c) /\ call'[c].at = "drop" /\ call'[c].victims = call[c].victims \ {s}
    BY <1>1, <1>2 DEF Others, Call
  <1>4. index' = index \ {s} /\ \A r \in Sids : hash'[r] = IF r = s THEN Absent ELSE hash[r]
    BY <1>1, <1>2 DEF Drop, TypeOK
  <1>5. Leaves(c)
    BY <1>1, <1>3, <1>4 DEF Leaves, InFlight, Absent
  <1>6. Bounded(c)
    BY <1>1, <1>4 DEF Bounded, Counts
  <1> QED
    BY <1>1, <1>3, <1>5, <1>6, LimitMoves

LEMMA CreatedCovers == ASSUME Inv, LimitInv, NEW c \in Calls, Created(c) PROVE LimitInv'
  <1> USE DEF bounds, store
  <1>1. /\ TypeOK /\ call \in [Calls -> Call] /\ call[c].at = "drop" /\ call[c].victims = {}
        /\ UNCHANGED <<hash, index, crashes>>
    BY DEF Created, Inv, TypeOK
  <1>2. CallCalm(c)
    BY <1>1, CalmCalls DEF Created, CallCalm, Others, NoCall
  <1>3. InFlight(call[c]) = {} /\ ~Counts(c)
    BY <1>1 DEF InFlight, Counts
  <1>4. Leaves(c) /\ Bounded(c)
    BY <1>1, <1>3 DEF Leaves, Bounded
  <1> QED
    BY <1>1, <1>2, <1>4, LimitMoves DEF CallCalm

\* Time, the school and the sweeper, which removes from the index what cannot be found.
LEMMA StoreOnlyCovers ==
  ASSUME Inv, LimitInv, StoreCalm, UNCHANGED <<call, crashes>> PROVE LimitInv'
  <1>1. NoVictims' /\ Covered'
    BY DEF LimitInv, NoVictims, Covered, StoreCalm
  <1>2. IndexBound'
    <2> SUFFICES ASSUME crashes = 0 PROVE IndexBound'
      BY DEF IndexBound
    <2>1. /\ Cardinality(index') \in Nat /\ Cardinality(index) \in Nat
          /\ Cardinality(index') <= Cardinality(index)
      BY CardOfIndex DEF Inv, StoreCalm
    <2>2. \A d \in Calls : call[d].over \in Nat
      BY BoundsAssumption DEF Inv, TypeOK, Call
    <2> QED
      BY <2>1, <2>2, BoundsAssumption DEF LimitInv, IndexBound, Counts
  <1> QED
    BY <1>1, <1>2 DEF LimitInv

LEMMA WorldCovers ==
  ASSUME Inv, LimitInv,
         \/ \E s \in Sids : Ages(s)
         \/ \E u \in Users : LeaseExpires(u) \/ SchoolForgets(u)
         \/ Sweep \/ UNCHANGED vars
  PROVE  LimitInv'
  <1> USE DEF bounds, store
  <1>1. UNCHANGED <<call, crashes>>
    BY DEF Ages, LeaseExpires, SchoolForgets, Sweep, vars
  <1>2. ASSUME NEW s \in Sids, Ages(s) PROVE StoreCalm
    <2>1. \A r \in Sids : hash[r] \in Hash \cup {Absent}
      BY DEF Inv, TypeOK
    <2>2. ASSUME NEW l \in {"old", "expired"}, hash' = [hash EXCEPT ![s].life = l]
          PROVE  StoreCalm
      <3>1. [hash[s] EXCEPT !.life = l].full = hash[s].full
        BY <2>1 DEF Hash, Absent
      <3>2. \A r \in Sids : hash'[r] = IF r = s THEN [hash[s] EXCEPT !.life = l] ELSE hash[r]
        BY <2>2 DEF Inv, TypeOK
      <3> QED
        BY <1>2, <3>1, <3>2 DEF StoreCalm, Ages
    <2>3. CASE hash' = [hash EXCEPT ![s] = Absent]
      BY <1>2, <2>3 DEF Inv, TypeOK, Absent, StoreCalm, Ages
    <2> QED
      BY <1>2, <2>2, <2>3 DEF Ages
  <1>3. Sweep => StoreCalm
    BY DEF Sweep, StoreCalm, Stored, Absent
  <1>4. UNCHANGED store => StoreCalm
    BY DEF StoreCalm
  <1>5. StoreCalm
    BY <1>2, <1>3, <1>4 DEF LeaseExpires, SchoolForgets, vars
  <1> QED
    BY <1>1, <1>5, StoreOnlyCovers

LEMMA CrashCovers == ASSUME Inv, LimitInv, NEW c \in Calls, Crash(c) PROVE LimitInv'
  <1>1. crashes' # 0
    BY DEF Crash, Inv, TypeOK
  <1>2. NoVictims'
    BY DEF Crash, Inv, TypeOK, LimitInv, NoVictims, NoCall
  <1> QED
    BY <1>1, <1>2 DEF LimitInv, Covered, IndexBound

LEMMA LimitKeeps == Inv /\ LimitInv /\ [Next]_vars => LimitInv'
  <1> SUFFICES ASSUME Inv, LimitInv, [Next]_vars PROVE LimitInv'
    OBVIOUS
  <1>1. ASSUME NEW c \in Calls, LoginStep(c) PROVE LimitInv'
    BY <1>1, LoginCalm, StoreHashCovers, StoreUserCovers, StoreIndexCovers, EvictCovers,
       DropVictimCovers, CreatedCovers DEF LoginStep
  <1> QED
    BY <1>1, UseKeepsLimit, CrashCovers, WorldCovers DEF Next

LEMMA InitLimit == Init => LimitInv
  <1> SUFFICES ASSUME Init PROVE LimitInv
    OBVIOUS
  <1>1. NoVictims /\ Covered
    BY DEF Init, NoVictims, Covered, NoCall, Absent
  <1>2. IndexBound
    BY FS_EmptySet, BoundsAssumption DEF Init, IndexBound
  <1> QED
    BY <1>1, <1>2 DEF LimitInv

\* What can be found and is not in flight is in the index, which is bounded.
LEMMA BoundedByIndex == ASSUME Inv, LimitInv PROVE LimitKept
  <1> DEFINE settled == {s \in Sids : hash[s].full} \ UNION {InFlight(call[c]) : c \in Calls}
  <1> SUFFICES ASSUME crashes = 0
               PROVE  \/ Cardinality(settled) <= MaxSessions
                      \/ \E c \in Calls : call[c].at = "evict"
                           /\ Cardinality(settled) <= MaxSessions + call[c].over
    BY DEF LimitKept
  <1>1. settled \subseteq index
    BY DEF LimitInv, Covered
  <1> HIDE DEF settled
  <1>2. /\ Cardinality(settled) \in Nat /\ Cardinality(index) \in Nat
        /\ Cardinality(settled) <= Cardinality(index)
    BY <1>1, CardOfIndex DEF Inv
  <1>3. \A d \in Calls : call[d].over \in Nat
    BY BoundsAssumption DEF Inv, TypeOK, Call
  <1> QED
    BY <1>2, <1>3, BoundsAssumption DEF LimitInv, IndexBound, Counts

-----------------------------------------------------------------------------
(* The theorems.                                                           *)

LEMMA InitInv == Init => Inv
  <1> SUFFICES ASSUME Init PROVE Inv
    OBVIOUS
  <1>1. /\ \A c \in Calls : call[c] = NoCall
        /\ \A s \in Sids : hash[s] = Absent
        /\ \A u \in Users : school[u] = 0
    BY DEF Init
  <1>2. TypeOK
    BY NoCallType, BoundsAssumption DEF Init, TypeOK
  <1>3. Placed /\ Locked /\ Probed /\ KnowsBest /\ NoSelfKick
    BY <1>1 DEF Placed, Locked, Probed, KnowsBest, NoSelfKick, IsLogin, NoCall, LoginOnly, Storing
  <1>4. SchoolLatest /\ ListedSoon
    BY <1>1 DEF SchoolLatest, ListedSoon, Unlisted, Absent
  <1> QED
    BY <1>2, <1>3, <1>4 DEF Inv

LEMMA NextKeeps == Inv /\ [Next]_vars => Inv'
  <1> SUFFICES ASSUME Inv, [Next]_vars PROVE Inv'
    OBVIOUS
  <1>1. ASSUME NEW c \in Calls, LoginStep(c) PROVE Inv'
    BY <1>1, StartLoginKeeps, HandOutKeeps, SchoolLoginKeeps, LoginFailsKeeps, StoreHashKeeps,
       StoreUserKeeps, StoreIndexKeeps, EvictKeeps, DropVictimKeeps, CreatedKeeps, WarmUpKeeps,
       WarmRefreshKeeps DEF LoginStep
  <1>2. ASSUME NEW c \in Calls, UseStep(c) PROVE Inv'
    BY <1>2, StartQueryKeeps, ColdKeeps, StudentKeeps, RefreshKeeps, AskKeeps, SlideKeeps,
       InvalidateKeeps DEF UseStep
  <1>3. ASSUME UNCHANGED vars PROVE Inv'
    <2>1. HashMove /\ Steady /\ UNCHANGED <<call, lock>>
      BY <1>3, SameStore DEF vars, Steady, Inv
    <2> QED
      BY <2>1, StoreOnlyKeeps
  <1> QED
    BY <1>1, <1>2, <1>3, CrashKeeps, AgesKeeps, LeaseExpiresKeeps, SchoolForgetsKeeps, SweepKeeps
       DEF Next

LEMMA InvHolds == Spec => []Inv
  <1>1. QED
    BY InitInv, NextKeeps, PTL DEF Spec

\* Every variable keeps its type: among others, the commands that write a field of a hash
\* after EXISTS leave it with a time of expiry, and the index never overflows into a negative
\* number of sessions to drop.
THEOREM TypeCorrect == Spec => []TypeOK
  <1>1. Inv => TypeOK
    BY DEF Inv
  <1> QED
    BY <1>1, InvHolds, PTL

\* However the calls, the queries on the same session, the sweeper, time and the school
\* interleave, the session that a login hands out for reuse is the user's latest login, as long
\* as no lease of a login lock has run out under its holder.
THEOREM ReuseIsNewest == Spec => HandsOutNewest
  <1> DEFINE A == \A c \in Calls : call[c].at = "confirm" /\ call'[c].at = "idle" =>
                    \/ outlived > 0 \/ crashes' > crashes
                    \/ \A s \in 1..Len(logins) : Owner(s) = call[c].user => s <= call[c].sid
  <1>1. Inv => A
    <2> SUFFICES ASSUME Inv, NEW c \in Calls, call[c].at = "confirm", ~(outlived > 0)
                 PROVE  \A s \in 1..Len(logins) : Owner(s) = call[c].user => s <= call[c].sid
      OBVIOUS
    <2>1. outlived = 0 /\ IsLogin(c)
      BY DEF Inv, TypeOK, Placed, LoginOnly
    <2> QED
      BY <2>1 DEF Inv, Probed, Latest, Owner
  <1>2. Inv => [A]_vars
    BY <1>1
  <1> HIDE DEF A
  <1>3. Spec => [][A]_vars
    BY <1>2, InvHolds, PTL
  <1> QED
    BY <1>3 DEF HandsOutNewest, A

\* A login that goes to the school for a new session, and so ends the one the school has, has
\* not missed a session of the user that could have been reused, unless the probe of it ended
\* without a verdict, a process died or a lease ran out.
THEOREM LiveSessionIsReused == Spec => []NoSelfKick
  <1>1. Inv => NoSelfKick
    BY DEF Inv
  <1> QED
    BY <1>1, InvHolds, PTL

\* MAX_SESSIONS is kept however logins overlap and whatever queries, the sweeper and time do to
\* the store in between: unless a process died between its commands, the sessions beyond it are
\* those of calls that are still adding or dropping them, or have been counted to be popped next.
THEOREM StoreStaysWithinLimit == Spec => []LimitKept
  <1>1. Init => Inv /\ LimitInv
    BY InitInv, InitLimit
  <1>2. Inv /\ LimitInv /\ [Next]_vars => (Inv /\ LimitInv)'
    BY NextKeeps, LimitKeeps
  <1>3. Inv /\ LimitInv => LimitKept
    BY BoundedByIndex
  <1> QED
    BY <1>1, <1>2, <1>3, PTL DEF Spec
=============================================================================
