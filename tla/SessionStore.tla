---------------------------- MODULE SessionStore ----------------------------
(***************************************************************************)
(* Sessions of the query service kept in Redis (RedisSessionStore and      *)
(* RedisKeyedLocks of jwxt_redis.py) and the handlers that use them: a     *)
(* login that reuses or replaces a session (jwxt_http.py), a query with a  *)
(* session and the warm-up in the background (jwxt_state.py).              *)
(*                                                                         *)
(* A step is one Redis command that writes, one MULTI or the end of one    *)
(* exchange with the school, with the reads that follow it; an EXPIRE is   *)
(* part of the command before it, and a lock is taken with the first step  *)
(* under it and released with the last.  A session id is the number of the *)
(* login at the school, so ids are in the order of the field "at".  The    *)
(* school keeps one session per user: a new login ends the one before.     *)
(* LOGIN_REUSE_MAX_AGE is taken to be shorter than the TTL, as in the      *)
(* defaults: a young session is valid.                                     *)
(***************************************************************************)
EXTENDS Naturals, Sequences, FiniteSets

CONSTANTS Users, Calls,
          MaxSessions,     \* MAX_SESSIONS
          MaxLogins,       \* bound: logins at the school
          MaxMishaps,      \* bound: deaths of a call's process, leases of a login lock that
                           \* run out under its holder
          Nobody           \* no user, no call; "left" is the lock of a call that has died

ASSUME BoundsAssumption ==
  MaxSessions \in Nat \ {0} /\ MaxLogins \in Nat /\ MaxMishaps \in Nat
ASSUME NobodyAssumption == Nobody \notin Users \cup Calls /\ "left" \notin Calls

Sids == 1..MaxLogins

VARIABLES hash,          \* keys session:<sid>, and whether user:<username> has the sid
          index,         \* zset session-index
          lock,          \* keys lock:<username>
          logins,        \* the user of every login at the school, in order
          school,        \* the session of a user that the school accepts, 0 if none
          call,          \* what each thread is doing
          outlived, crashes

store == <<hash, index>>
bounds == <<outlived, crashes>>
vars == <<store, lock, logins, school, call, bounds>>

\* The fields of a hash that matter.  full: those that create() writes are there; life: "young"
\* (at), "old" (exp is ahead) or "expired"; warm: portal has "stu".  listed: the set of the
\* user has the session.  Only create() sets the TTL of that set, but it is the TTL of the
\* sessions and only young ones are looked for, so its expiry hides nothing.
Hash == [full : BOOLEAN, life : {"young", "old", "expired"}, warm : BOOLEAN, listed : BOOLEAN]
Absent == [full |-> FALSE, life |-> "none", warm |-> FALSE, listed |-> FALSE]

Storing == {"sadd", "zadd", "evict", "drop"}
Points  == {"idle", "cold", "student", "refresh", "ask", "slide", "invalidate",
            "confirm", "school", "verify", "warmup", "portal"} \cup Storing

\* user: of a login, Nobody for a query; over: sessions above the limit; victims: popped from
\* the index and not yet dropped; shaky: the probe ended without a verdict.
NoCall == [at |-> "idle", user |-> Nobody, sid |-> 0, over |-> 0, victims |-> {}, shaky |-> FALSE]
Call == [at : Points, user : Users \cup {Nobody}, sid : 0..MaxLogins, over : 0..MaxLogins,
         victims : SUBSET Sids, shaky : BOOLEAN]

\* Types of all variables: in particular the overflow of the index is never negative.
TypeOK ==
  /\ hash \in [Sids -> Hash \cup {Absent}]
  /\ index \subseteq Sids
  /\ lock \in [Users -> Calls \cup {Nobody, "left"}]
  /\ logins \in Seq(Users) /\ Len(logins) <= MaxLogins
  /\ school \in [Users -> 0..MaxLogins]
  /\ call \in [Calls -> Call]
  /\ outlived \in 0..MaxMishaps /\ crashes \in 0..MaxMishaps

Init ==
  /\ hash = [s \in Sids |-> Absent] /\ index = {}
  /\ lock = [u \in Users |-> Nobody] /\ logins = <<>> /\ school = [u \in Users |-> 0]
  /\ call = [c \in Calls |-> NoCall]
  /\ outlived = 0 /\ crashes = 0

Stored(s) == hash[s] # Absent
Owner(s)  == logins[s]
IsLogin(c) == call[c].user # Nobody
Alive(s)  == school[Owner(s)] = s
Goes(c, at) == call' = [call EXCEPT ![c].at = at] /\ UNCHANGED lock

\* The call is over.  _release() deletes the holder's own token only (with the token gone the
\* comparison raises, and the login answers with an error).
Release(c) == lock' = [u \in Users |-> IF lock[u] = c THEN Nobody ELSE lock[u]]
Ends(c) == call' = [call EXCEPT ![c] = NoCall] /\ Release(c)

-----------------------------------------------------------------------------
(* Commands of RedisSessionStore.                                          *)

\* _drop()
Drop(s) == hash' = [hash EXCEPT ![s] = Absent] /\ index' = index \ {s}

\* get() finds a session, or finds none and drops one that is over.
Found(s)   == Stored(s) /\ hash[s].life # "expired" /\ UNCHANGED store
Missing(s) == \/ ~Stored(s) /\ UNCHANGED store
              \/ Stored(s) /\ hash[s].life = "expired" /\ Drop(s)

\* HSET exp, which creates the key if it has gone since EXISTS (and so does the next).
WithExp(h)    == IF h.life = "young" THEN h ELSE [h EXCEPT !.life = "old"]

\* HSET cookies, portal: a hash without exp counts as expired.
WithPortal(h) == IF h = Absent THEN [h EXCEPT !.life = "expired", !.warm = TRUE]
                               ELSE [h EXCEPT !.warm = TRUE]

\* Mutant: only sessions whose warm-up has ended are looked for.
ReusableWarm(u) ==
  {s \in 1..Len(logins) : Owner(s) = u /\ hash[s].full /\ hash[s].listed /\ hash[s].warm
                           /\ hash[s].life = "young"}

\* find_reusable(): the sessions of the user that are still young.
Reusable(u) ==
  {s \in 1..Len(logins) : Owner(s) = u /\ hash[s].full /\ hash[s].listed /\ hash[s].life = "young"}

-----------------------------------------------------------------------------
(* The use of a session: by a query, or by the probe of a login.           *)

\* The session is refused or gone: a login logs in, a query is answered with 401.
Refused(c) == IF IsLogin(c) THEN Goes(c, "school") ELSE Ends(c)

\* The school gave no verdict: a login logs in as well, a query reports it.
Unsure(c) ==
  IF IsLogin(c) THEN call' = [call EXCEPT ![c].at = "school", ![c].shaky = TRUE] /\ UNCHANGED lock
                ELSE Ends(c)

\* A session with a warm portal is used at once; any other waits for it.
FirstUse(s) == IF hash[s].warm THEN "ask" ELSE "cold"

\* touch() and refresh() ask EXISTS before they write.
AfterUse(c) == IF IsLogin(c) THEN Goes(c, "confirm") ELSE Ends(c)
Touch(c)    == IF Stored(call[c].sid) THEN Goes(c, "slide") ELSE AfterUse(c)

\* A query with a session that has been given to the client; a cached answer only touches it.
StartQuery(c) ==
  /\ call[c].at = "idle"
  /\ \E s \in 1..Len(logins) :
       /\ \A d \in Calls : call[d].sid = s => call[d].at \notin Storing \cup {"verify"}
       /\ \/ /\ Found(s) /\ UNCHANGED lock
             /\ \E at \in {FirstUse(s), "slide"} :
                  call' = [call EXCEPT ![c] = [NoCall EXCEPT !.at = at, !.sid = s]]
          \/ Stored(s) /\ Missing(s) /\ UNCHANGED <<call, lock>>
  /\ UNCHANGED <<logins, school, bounds>>

\* _ensure_warmed(), after the wait: warmed by now, or to be warmed here with the cookies of
\* the hash, of which one without create()'s fields has none.
Cold(c) ==
  LET s == call[c].sid IN
  /\ call[c].at = "cold"
  /\ \/ Found(s) /\ hash[s].warm /\ Goes(c, "ask")
     \/ Found(s) /\ ~hash[s].warm /\ hash[s].full /\ Goes(c, "student")
     \/ Found(s) /\ ~hash[s].warm /\ ~hash[s].full /\ (Unsure(c) \/ Goes(c, "invalidate"))
     \/ Missing(s) /\ Refused(c)
  /\ UNCHANGED <<logins, school, bounds>>

\* student(): only a transient error leaves the session alone.
Student(c) ==
  LET s == call[c].sid IN
  /\ call[c].at = "student"
  /\ \/ Alive(s) /\ Stored(s) /\ Goes(c, "refresh")
     \/ Alive(s) /\ ~Stored(s) /\ Refused(c)
     \/ Goes(c, "invalidate")
     \/ Unsure(c)
  /\ UNCHANGED <<store, logins, school, bounds>>

\* refresh() writes the portal, and the session is read again.
Refresh(c) ==
  LET s == call[c].sid  h == WithPortal(hash[s]) IN
  /\ call[c].at = "refresh" /\ hash' = [hash EXCEPT ![s] = h]
  /\ Goes(c, IF h.life = "expired" THEN "invalidate" ELSE "ask")
  /\ UNCHANGED <<index, logins, school, bounds>>

\* verify() of a probe, or the query, whose failures other than a lost session are answers.
Ask(c) ==
  /\ call[c].at = "ask"
  /\ \/ Alive(call[c].sid) /\ Touch(c)
     \/ ~Alive(call[c].sid) /\ Goes(c, "invalidate")
     \/ IsLogin(c) /\ Unsure(c)
     \/ ~IsLogin(c) /\ Touch(c)
  /\ UNCHANGED <<store, logins, school, bounds>>

Slide(c) ==
  /\ call[c].at = "slide" /\ AfterUse(c)
  /\ hash' = [hash EXCEPT ![call[c].sid] = WithExp(@)]
  /\ UNCHANGED <<index, logins, school, bounds>>

Invalidate(c) ==
  /\ call[c].at = "invalidate" /\ Drop(call[c].sid) /\ Refused(c)
  /\ UNCHANGED <<logins, school, bounds>>

UseStep(c) == StartQuery(c) \/ Cold(c) \/ Student(c) \/ Refresh(c) \/ Ask(c) \/ Slide(c) \/ Invalidate(c)

-----------------------------------------------------------------------------
(* A login: POST /login, or a query with a password.                       *)

FirstStep(c, u) ==
  LET S == Reusable(u) IN
  \/ S = {} /\ call' = [call EXCEPT ![c] = [NoCall EXCEPT !.at = "school", !.user = u]]
  \/ \E s \in S :
       /\ \A r \in S : r <= s
       /\ call' = [call EXCEPT ![c] = [NoCall EXCEPT !.at = FirstUse(s), !.user = u, !.sid = s]]

\* Mutant: the lock is taken whoever has it.
StartLoginUnlocked(c) ==
  /\ call[c].at = "idle"
  /\ \E u \in Users : lock' = [lock EXCEPT ![u] = c] /\ FirstStep(c, u)
  /\ UNCHANGED <<store, logins, school, bounds>>

\* SET NX of the lock and find_reusable(), whose choice is the newest.  A login that waits for
\* the lock, or gives up, has changed nothing.
StartLogin(c) ==
  /\ call[c].at = "idle"
  /\ \E u \in Users : lock[u] = Nobody /\ lock' = [lock EXCEPT ![u] = c] /\ FirstStep(c, u)
  /\ UNCHANGED <<store, logins, school, bounds>>

\* After the probe: the reused session is the answer if the store still has it.
HandOut(c) ==
  /\ call[c].at = "confirm"
  /\ \/ Found(call[c].sid) /\ Ends(c)
     \/ Missing(call[c].sid) /\ Goes(c, "school")
  /\ UNCHANGED <<logins, school, bounds>>

\* j.login(): the school ends the session it had for the user.
SchoolLogin(c) ==
  LET u == call[c].user  s == Len(logins) + 1 IN
  /\ call[c].at = "school" /\ Len(logins) < MaxLogins
  /\ logins' = Append(logins, u) /\ school' = [school EXCEPT ![u] = s]
  /\ call' = [call EXCEPT ![c].at = "verify", ![c].sid = s, ![c].shaky = FALSE]
  /\ UNCHANGED <<store, lock, bounds>>

LoginFails(c) ==
  /\ call[c].at \in {"school", "verify"} /\ Ends(c)
  /\ UNCHANGED <<store, logins, school, bounds>>

\* create(): the new session has passed verify() and its hash is written.
StoreHash(c) ==
  /\ call[c].at = "verify" /\ Alive(call[c].sid) /\ Goes(c, "sadd")
  /\ hash' = [hash EXCEPT ![call[c].sid] = 
                [full |-> TRUE, life |-> "young", warm |-> FALSE, listed |-> FALSE]]
  /\ UNCHANGED <<index, logins, school, bounds>>

\* SADD (an expired or dropped hash leaves at most a member that finds nothing).
StoreUser(c) ==
  LET s == call[c].sid IN
  /\ call[c].at = "sadd" /\ Goes(c, "zadd")
  /\ hash' = IF Stored(s) THEN [hash EXCEPT ![s].listed = TRUE] ELSE hash
  /\ UNCHANGED <<index, logins, school, bounds>>

\* ZADD, and ZCARD to see whether there are too many.
StoreIndex(c) ==
  /\ call[c].at = "zadd" /\ index' = index \cup {call[c].sid}
  /\ LET n == Cardinality(index') IN
     \/ n <= MaxSessions /\ Goes(c, "drop")
     \/ /\ n > MaxSessions /\ UNCHANGED lock
        /\ call' = [call EXCEPT ![c].at = "evict", ![c].over = n - MaxSessions]
  /\ UNCHANGED <<hash, logins, school, bounds>>

\* Mutant: one less.
OldestButOne(n) == {s \in index : Cardinality({t \in index : t < s}) + 1 < n}

\* ZPOPMIN: as many of the oldest as there were too many.
Oldest(n) == {s \in index : Cardinality({t \in index : t < s}) < n}
Evict(c) ==
  LET S == Oldest(call[c].over) IN
  /\ call[c].at = "evict" /\ index' = index \ S
  /\ call' = [call EXCEPT ![c].at = "drop", ![c].over = 0, ![c].victims = S]
  /\ UNCHANGED <<hash, lock, logins, school, bounds>>

DropVictim(c) ==
  /\ call[c].at = "drop"
  /\ \E s \in call[c].victims :
       /\ \A r \in call[c].victims : s <= r
       /\ Drop(s) /\ call' = [call EXCEPT ![c].victims = @ \ {s}]
  /\ UNCHANGED <<lock, logins, school, bounds>>

\* The login is answered and its warm-up goes on in the background, or the pool is full and the
\* warm-up is left to the first query.
Created(c) ==
  /\ call[c].at = "drop" /\ call[c].victims = {}
  /\ \/ Ends(c)
     \/ /\ call' = [call EXCEPT ![c] = [NoCall EXCEPT !.at = "warmup", !.sid = call[c].sid]]
        /\ Release(c)
  /\ UNCHANGED <<store, logins, school, bounds>>

\* _warm_background(): the portal is opened, and refresh() writes it.
WarmUp(c) ==
  /\ call[c].at = "warmup"
  /\ \/ Alive(call[c].sid) /\ Stored(call[c].sid) /\ Goes(c, "portal")
     \/ Ends(c)
  /\ UNCHANGED <<store, logins, school, bounds>>

WarmRefresh(c) ==
  /\ call[c].at = "portal" /\ Ends(c)
  /\ hash' = [hash EXCEPT ![call[c].sid] = WithPortal(@)]
  /\ UNCHANGED <<index, logins, school, bounds>>

LoginStep(c) ==
  \/ StartLogin(c) \/ HandOut(c) \/ SchoolLogin(c) \/ LoginFails(c) \/ StoreHash(c)
  \/ StoreUser(c) \/ StoreIndex(c) \/ Evict(c) \/ DropVictim(c) \/ Created(c)
  \/ WarmUp(c) \/ WarmRefresh(c)

-----------------------------------------------------------------------------
(* The sweeper, time, crashes.                                             *)

\* sweep(): members of the index whose key has gone.
Sweep ==
  /\ \E s \in index : ~Stored(s)
  /\ index' = {s \in index : Stored(s)}
  /\ UNCHANGED <<hash, lock, logins, school, call, bounds>>

\* at is LOGIN_REUSE_MAX_AGE ago; exp passes; and, later, the TTL of the key.  A login does not
\* last from the youth of a session to its expiry.
Ages(s) ==
  /\ \/ hash[s].life = "young" /\ hash' = [hash EXCEPT ![s].life = "old"]
     \/ /\ hash[s].life = "old" /\ hash' = [hash EXCEPT ![s].life = "expired"]
        /\ \A c \in Calls : IsLogin(c) => call[c].sid # s
     \/ hash[s].life = "expired" /\ hash' = [hash EXCEPT ![s] = Absent]
  /\ UNCHANGED <<index, lock, logins, school, call, bounds>>

\* The lease of a login lock runs out, under its holder or after its holder has died.
LeaseExpires(u) ==
  /\ lock[u] # Nobody /\ lock' = [lock EXCEPT ![u] = Nobody]
  /\ \/ lock[u] = "left" /\ UNCHANGED outlived
     \/ lock[u] # "left" /\ outlived + crashes < MaxMishaps /\ outlived' = outlived + 1
  /\ UNCHANGED <<store, logins, school, call, crashes>>

SchoolForgets(u) ==
  /\ school[u] # 0 /\ school' = [school EXCEPT ![u] = 0]
  /\ UNCHANGED <<store, lock, logins, call, bounds>>

\* The process of a login dies.  (A query or warm-up that dies is one that makes no more steps.)
Crash(c) ==
  /\ IsLogin(c) /\ outlived + crashes < MaxMishaps
  /\ crashes' = crashes + 1
  /\ call' = [call EXCEPT ![c] = NoCall]
  /\ lock' = [u \in Users |-> IF lock[u] = c THEN "left" ELSE lock[u]]
  /\ UNCHANGED <<store, logins, school, outlived>>

Next ==
  \/ \E c \in Calls : LoginStep(c) \/ UseStep(c) \/ Crash(c)
  \/ \E s \in Sids : Ages(s)
  \/ \E u \in Users : LeaseExpires(u) \/ SchoolForgets(u)
  \/ Sweep

Spec == Init /\ [][Next]_vars

-----------------------------------------------------------------------------
(* Properties.                                                             *)

\* A session handed out for reuse is the user's latest login: none that a later login has
\* ended at the school, although the probe's verdict is some steps old (the lock protects it).
HandsOutNewest ==
  [][\A c \in Calls : call[c].at = "confirm" /\ call'[c].at = "idle" =>
       \/ outlived > 0 \/ crashes' > crashes
       \/ \A s \in 1..Len(logins) : Owner(s) = call[c].user => s <= call[c].sid]_vars

\* The service never ends a user's live session itself while it could have been reused, unless
\* the probe got no verdict (jwxt_http.py: logins must not push each other offline).
NoSelfKick ==
  outlived = 0 /\ crashes = 0 =>
    \A c \in Calls : call[c].at = "school" /\ ~call[c].shaky =>
      LET s == school[call[c].user] IN s # 0 => ~(hash[s].full /\ hash[s].life = "young")

\* The sessions a call is still adding to the index, or has popped from it to drop.
InFlight(k) == k.victims \cup (IF k.at \in {"sadd", "zadd"} THEN {k.sid} ELSE {})

\* Sessions beyond MAX_SESSIONS are in flight, or a login has counted them and pops as many next.
\* (The calls in flight themselves may be beyond the limit together: of logins that count at the
\* same time each pops what it has counted, and the last is answered before the others drop.)
LimitKept ==
  crashes = 0 =>
    LET settled == {s \in Sids : hash[s].full} \ UNION {InFlight(call[c]) : c \in Calls}
    IN  \/ Cardinality(settled) <= MaxSessions
        \/ \E c \in Calls :
             call[c].at = "evict" /\ Cardinality(settled) <= MaxSessions + call[c].over
=============================================================================
