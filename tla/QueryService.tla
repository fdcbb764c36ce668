---------------------------- MODULE QueryService ----------------------------
(***************************************************************************)
(* A request to the query service for grades or a schedule: the limit of   *)
(* concurrent requests and the checks in front of the handlers, the login  *)
(* or session behind the query, the cache of results (TTLCache) and the    *)
(* pool of background threads (jwxt_http.py, jwxt_state.py, jwxt_core.py). *)
(*                                                                         *)
(* Time passes in ticks.  What the school answered has an age, the ticks   *)
(* since it was read there; an entry of the cache also has the ticks it    *)
(* has left.  Every request is for the same student; a key stands for the  *)
(* parameters of a query.                                                  *)
(***************************************************************************)
EXTENDS Integers, FiniteSets, SequencesExt

CONSTANTS Calls, Keys,
          Limit,          \* JWXT_LIMIT_CONCURRENCY
          MaxItems,       \* max_items of the cache
          Ttl, NegTtl,    \* ticks a result and a failure stay in the cache
          QueryTime,      \* ticks a request lasts at most: the timeouts of its exchanges
          Workers, Queue  \* of the background pool

ASSUME BoundsAssumption ==
  /\ IsFiniteSet(Calls) /\ IsFiniteSet(Keys)
  /\ {Limit, MaxItems, Ttl, NegTtl, QueryTime, Workers} \subseteq Nat \ {0} /\ Queue \in Nat

VARIABLES
  active,         \* requests counted by the ConcurrencyLimiter
  at, key, spent, \* where a request is, its parameters, ticks since it began
  got,            \* what it is going to answer
  cache,          \* the entries in the order of the dict
  running, queued \* tasks of the background pool

callVars == <<at, key, spent, got>>
poolVars == <<running, queued>>
vars == <<active, callVars, cache, poolVars>>

\* An answer without data is an error of the service itself.
Answer  == [data : BOOLEAN, ok : BOOLEAN, age : Nat]
Error   == [data |-> FALSE, ok |-> FALSE, age |-> 0]
Read(ok) == [data |-> TRUE, ok |-> ok, age |-> 0]
Inside == {"checks", "lookup", "login", "query", "offer", "write", "link", "reply"}
Entry  == [key : Keys, ok : BOOLEAN, age : Nat, left : Int]

\* Types of all variables; the limiter counts the requests that are inside, whatever way they
\* leave by, and neither it nor the cache nor the pool exceeds its limit.
TypeOK ==
  /\ active = Cardinality({c \in Calls : at[c] \in Inside}) /\ active <= Limit
  /\ at \in [Calls -> Inside \cup {"idle"}] /\ key \in [Calls -> Keys]
  /\ spent \in [Calls -> 0..QueryTime] /\ got \in [Calls -> Answer]
  /\ cache \in Seq(Entry) /\ Len(cache) <= MaxItems
  /\ \A i, j \in 1..Len(cache) : cache[i].key = cache[j].key => i = j
  /\ running \in 0..Workers /\ queued \in 0..Queue

Init ==
  /\ active = 0
  /\ at = [c \in Calls |-> "idle"] /\ key \in [Calls -> Keys]
  /\ spent = [c \in Calls |-> 0] /\ got = [c \in Calls |-> Error]
  /\ cache = <<>> /\ running = 0 /\ queued = 0

Goes(c, from, to) == at[c] = from /\ at' = [at EXCEPT ![c] = to]
Answers(c, a) == got' = [got EXCEPT ![c] = a]

-----------------------------------------------------------------------------
(* TTLCache.                                                               *)

Fresh(e) == e.left > 0
FreshOnes == {e \in ToSet(cache) : Fresh(e)}
Hits(k)  == {e \in FreshOnes : e.key = k}

\* The dict without the entries that do not stay; the others keep their order.
Kept(stay) ==
  LET kept[i \in 0..Len(cache)] ==
        IF i = 0 THEN <<>>
        ELSE IF cache[i] \in stay THEN Append(kept[i - 1], cache[i]) ELSE kept[i - 1]
  IN  kept[Len(cache)]

\* set(): a full cache drops what is over, or else what was inserted first.
Room ==
  LET fresh == Kept(FreshOnes)
  IN  IF Len(cache) < MaxItems THEN cache
      ELSE IF Len(fresh) < MaxItems THEN fresh ELSE Tail(fresh)

\* Mutant: a failure is kept as long as a result.
KeptAlike(ok) == Ttl
\* Grades and schedules for Ttl; a failure of the school that will pass for NegTtl.
KeptFor(ok) == IF ok THEN Ttl ELSE NegTtl

EntryOf(k, a) == [key |-> k, ok |-> a.ok, age |-> a.age, left |-> KeptFor(a.ok)]
Put(k, a) ==
  LET r == Room
  IN  IF \E i \in 1..Len(r) : r[i].key = k
      THEN [i \in 1..Len(r) |-> IF r[i].key = k THEN EntryOf(k, a) ELSE r[i]]
      ELSE Append(r, EntryOf(k, a))

Sweep ==
  /\ ToSet(cache) # FreshOnes
  /\ cache' = Kept(FreshOnes)
  /\ UNCHANGED <<active, callVars, poolVars>>

-----------------------------------------------------------------------------
(* In front of the handlers.                                               *)

\* concurrency_middleware; above the limit the answer is 503 and nothing changes.
Enter(c) ==
  /\ Goes(c, "idle", "checks") /\ active < Limit /\ active' = active + 1
  /\ key' \in {[key EXCEPT ![c] = k] : k \in Keys}
  /\ spent' = [spent EXCEPT ![c] = 0] /\ UNCHANGED <<got, cache, poolVars>>

\* Rate limit (429), token (401), size (413), path and parameters (400, 404, 405).
Checks(c) ==
  /\ \/ Goes(c, "checks", "lookup") /\ UNCHANGED got
     \/ Goes(c, "checks", "reply") /\ Answers(c, Error)
  /\ UNCHANGED <<active, key, spent, cache, poolVars>>

-----------------------------------------------------------------------------
(* /get_grades and /get_schedule.                                          *)

\* get() drops an entry that is over; a request without a cache key, one with a session whose
\* student is not known, goes by the cache.
Lookup(c) ==
  /\ \/ \E e \in Hits(key[c]) :
          /\ Goes(c, "lookup", IF e.ok THEN "link" ELSE "reply")
          /\ Answers(c, [data |-> TRUE, ok |-> e.ok, age |-> e.age]) /\ UNCHANGED cache
     \/ /\ Goes(c, "lookup", "query") \/ Goes(c, "lookup", "login")
        /\ \/ Hits(key[c]) = {} /\ cache' = Kept({e \in ToSet(cache) : e.key # key[c]})
           \/ UNCHANGED cache
        /\ UNCHANGED got
  /\ UNCHANGED <<active, key, spent, poolVars>>

\* With a password: the login limiter (429), the login lock (503), the login itself (401).
Login(c) ==
  /\ \/ Goes(c, "login", "query") /\ UNCHANGED got
     \/ Goes(c, "login", "reply") /\ Answers(c, Error)
  /\ UNCHANGED <<active, key, spent, cache, poolVars>>

\* A result, or a failure that will pass, may be kept; a lost session (401), one still warming
\* (503), a failure of another kind and an exception (500) only end the request.
Query(c) ==
  /\ \/ \E ok \in BOOLEAN : Goes(c, "query", IF ok THEN "offer" ELSE "write") /\ Answers(c, Read(ok))
     \/ Goes(c, "query", "reply") /\ Answers(c, Error)
  /\ UNCHANGED <<active, key, spent, cache, poolVars>>

\* A schedule comes with a link, one from the cache too, and its PDF is prewarmed unless the pool
\* is full.
Offer(c) ==
  /\ Goes(c, "offer", "write") \/ Goes(c, "link", "reply")
  /\ \/ UNCHANGED poolVars
     \/ queued < Queue /\ queued' = queued + 1 /\ UNCHANGED running
  /\ UNCHANGED <<active, key, spent, got, cache>>

\* Grades with sensitive fields and what has no cache key are not kept.
Write(c) ==
  /\ Goes(c, "write", "reply") /\ (cache' = Put(key[c], got[c]) \/ UNCHANGED cache)
  /\ UNCHANGED <<active, key, spent, got, poolVars>>

\* Mutant: the permit comes back with an answer of the school only.
ReleasedByData(c) == IF got[c].data THEN active - 1 ELSE active
\* The finally of the middleware.
Released(c) == active - 1

Reply(c) ==
  /\ Goes(c, "reply", "idle") /\ active' = Released(c)
  /\ Answers(c, Error) /\ spent' = [spent EXCEPT ![c] = 0] /\ UNCHANGED <<key, cache, poolVars>>

-----------------------------------------------------------------------------
(* _DaemonPool, and time.                                                  *)

TaskStarts ==
  /\ queued > 0 /\ running < Workers /\ queued' = queued - 1 /\ running' = running + 1
  /\ UNCHANGED <<active, callVars, cache>>
TaskEnds ==
  /\ running > 0 /\ running' = running - 1 /\ UNCHANGED <<active, callVars, cache, queued>>

Older(n) == IF n < Ttl + 2 * QueryTime + 1 THEN n + 1 ELSE n   \* bound of the ages
Tick ==
  /\ \A c \in Calls : at[c] # "idle" => spent[c] < QueryTime
  /\ spent' = [c \in Calls |-> IF at[c] = "idle" THEN 0 ELSE spent[c] + 1]
  /\ got' = [c \in Calls |-> IF got[c].data THEN [got[c] EXCEPT !.age = Older(@)] ELSE got[c]]
  /\ cache' = [i \in 1..Len(cache) |->
       [cache[i] EXCEPT !.age = IF Fresh(cache[i]) THEN Older(@) ELSE 0,
                        !.left = IF Fresh(cache[i]) THEN @ - 1 ELSE 0]]
  /\ UNCHANGED <<active, at, key, poolVars>>

Handle(c) ==
  Enter(c) \/ Checks(c) \/ Lookup(c) \/ Login(c) \/ Query(c) \/ Offer(c) \/ Write(c) \/ Reply(c)
Next == (\E c \in Calls : Handle(c)) \/ Sweep \/ TaskStarts \/ TaskEnds \/ Tick
Spec == Init /\ [][Next]_vars

-----------------------------------------------------------------------------
\* However a slow query, an entry's replacement and a later hit follow each other, no answer
\* shows the school as it was as long ago as the time of the cache and two requests, and a
\* failure is not repeated for as long as NegTtl and two requests.
NoStaleAnswer ==
  \A c \in Calls :
    at[c] = "reply" /\ got[c].data => got[c].age < (IF got[c].ok THEN Ttl ELSE NegTtl) + 2 * QueryTime
=============================================================================
