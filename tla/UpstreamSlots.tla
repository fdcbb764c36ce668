--------------------------- MODULE UpstreamSlots ---------------------------
(***************************************************************************)
(* The limit on concurrent requests to the school (jwxt_redis.py):         *)
(* RedisSemaphore's counter shared by all replicas, each replica's circuit *)
(* breaker (RedisBackend) and the semaphore in its own memory that         *)
(* ResilientRedisSemaphore falls back to.                                  *)
(*                                                                         *)
(* Handlers run on threads, so a step is what happens under one lock or in *)
(* one WATCH/MULTI transaction.  A thread only remembers that it has a     *)
(* slot, not which semaphore gave it.                                      *)
(***************************************************************************)
EXTENDS Integers, FiniteSets

CONSTANTS Replicas, Threads,
          Home,        \* the replica of a thread
          Limit,       \* UPSTREAM_GLOBAL
          Lease,       \* ticks of the counter's TTL
          Cooldown,    \* ticks of _failure_cooldown
          MaxOutages, MaxCrashes   \* bounds: losses of a link to Redis, deaths of a replica

ASSUME BoundsAssumption ==
  /\ Limit \in Nat \ {0} /\ Lease \in Nat \ {0} /\ Cooldown \in Nat \ {0}
  /\ MaxOutages \in Nat /\ MaxCrashes \in Nat
ASSUME HomeAssumption ==
  /\ IsFiniteSet(Threads) /\ IsFiniteSet(Replicas) /\ Home \in [Threads -> Replicas]

VARIABLES counter, ttl,     \* key upstream:counter and its remaining TTL
          link,             \* can the replica talk to Redis?
          circuit,          \* _available and _probing: "closed", "open" or "probing"
          cool,             \* ticks until an open circuit lets a probe through
          permits, holds,   \* the replica's BoundedSemaphore (taken), _fallback_holds
          pc,               \* what each thread is doing
          prober,           \* the health thread's last ping, until it is recorded
          forgotten,        \* history: the most slots in use when the counter expired
          outages, crashes

breakerVars == <<circuit, cool>>
redisVars   == <<counter, ttl, forgotten>>
localVars   == <<permits, holds>>
outsideVars == <<link, outages, crashes>>
vars == <<redisVars, outsideVars, breakerVars, localVars, pc, prober>>

\* "redis", "local": acquiring; "took", "failed", "busy": RedisSemaphore.acquire is over and
\* not yet recorded; "counted": a permit taken and not yet counted; "slot": asking the school;
\* "return": giving a slot of the counter back; "lost": that failed and is not yet recorded.
Points == {"idle", "redis", "took", "failed", "busy", "local", "counted", "slot", "return", "lost"}
Using  == {"took", "slot", "return"}

\* Types of all variables: the counter stays within the limit and a replica's permits too.
TypeOK ==
  /\ counter \in 0..Limit /\ ttl \in 0..Lease
  /\ link \in [Replicas -> {"up", "down"}]
  /\ circuit \in [Replicas -> {"closed", "open", "probing"}] /\ cool \in [Replicas -> 0..Cooldown]
  /\ permits \in [Replicas -> 0..Limit] /\ holds \in [Replicas -> 0..Limit]
  /\ pc \in [Threads -> Points] /\ prober \in [Replicas -> {"idle", "answered", "failed"}]
  /\ forgotten \in 0..Cardinality(Threads)
  /\ outages \in 0..MaxOutages /\ crashes \in 0..MaxCrashes

Init ==
  /\ counter = 0 /\ ttl = 0 /\ forgotten = 0 /\ outages = 0 /\ crashes = 0
  /\ link = [r \in Replicas |-> "up"]
  /\ circuit = [r \in Replicas |-> "closed"] /\ cool = [r \in Replicas |-> 0]
  /\ permits = [r \in Replicas |-> 0] /\ holds = [r \in Replicas |-> 0]
  /\ pc = [t \in Threads |-> "idle"] /\ prober = [r \in Replicas |-> "idle"]

Goes(t, point) == pc' = [pc EXCEPT ![t] = point]

-----------------------------------------------------------------------------
(* The circuit breaker.                                                    *)

\* attempt_allowed(): an open circuit lets one probe through after the cooldown.
Attempt(t) ==
  LET r == Home[t] IN
  /\ pc[t] = "idle"
  /\ \/ circuit[r] = "closed" /\ Goes(t, "redis") /\ UNCHANGED circuit
     \/ /\ circuit[r] = "open" /\ cool[r] = 0
        /\ circuit' = [circuit EXCEPT ![r] = "probing"] /\ Goes(t, "redis")
     \/ /\ circuit[r] = "probing" \/ (circuit[r] = "open" /\ cool[r] > 0)
        /\ Goes(t, "local") /\ UNCHANGED circuit
  /\ UNCHANGED <<redisVars, outsideVars, cool, localVars, prober>>

Succeeded(r) == /\ circuit' = [circuit EXCEPT ![r] = "closed"]
                /\ cool' = [cool EXCEPT ![r] = 0]     \* not read while closed
Failed(r)    == /\ circuit' = [circuit EXCEPT ![r] = "open"]
                /\ cool' = [cool EXCEPT ![r] = Cooldown]
Abandoned(r) == /\ circuit' = [circuit EXCEPT ![r] = IF @ = "probing" THEN "open" ELSE @]
                /\ UNCHANGED cool

\* The thread tells the breaker how its operation on Redis went.
Record(t) ==
  LET r == Home[t] IN
  /\ \/ pc[t] = "took"   /\ Succeeded(r) /\ Goes(t, "slot")
     \/ pc[t] = "failed" /\ Failed(r)    /\ Goes(t, "local")
     \/ pc[t] = "busy"   /\ Abandoned(r) /\ Goes(t, "idle")
     \/ pc[t] = "lost"   /\ Failed(r)    /\ Goes(t, "idle")
  /\ UNCHANGED <<redisVars, outsideVars, localVars, prober>>

\* probe() by the health thread, which no circuit holds back.
Ping(r) ==
  /\ prober[r] = "idle"
  /\ prober' = [prober EXCEPT ![r] = IF link[r] = "up" THEN "answered" ELSE "failed"]
  /\ UNCHANGED <<redisVars, outsideVars, breakerVars, localVars, pc>>

RecordPing(r) ==
  /\ prober[r] # "idle" /\ prober' = [prober EXCEPT ![r] = "idle"]
  /\ IF prober[r] = "answered" THEN Succeeded(r) ELSE Failed(r)
  /\ UNCHANGED <<redisVars, outsideVars, localVars, pc>>

-----------------------------------------------------------------------------
(* RedisSemaphore.  The loops on WatchError end in one of these steps.     *)

\* Mutant: the limit is compared after the increment.
IncrementOffByOne == counter <= Limit /\ counter' = counter + 1 /\ ttl' = Lease
Increment == counter < Limit /\ counter' = counter + 1 /\ ttl' = Lease

\* Mutant: the counter is decremented without a look at it.
DecrementBlindly == counter' = counter - 1 /\ UNCHANGED ttl
Decrement == counter' = (IF counter > 0 THEN counter - 1 ELSE 0) /\ UNCHANGED ttl

RedisAcquires(t) ==
  /\ pc[t] = "redis" /\ link[Home[t]] = "up" /\ Increment /\ Goes(t, "took")
  /\ UNCHANGED <<forgotten, outsideVars, breakerVars, localVars, prober>>

\* UpstreamBusyError: no free slot until the deadline.
RedisBusy(t) ==
  /\ pc[t] = "redis" /\ link[Home[t]] = "up" /\ counter >= Limit /\ Goes(t, "busy")
  /\ UNCHANGED <<redisVars, outsideVars, breakerVars, localVars, prober>>

\* RedisError: the transaction may have been executed all the same.
RedisAcquireFails(t) ==
  /\ pc[t] = "redis" /\ link[Home[t]] = "down" /\ Goes(t, "failed")
  /\ Increment \/ UNCHANGED <<counter, ttl>>
  /\ UNCHANGED <<forgotten, outsideVars, breakerVars, localVars, prober>>

RedisReleases(t) ==
  /\ pc[t] = "return" /\ link[Home[t]] = "up" /\ Decrement /\ Goes(t, "idle")
  /\ UNCHANGED <<forgotten, outsideVars, breakerVars, localVars, prober>>

RedisReleaseFails(t) ==
  /\ pc[t] = "return" /\ link[Home[t]] = "down" /\ Goes(t, "lost")
  /\ Decrement \/ UNCHANGED <<counter, ttl>>
  /\ UNCHANGED <<forgotten, outsideVars, breakerVars, localVars, prober>>

-----------------------------------------------------------------------------
(* The semaphore of the replica, and the release of either.                *)

\* Mutant: the local semaphore has no limit.
LocalAcquiresFreely(t) ==
  LET r == Home[t] IN
  /\ pc[t] = "local" /\ permits' = [permits EXCEPT ![r] = @ + 1] /\ Goes(t, "counted")
  /\ UNCHANGED <<redisVars, outsideVars, breakerVars, holds, prober>>
LocalAcquires(t) ==
  LET r == Home[t] IN
  /\ pc[t] = "local" /\ permits[r] < Limit
  /\ permits' = [permits EXCEPT ![r] = @ + 1] /\ Goes(t, "counted")
  /\ UNCHANGED <<redisVars, outsideVars, breakerVars, holds, prober>>

\* acquire() returns False after the timeout, and _upstream_slot raises UpstreamBusyError.
LocalBusy(t) ==
  /\ pc[t] = "local" /\ permits[Home[t]] >= Limit /\ Goes(t, "idle")
  /\ UNCHANGED <<redisVars, outsideVars, breakerVars, localVars, prober>>

CountHold(t) ==
  /\ pc[t] = "counted" /\ holds' = [holds EXCEPT ![Home[t]] = @ + 1] /\ Goes(t, "slot")
  /\ UNCHANGED <<redisVars, outsideVars, breakerVars, permits, prober>>

\* Mutant: while the circuit is not closed the local semaphore is released, held or not.
ReleaseByCircuit(t) ==
  LET r == Home[t] IN
  /\ pc[t] = "slot"
  /\ IF circuit[r] # "closed"
     THEN /\ holds' = [holds EXCEPT ![r] = @ - 1] /\ permits' = [permits EXCEPT ![r] = @ - 1]
          /\ Goes(t, "idle")
     ELSE Goes(t, "return") /\ UNCHANGED localVars
  /\ UNCHANGED <<redisVars, outsideVars, breakerVars, prober>>
\* The school has answered, or not: as long as the replica holds local permits, release()
\* gives one of those back, whichever semaphore this thread's slot came from.
Release(t) ==
  LET r == Home[t] IN
  /\ pc[t] = "slot"
  /\ IF holds[r] > 0
     THEN /\ holds' = [holds EXCEPT ![r] = @ - 1] /\ permits' = [permits EXCEPT ![r] = @ - 1]
          /\ Goes(t, "idle")
     ELSE Goes(t, "return") /\ UNCHANGED localVars
  /\ UNCHANGED <<redisVars, outsideVars, breakerVars, prober>>

-----------------------------------------------------------------------------
(* The surroundings: the network, the replicas, the clock.                 *)

LinkFails(r) ==
  /\ link[r] = "up" /\ outages < MaxOutages /\ outages' = outages + 1
  /\ link' = [link EXCEPT ![r] = "down"]
  /\ UNCHANGED <<redisVars, crashes, breakerVars, localVars, pc, prober>>

LinkRecovers(r) ==
  /\ link[r] = "down" /\ link' = [link EXCEPT ![r] = "up"]
  /\ UNCHANGED <<redisVars, outages, crashes, breakerVars, localVars, pc, prober>>

\* A replica dies and starts again: RedisBackend pings Redis before it serves.
Crash(r) ==
  /\ crashes < MaxCrashes /\ crashes' = crashes + 1
  /\ pc' = [t \in Threads |-> IF Home[t] = r THEN "idle" ELSE pc[t]]
  /\ permits' = [permits EXCEPT ![r] = 0] /\ holds' = [holds EXCEPT ![r] = 0]
  /\ prober' = [prober EXCEPT ![r] = "idle"]
  /\ IF link[r] = "up" THEN Succeeded(r) ELSE Failed(r)
  /\ UNCHANGED <<redisVars, link, outages>>

At(points) == {t \in Threads : pc[t] \in points}
Local(r)   == {t \in Threads : Home[t] = r}
Held       == {h \in Replicas \X (1..Limit) : h[2] <= holds[h[1]]}
\* Slots in use that the counter has to account for.
Owed == Cardinality(At(Using)) - Cardinality(Held)

Down(n) == IF n > 0 THEN n - 1 ELSE 0

\* The counter expires a lease after the last increment, in use or not.
Tick ==
  /\ ttl > 0 \/ \E r \in Replicas : cool[r] > 0
  /\ ttl' = Down(ttl) /\ cool' = [r \in Replicas |-> Down(cool[r])]
  /\ IF ttl = 1
     THEN counter' = 0 /\ forgotten' = (IF Owed > forgotten THEN Owed ELSE forgotten)
     ELSE UNCHANGED <<counter, forgotten>>
  /\ UNCHANGED <<outsideVars, circuit, localVars, pc, prober>>

-----------------------------------------------------------------------------
Acquiring(t) == \/ RedisAcquires(t) \/ RedisBusy(t) \/ RedisAcquireFails(t)
                \/ LocalAcquires(t) \/ LocalBusy(t) \/ CountHold(t)
Releasing(t) == Release(t) \/ RedisReleases(t) \/ RedisReleaseFails(t)
ThreadStep(t) == Acquiring(t) \/ Record(t) \/ Releasing(t)
ProberStep(r) == Ping(r) \/ RecordPing(r)
Surroundings == Tick \/ \E r \in Replicas : LinkFails(r) \/ LinkRecovers(r) \/ Crash(r)

Next == \/ \E t \in Threads : Attempt(t) \/ ThreadStep(t)
        \/ \E r \in Replicas : ProberStep(r)
        \/ Surroundings

\* Requests to the school and to Redis time out, the health thread and the clock go on.
Fairness == /\ \A t \in Threads : WF_vars(ThreadStep(t))
            /\ \A r \in Replicas : WF_vars(ProberStep(r)) /\ WF_vars(LinkRecovers(r))
            /\ WF_vars(Tick)
Spec == Init /\ [][Next]_vars /\ Fairness

-----------------------------------------------------------------------------
(* What must hold.                                                         *)

\* While Redis can be reached and the counter has not expired under a slow request, no more
\* than Limit requests of all replicas are at the school at once (J.req, _upstream_slot).
LimitKept == outages = 0 /\ forgotten = 0 => Cardinality(At({"slot"})) <= Limit

\* Through outages and crashes only a replica that has fallen back adds a Limit of its own;
\* every request beyond that is one the counter forgot when it expired.
LimitDegraded ==
  Cardinality(At({"slot"})) <= Limit * (1 + Cardinality({r \in Replicas : holds[r] > 0})) + forgotten

\* Every local permit that is out is counted, or about to be, and every counted one has a
\* thread that will give it back: release() goes by the count, not by the thread.
LocalPermitsReturn ==
  \A r \in Replicas :
    /\ permits[r] = holds[r] + Cardinality(Local(r) \cap At({"counted"}))
    /\ holds[r] <= Cardinality(Local(r) \cap At({"slot"}))
=============================================================================
