----------------------------- MODULE RateLimits -----------------------------
(***************************************************************************)
(* The limits on how often a client may ask: the token bucket of the query *)
(* service (RateLimiter in the memory of a process, RedisRateLimiter for   *)
(* several) and the window of the gateway (a counter in Redis, or the      *)
(* times of the last minute in memory when Redis does not answer).         *)
(*                                                                         *)
(* The service has two limiters, one for all requests and one more for the *)
(* logins.  In memory each has buckets of its own.  In Redis they share    *)
(* the bucket of a client, rate:<ip>, and each call fills and clips it by  *)
(* the limit of its own limiter; a login makes two calls, first the        *)
(* general one.                                                            *)
(*                                                                         *)
(* Both are functions of the calls of one client in their order: each has  *)
(* the time of its arrival, what the clock of the replica it came to       *)
(* showed, the limit of its limiter, and what became of the gateway's      *)
(* script in Redis: "ok", "down" when it did not run, "lost" when it ran   *)
(* and its result did not arrive.                                          *)
(***************************************************************************)
EXTENDS Integers, Sequences, FiniteSets

CONSTANTS Minute,         \* a minute, in ticks
          RateLimit,      \* limit_per_min of rate_limiter
          LoginLimit,     \* limit_per_min of login_limiter
          GatewayLimit,   \* rate_limit of the gateway
          MaxSkew         \* ticks two readings of the clock at one moment are apart at most: the
                          \* clocks of replicas, a reading taken before a lock or a WATCH was lost

ASSUME RatesAssumption ==
  {Minute, RateLimit, LoginLimit, GatewayLimit} \subseteq Nat \ {0} /\ MaxSkew \in Nat

-----------------------------------------------------------------------------
(* The bucket, in parts of a token: there are Minute parts to a token, and *)
(* as many parts as the limit of a call come in at a tick.                 *)

Full(limit) == limit * Minute
Idle == 2 * Minute              \* the bucket of a client that stays away is dropped

AtMost(n, limit) == IF n > limit THEN limit ELSE n
\* Mutant: a clock that is behind takes nothing away.
FilledForward(b, now, limit) ==
  AtMost(b.tokens + (IF now > b.last THEN now - b.last ELSE 0) * limit, Full(limit))
Filled(b, now, limit) == AtMost(b.tokens + (now - b.last) * limit, Full(limit))

\* allow()
Allow(b, now, limit) ==
  LET parts   == Filled(b, now, limit)
      allowed == parts >= Minute
  IN  [tokens |-> IF allowed THEN parts - Minute ELSE parts, last |-> now, allowed |-> allowed]
New(now, limit) == [tokens |-> Full(limit), last |-> now, allowed |-> FALSE]

\* The bucket after each call.
Buckets(requests) ==
  LET bucket[i \in DOMAIN requests] ==
        LET now   == requests[i].clock
            limit == requests[i].limit
        IN  Allow(IF i = 1 \/ requests[i].time - requests[i - 1].time >= Idle
                  THEN New(now, limit) ELSE bucket[i - 1], now, limit)
  IN  bucket

-----------------------------------------------------------------------------
(* The gateway.                                                            *)

\* Mutant: every request sets the time of the counter anew.
CountedAnew(w, now) ==
  [count |-> IF now >= w.ends THEN 1 ELSE w.count + 1, ends |-> now + Minute]
\* RATE_LIMIT_SCRIPT
Counted(w, now) ==
  IF now >= w.ends THEN [count |-> 1, ends |-> now + Minute] ELSE [w EXCEPT !.count = @ + 1]

\* _memory_rate_allow: the requests of the last minute it let through.
Recent(requests, hits, i) == {j \in hits : requests[i].time - requests[j].time < Minute}

\* _check_rate_limit: what the gateway has after each request and who let it through, if anyone.
Gateway(requests) ==
  LET state[i \in 0..Len(requests)] ==
        IF i = 0 THEN [window |-> [count |-> 0, ends |-> 0], hits |-> {}, by |-> "none"]
        ELSE LET old    == state[i - 1]
                 window == IF requests[i].redis = "down" THEN old.window
                           ELSE Counted(old.window, requests[i].time)
                 hits   == Recent(requests, old.hits, i)
             IN  IF requests[i].redis = "ok"
                 THEN [window |-> window, hits |-> old.hits,
                       by |-> IF window.count <= GatewayLimit THEN "redis" ELSE "none"]
                 ELSE IF Cardinality(hits) >= GatewayLimit
                 THEN [window |-> window, hits |-> old.hits, by |-> "none"]
                 ELSE [window |-> window, hits |-> hits \cup {i}, by |-> "memory"]
  IN  state

-----------------------------------------------------------------------------

\* How far apart the limits are, and what a call of the lower one may find too much in the bucket,
\* or miss: what another clock has credited is credited or taken back at another rate.
Gap == IF RateLimit > LoginLimit THEN RateLimit - LoginLimit ELSE LoginLimit - RateLimit
Drift(requests, i, j, high) == Cardinality({k \in i..j : requests[k].limit < high}) * (MaxSkew * Gap)

\* Whatever the clocks of the replicas show and however the calls of the two limiters take turns,
\* a client gets through, in any stretch of time, the higher limit of its calls and what comes in
\* during it, and the skew of the clocks counts once, and once more for every call of the lower
\* limit; and one that stays away for the time of a token and the skew gets through.  Of a limiter
\* with buckets of its own this is its limit.  The logins alone the shared bucket does not limit.
BucketLimits(requests) ==
  LET bucket == Buckets(requests)
      span(i, j) == requests[j].time - requests[i].time
  IN  \A high \in {RateLimit, LoginLimit} :
        (\A i \in DOMAIN requests : requests[i].limit <= high) =>
          /\ \A i \in DOMAIN requests : \A j \in i..Len(requests) :
               Cardinality({k \in i..j : bucket[k].allowed}) * Minute
                 <= Full(high) + (span(i, j) + MaxSkew) * high + Drift(requests, i, j, high)
          /\ \A i \in 2..Len(requests) :
               (span(i - 1, i) - MaxSkew) * requests[i].limit >= Minute + Drift(requests, 1, i, high)
                 => bucket[i].allowed

\* Redis lets a client through at most twice the limit in a minute, memory at most the limit;
\* and whatever is lost on the way, it is refused only when it came as often as the limit in the
\* minute before.
GatewayLimits(requests) ==
  LET state == Gateway(requests)
      span(i, j) == requests[j].time - requests[i].time
      through(i, j, by) == Cardinality({k \in i..j : state[k].by = by})
  IN  /\ \A i \in DOMAIN requests : \A j \in i..Len(requests) :
           span(i, j) < Minute => /\ through(i, j, "redis") <= 2 * GatewayLimit
                                  /\ through(i, j, "memory") <= GatewayLimit
      /\ \A i \in DOMAIN requests :
           state[i].by = "none" =>
             Cardinality({j \in 1..(i - 1) : span(j, i) < Minute}) >= GatewayLimit
=============================================================================
