----------------------------- MODULE MCService ------------------------------
(* QueryService, RateLimits and QueryParams on small instances.            *)
EXTENDS QueryService, RateLimits, QueryParams, TLC

CONSTANTS c1, c2, c3, k1, k2
Symmetry == Permutations({c1, c2, c3}) \cup Permutations({k1, k2})

\* Calls with these gaps between them: six with every reading of the clocks and the limits of one
\* limiter, or of both in one bucket, where the calls of up to two logins come after general ones of
\* their own; or five with every fate of the gateway's scripts.
Times(gaps) ==
  LET time[i \in 1..6] == IF i = 1 THEN 0 ELSE time[i - 1] + gaps[i] IN time
Limits ==
  {[i \in 1..6 |-> LoginLimit]}
  \cup {l \in [1..6 -> {RateLimit, LoginLimit}] :
          LET logins(j) == Cardinality({i \in 1..j : l[i] = LoginLimit})
          IN  logins(6) <= 2 /\ \A j \in 1..6 : 2 * logins(j) <= j}
Pauses == {g \in [2..6 -> {0, 4, 9}] : Cardinality({i \in 2..6 : g[i] # 0}) <= 2}
AtReplicas ==
  {[i \in 1..6 |-> [time |-> Times(gaps)[i], clock |-> Times(gaps)[i] + skew[i], limit |-> limits[i]]] :
     gaps \in Pauses, skew \in [1..6 -> {0, MaxSkew}], limits \in Limits}
Delays == {g \in [2..6 -> {0, 1, 3}] : g[6] = 0}
AtGateway ==
  {[i \in 1..5 |-> [time |-> Times(gaps)[i], redis |-> fate[i]]] :
     gaps \in Delays, fate \in [1..5 -> {"ok", "down", "lost"}]}

AllBuckets  == \A requests \in AtReplicas : BucketLimits(requests)
AllGateways == \A requests \in AtGateway : GatewayLimits(requests)
\* A request that is past the checks came through a bucket (jwxt_state.py, jwxt_redis.py), and the
\* buckets keep BucketLimits whatever the requests and the clocks.
BucketsLimit == (\E c \in Calls : at[c] \in Inside \ {"checks"}) => AllBuckets
\* A request that reached the service came through the gateway (main.py, _check_rate_limit),
\* which keeps GatewayLimits whatever the requests and the fates of its scripts.
GatewayKeeps == (\E c \in Calls : at[c] \in Inside) => AllGateways

\* Lists of as many semesters as are admitted, of four; the other forms without a comma; and up to
\* three segments of weeks.
Lists == UNION {[parts : [1..n -> 1..4], comma : {n > 1, TRUE}] : n \in 1..MaxSemesters}
SemesterParams == Lists \cup [parts : {<<>>, <<0>>, <<-1>>, <<-2>>}, comma : {FALSE}]
Segments == {<<>>} \cup {<<a>> : a \in 0..4} \cup ((0..4) \X (0..4))
WeekParams ==
  {[given |-> TRUE, segments |-> s] : s \in UNION {[1..n -> Segments] : n \in 1..3}}
  \cup {[given |-> FALSE, segments |-> <<>>]}

AllParams ==
  /\ \A p, q \in SemesterParams, current \in 1..4 : SemestersShared(p, q, current, <<4, 3, 2, 1>>)
  /\ \A w \in WeekParams : WeeksKept(w)
\* Requests that share an entry the cache has ask for the same semesters (SemestersShared), and
\* timetables and their documents have the weeks asked for (WeeksKept).
ParamsKept == cache # <<>> => AllParams
=============================================================================
