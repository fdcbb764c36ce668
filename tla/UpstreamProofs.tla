--------------------------- MODULE UpstreamProofs ---------------------------
(***************************************************************************)
(* The way to the school.  Theorems about UpstreamSlots, for every number  *)
(* of replicas and threads and every limit, lease, cooldown and number of  *)
(* outages and crashes; then about SchoolEntry, for every number of        *)
(* clients, of changes at the school and of failed requests.               *)
(***************************************************************************)
EXTENDS UpstreamSlots, SchoolEntry, FiniteSetTheorems, TLAPS

Users        == Cardinality(At(Using))
HeldCount    == Cardinality(Held)
Uncounted(q) == Cardinality(Local(q) \cap At({"counted"}))
Asking(q)    == Cardinality(Local(q) \cap At({"slot"}))
Numbers == /\ Users \in Nat /\ HeldCount \in Nat
           /\ \A q \in Replicas : Uncounted(q) \in Nat /\ Asking(q) \in Nat

\* A slot in use is in the counter, was forgotten by it, or is held from a replica's own
\* semaphore; the local permits add up.
Accounted == Users <= counter + forgotten + HeldCount
Permits   == \A q \in Replicas : /\ permits[q] = holds[q] + Uncounted(q)
                                 /\ holds[q] <= Asking(q)
\* Before the first outage nobody falls back.
NoOutage ==
  outages = 0 => /\ \A r \in Replicas : /\ link[r] = "up" /\ circuit[r] = "closed"
                                        /\ permits[r] = 0 /\ holds[r] = 0
                                        /\ prober[r] # "failed"
                 /\ \A t \in Threads : pc[t] \notin {"failed", "local", "counted", "lost"}
Inv == TypeOK /\ Accounted /\ Permits /\ NoOutage

-----------------------------------------------------------------------------
(* Counting.                                                               *)

\* Two sets that differ in t at most differ by one at most.
LEMMA DifferInOne ==
  ASSUME NEW X, NEW Y, NEW t, IsFiniteSet(X), X \ {t} = Y \ {t}
  PROVE  /\ IsFiniteSet(Y) /\ Cardinality(X) \in Nat /\ Cardinality(Y) \in Nat
         /\ Cardinality(Y) = Cardinality(X) + (IF t \in Y THEN 1 ELSE 0)
                                            - (IF t \in X THEN 1 ELSE 0)
  <1>1. IsFiniteSet(X \cup {t})
    BY FS_AddElement
  <1>2. Y \in SUBSET (X \cup {t})
    OBVIOUS
  <1>3. IsFiniteSet(Y)
    BY <1>1, <1>2, FS_Subset
  <1>4. Cardinality(X) \in Nat /\ Cardinality(Y) \in Nat
    BY <1>3, FS_CardinalityType
  <1>5. Cardinality(X \ {t}) = IF t \in X THEN Cardinality(X) - 1 ELSE Cardinality(X)
    BY FS_RemoveElement
  <1>6. Cardinality(Y \ {t}) = IF t \in Y THEN Cardinality(Y) - 1 ELSE Cardinality(Y)
    BY <1>3, FS_RemoveElement
  <1> QED
    BY <1>3, <1>4, <1>5, <1>6

LEMMA ThreadSets ==
  /\ \A S : IsFiniteSet(At(S)) /\ Cardinality(At(S)) \in 0..Cardinality(Threads)
  /\ \A S, q : /\ IsFiniteSet(Local(q) \cap At(S))
               /\ Cardinality(Local(q) \cap At(S)) \in Nat
  <1>1. \A S : At(S) \in SUBSET Threads
    BY DEF At
  <1>2. \A S, q : Local(q) \cap At(S) \in SUBSET Threads
    BY <1>1
  <1>3. Cardinality(Threads) \in Nat
    BY HomeAssumption, FS_CardinalityType
  <1>4. ASSUME NEW X \in SUBSET Threads
        PROVE  IsFiniteSet(X) /\ Cardinality(X) \in 0..Cardinality(Threads)
    <2>1. IsFiniteSet(X) /\ Cardinality(X) <= Cardinality(Threads)
      BY HomeAssumption, FS_Subset
    <2>2. Cardinality(X) \in Nat
      BY <2>1, FS_CardinalityType
    <2> QED
      BY <1>3, <2>1, <2>2
  <1> QED
    BY <1>1, <1>2, <1>3, <1>4

LEMMA HeldSets ==
  /\ IsFiniteSet(Replicas \X (1..Limit)) /\ IsFiniteSet(Held) /\ HeldCount \in Nat
  <1>1. IsFiniteSet(1..Limit)
    BY BoundsAssumption, FS_Interval
  <1>2. IsFiniteSet(Replicas \X (1..Limit))
    BY <1>1, HomeAssumption, FS_Product
  <1>3. Held \in SUBSET (Replicas \X (1..Limit))
    BY DEF Held
  <1>4. IsFiniteSet(Held)
    BY <1>2, <1>3, FS_Subset
  <1> QED
    BY <1>2, <1>4, FS_CardinalityType DEF HeldCount

LEMMA UpTo == \A n \in Nat : IsFiniteSet(1..n) /\ Cardinality(1..n) = n
  <1> SUFFICES ASSUME NEW n \in Nat PROVE IsFiniteSet(1..n) /\ Cardinality(1..n) = n
    OBVIOUS
  <1>1. IsFiniteSet(1..n) /\ Cardinality(1..n) = IF 1 > n THEN 0 ELSE n - 1 + 1
    BY FS_Interval
  <1> QED
    BY <1>1

LEMMA AllNumbers == Numbers
  BY ThreadSets, HeldSets DEF Numbers, Users, Uncounted, Asking

\* A thread that moves changes each of the counts by what it leaves and what it enters.
LEMMA Moved ==
  ASSUME pc \in [Threads -> Points], NEW t \in Threads, NEW p \in Points, Goes(t, p)
  PROVE  /\ pc' \in [Threads -> Points]
         /\ Users' = Users + (IF p \in Using THEN 1 ELSE 0) - (IF pc[t] \in Using THEN 1 ELSE 0)
         /\ \A q \in Replicas :
              /\ Uncounted(q)' = IF q = Home[t]
                   THEN Uncounted(q) + (IF p = "counted" THEN 1 ELSE 0)
                                     - (IF pc[t] = "counted" THEN 1 ELSE 0)
                   ELSE Uncounted(q)
              /\ Asking(q)' = IF q = Home[t]
                   THEN Asking(q) + (IF p = "slot" THEN 1 ELSE 0)
                                  - (IF pc[t] = "slot" THEN 1 ELSE 0)
                   ELSE Asking(q)
  <1>1. pc' \in [Threads -> Points] /\ pc'[t] = p /\ \A u \in Threads \ {t} : pc'[u] = pc[u]
    BY DEF Goes
  <1>2. At(Using) \ {t} = At(Using)' \ {t}
    BY <1>1 DEF At
  <1>3. Users' = Users + (IF p \in Using THEN 1 ELSE 0) - (IF pc[t] \in Using THEN 1 ELSE 0)
    <2>1. (t \in At(Using) <=> pc[t] \in Using) /\ (t \in At(Using)' <=> p \in Using)
      BY <1>1 DEF At
    <2> QED
      BY <1>2, <2>1, ThreadSets, DifferInOne DEF Users
  <1>4. ASSUME NEW q \in Replicas, NEW w
        PROVE  LET X == Local(q) \cap At({w})
                   Y == Local(q) \cap At({w})'
               IN  Cardinality(Y) = IF q = Home[t]
                     THEN Cardinality(X) + (IF p = w THEN 1 ELSE 0) - (IF pc[t] = w THEN 1 ELSE 0)
                     ELSE Cardinality(X)
    <2> DEFINE X == Local(q) \cap At({w})
               Y == Local(q) \cap At({w})'
    <2>1. X \ {t} = Y \ {t}
      BY <1>1 DEF At
    <2>2. (t \in X <=> Home[t] = q /\ pc[t] = w) /\ (t \in Y <=> Home[t] = q /\ p = w)
      BY <1>1 DEF At, Local
    <2>3. IsFiniteSet(X) /\ Cardinality(X) \in Nat
      BY ThreadSets
    <2> HIDE DEF X, Y
    <2>4. Cardinality(Y) = Cardinality(X) + (IF t \in Y THEN 1 ELSE 0) - (IF t \in X THEN 1 ELSE 0)
      BY <2>1, <2>3, DifferInOne
    <2>5. Cardinality(Y) = IF q = Home[t]
            THEN Cardinality(X) + (IF p = w THEN 1 ELSE 0) - (IF pc[t] = w THEN 1 ELSE 0)
            ELSE Cardinality(X)
      BY <2>2, <2>3, <2>4
    <2> QED
      BY <2>5 DEF X, Y
  <1>5. \A q \in Replicas : Local(q)' = Local(q)
    BY DEF Local
  <1>6. ASSUME NEW q \in Replicas
        PROVE  Uncounted(q)' = IF q = Home[t]
                 THEN Uncounted(q) + (IF p = "counted" THEN 1 ELSE 0)
                                   - (IF pc[t] = "counted" THEN 1 ELSE 0)
                 ELSE Uncounted(q)
    BY <1>4, <1>5 DEF Uncounted
  <1>7. ASSUME NEW q \in Replicas
        PROVE  Asking(q)' = IF q = Home[t]
                 THEN Asking(q) + (IF p = "slot" THEN 1 ELSE 0)
                                - (IF pc[t] = "slot" THEN 1 ELSE 0)
                 ELSE Asking(q)
    BY <1>4, <1>5 DEF Asking
  <1> QED
    BY <1>1, <1>3, <1>6, <1>7

LEMMA Still ==
  ASSUME UNCHANGED pc
  PROVE  /\ Users' = Users
         /\ \A q \in Replicas : Uncounted(q)' = Uncounted(q) /\ Asking(q)' = Asking(q)
  BY DEF Users, Uncounted, Asking, At, Local

\* Counting a hold, and giving one back.
LEMMA HeldStep ==
  ASSUME holds \in [Replicas -> 0..Limit]
  PROVE  /\ holds' = holds => HeldCount' = HeldCount
         /\ \A r \in Replicas :
              /\ (holds' = [holds EXCEPT ![r] = @ + 1] /\ holds[r] < Limit)
                   => HeldCount' = HeldCount + 1
              /\ (holds' = [holds EXCEPT ![r] = @ - 1] /\ holds[r] > 0)
                   => HeldCount' = HeldCount - 1
  <1>1. ASSUME holds' = holds PROVE HeldCount' = HeldCount
    BY <1>1 DEF HeldCount, Held
  <1>2. ASSUME NEW r \in Replicas, holds' = [holds EXCEPT ![r] = @ + 1], holds[r] < Limit
        PROVE  HeldCount' = HeldCount + 1
    <2> DEFINE h == <<r, holds[r] + 1>>
    <2>1. h \in Held' /\ h \notin Held /\ Held' \ {h} = Held \ {h}
      <3>1. holds[r] \in 0..Limit /\ holds[r] + 1 \in 1..Limit
        BY <1>2, BoundsAssumption
      <3>2. ASSUME NEW q \in Replicas, NEW n \in 1..Limit
            PROVE  <<q, n>> \in Held' <=> (<<q, n>> \in Held \/ <<q, n>> = h)
        BY <1>2, <3>1, BoundsAssumption DEF Held
      <3>3. h \in Replicas \X (1..Limit)
        BY <3>1
      <3>4. Held \in SUBSET (Replicas \X (1..Limit)) /\ Held' \in SUBSET (Replicas \X (1..Limit))
        BY DEF Held
      <3>5. h \notin Held
        BY <3>1, BoundsAssumption DEF Held
      <3> HIDE DEF h
      <3> QED
        BY <3>2, <3>3, <3>4, <3>5
    <2> HIDE DEF h
    <2>2. IsFiniteSet(Held) /\ HeldCount \in Nat
      BY HeldSets
    <2> QED
      BY <2>1, <2>2, DifferInOne DEF HeldCount
  <1>3. ASSUME NEW r \in Replicas, holds' = [holds EXCEPT ![r] = @ - 1], holds[r] > 0
        PROVE  HeldCount' = HeldCount - 1
    <2> DEFINE h == <<r, holds[r]>>
    <2>1. h \in Held /\ h \notin Held' /\ Held \ {h} = Held' \ {h}
      <3>1. holds[r] \in 1..Limit
        BY <1>3, BoundsAssumption
      <3>2. ASSUME NEW q \in Replicas, NEW n \in 1..Limit
            PROVE  <<q, n>> \in Held <=> (<<q, n>> \in Held' \/ <<q, n>> = h)
        BY <1>3, <3>1, BoundsAssumption DEF Held
      <3>3. h \in Replicas \X (1..Limit)
        BY <3>1
      <3>4. Held \in SUBSET (Replicas \X (1..Limit)) /\ Held' \in SUBSET (Replicas \X (1..Limit))
        BY DEF Held
      <3>5. h \notin Held'
        BY <1>3, <3>1, BoundsAssumption DEF Held
      <3> HIDE DEF h
      <3> QED
        BY <3>2, <3>3, <3>4, <3>5
    <2> HIDE DEF h
    <2>2. IsFiniteSet(Held) /\ HeldCount \in Nat
      BY HeldSets
    <2> QED
      BY <2>1, <2>2, DifferInOne DEF HeldCount
  <1> QED
    BY <1>1, <1>2, <1>3

-----------------------------------------------------------------------------
(* Every step keeps the invariant.                                         *)

LEMMA Homes == /\ \A t \in Threads : Home[t] \in Replicas
               /\ Limit \in Nat \ {0} /\ Lease \in Nat \ {0} /\ Cooldown \in Nat \ {0}
               /\ MaxOutages \in Nat /\ MaxCrashes \in Nat
  BY HomeAssumption, BoundsAssumption

\* A move of thread t to point p that has no part in a permit of its replica, and that the
\* counter covers if it takes up or gives up a slot.
Covered(t, p) ==
  /\ p \in Points /\ Goes(t, p) /\ counter' \in Nat
  /\ forgotten' = forgotten /\ permits' = permits /\ holds' = holds
  /\ pc[t] # "counted" /\ p # "counted" /\ (pc[t] = "slot" => holds[Home[t]] = 0)
  /\ \/ counter' >= counter /\ (p \in Using => pc[t] \in Using)
     \/ counter' >= counter + 1
     \/ counter' >= counter - 1 /\ pc[t] \in Using /\ p \notin Using

LEMMA MovesBooks ==
  ASSUME TypeOK, Accounted, Permits, NEW t \in Threads, NEW p, Covered(t, p)
  PROVE  Accounted' /\ Permits' /\ pc' \in [Threads -> Points]
  <1>1. pc' \in [Threads -> Points]
    BY Moved DEF TypeOK, Covered
  <1>2. Accounted'
    <2>1. HeldCount' = HeldCount
      BY HeldStep DEF TypeOK, Covered
    <2>2. Users' = Users + (IF p \in Using THEN 1 ELSE 0) - (IF pc[t] \in Using THEN 1 ELSE 0)
      BY Moved DEF TypeOK, Covered
    <2>3. Users \in Nat /\ HeldCount \in Nat /\ counter \in Nat /\ forgotten \in Nat
      BY AllNumbers, Homes, ThreadSets, HomeAssumption, FS_CardinalityType DEF Numbers, TypeOK
    <2> QED
      BY <2>1, <2>2, <2>3 DEF Accounted, Covered
  <1>3. ASSUME NEW q \in Replicas
        PROVE  permits'[q] = holds'[q] + Uncounted(q)' /\ holds'[q] <= Asking(q)'
    <2>1. Uncounted(q)' = Uncounted(q)
      BY AllNumbers, Moved DEF TypeOK, Numbers, Covered
    <2>2. Asking(q)' = IF q = Home[t]
            THEN Asking(q) + (IF p = "slot" THEN 1 ELSE 0) - (IF pc[t] = "slot" THEN 1 ELSE 0)
            ELSE Asking(q)
      BY Moved DEF TypeOK, Covered
    <2>3. Asking(q) \in Nat /\ holds[q] \in Nat /\ Asking(q)' \in Nat
      <3>1. (Local(q) \cap At({"slot"}))' \in SUBSET Threads
        BY DEF At
      <3>2. Asking(q)' \in Nat
        BY <3>1, HomeAssumption, FS_Subset, FS_CardinalityType DEF Asking
      <3> QED
        BY <3>2, AllNumbers, Homes DEF Numbers, TypeOK
    <2>4. permits[q] = holds[q] + Uncounted(q) /\ holds[q] <= Asking(q)
      BY DEF Permits
    <2> QED
      BY <2>1, <2>2, <2>3, <2>4 DEF Covered
  <1> QED
    BY <1>1, <1>2, <1>3 DEF Permits

\* The books stay balanced when no thread moves.
LEMMA StillBooks ==
  ASSUME TypeOK, Accounted, Permits, UNCHANGED <<pc, permits, holds>>,
         UNCHANGED <<counter, forgotten>>
  PROVE  Accounted' /\ Permits'
  <1>1. HeldCount' = HeldCount
    BY HeldStep DEF TypeOK
  <1> QED
    BY <1>1, Still DEF Accounted, Permits

LEMMA AttemptStep ==
  ASSUME Inv, NEW t \in Threads, Attempt(t)
  PROVE  Inv'
  <1>1. PICK p \in {"redis", "local"} : Goes(t, p) /\ (circuit[Home[t]] = "closed" => p = "redis")
    BY DEF Attempt
  <1>2. Accounted' /\ Permits' /\ pc' \in [Threads -> Points]
    <2>1. Covered(t, p)
      BY <1>1, Homes
      DEF Inv, TypeOK, Attempt, Covered, Points, Using, redisVars, localVars
    <2> QED
      BY <2>1, MovesBooks DEF Inv
  <1>3. TypeOK'
    BY <1>2, Homes DEF Inv, TypeOK, Attempt, redisVars, outsideVars, localVars
  <1>4. NoOutage'
    BY <1>1, Homes DEF Inv, NoOutage, TypeOK, Attempt, Goes, redisVars, outsideVars, localVars
  <1> QED
    BY <1>2, <1>3, <1>4 DEF Inv

LEMMA RecordStep ==
  ASSUME Inv, NEW t \in Threads, Record(t)
  PROVE  Inv'
  <1>1. PICK p \in {"slot", "local", "idle"} :
          /\ Goes(t, p)
          /\ \/ pc[t] = "took" /\ p = "slot"
             \/ pc[t] = "failed" /\ p = "local"
             \/ pc[t] \in {"busy", "lost"} /\ p = "idle"
    BY DEF Record
  <1>2. Accounted' /\ Permits' /\ pc' \in [Threads -> Points]
    <2>1. Covered(t, p)
      BY <1>1, Homes
      DEF Inv, TypeOK, Record, Covered, Points, Using, redisVars, localVars
    <2> QED
      BY <2>1, MovesBooks DEF Inv
  <1>3. TypeOK'
    BY <1>2, Homes
    DEF Inv, TypeOK, Record, Succeeded, Failed, Abandoned, redisVars, outsideVars, localVars
  <1>4. NoOutage'
    BY <1>1, Homes
    DEF Inv, NoOutage, TypeOK, Record, Succeeded, Failed, Abandoned, Goes,
        redisVars, outsideVars, localVars
  <1> QED
    BY <1>2, <1>3, <1>4 DEF Inv

LEMMA ProberSteps ==
  ASSUME Inv, NEW r \in Replicas, ProberStep(r)
  PROVE  Inv'
  <1>1. Accounted' /\ Permits'
    BY StillBooks
    DEF Inv, ProberStep, Ping, RecordPing, redisVars, localVars
  <1>2. TypeOK'
    BY Homes
    DEF Inv, TypeOK, ProberStep, Ping, RecordPing, Succeeded, Failed,
        redisVars, outsideVars, localVars, breakerVars
  <1>3. NoOutage'
    BY Homes
    DEF Inv, NoOutage, TypeOK, ProberStep, Ping, RecordPing, Succeeded, Failed,
        redisVars, outsideVars, localVars, breakerVars
  <1> QED
    BY <1>1, <1>2, <1>3 DEF Inv

\* Operations on the counter, whatever the reply.
LEMMA CounterStep ==
  ASSUME Inv, NEW t \in Threads,
         \/ RedisAcquires(t) \/ RedisBusy(t) \/ RedisAcquireFails(t)
         \/ RedisReleases(t) \/ RedisReleaseFails(t)
  PROVE  Inv'
  <1>1. PICK p \in {"took", "busy", "failed", "idle", "lost"} :
          /\ Goes(t, p) /\ pc[t] \in {"redis", "return"}
          /\ p \in {"failed", "lost"} => link[Home[t]] = "down"
          /\ pc[t] = "redis" /\ p # "took" => counter' >= counter
          /\ p = "took" => pc[t] = "redis" /\ counter' = counter + 1
          /\ counter' >= counter - 1
    BY Homes
    DEF Inv, TypeOK, RedisAcquires, RedisBusy, RedisAcquireFails, RedisReleases,
        RedisReleaseFails, Increment, Decrement, redisVars
  <1>2. counter' \in 0..Limit /\ ttl' \in 0..Lease
    BY Homes
    DEF Inv, TypeOK, RedisAcquires, RedisBusy, RedisAcquireFails, RedisReleases,
        RedisReleaseFails, Increment, Decrement, redisVars
  <1>3. UNCHANGED <<forgotten, outsideVars, breakerVars, localVars, prober>>
    BY DEF RedisAcquires, RedisBusy, RedisAcquireFails, RedisReleases, RedisReleaseFails,
           redisVars
  <1>4. Accounted' /\ Permits' /\ pc' \in [Threads -> Points]
    <2>1. Covered(t, p)
      BY <1>1, <1>2, <1>3, Homes DEF Inv, TypeOK, Covered, Points, Using, localVars
    <2> QED
      BY <2>1, MovesBooks DEF Inv
  <1>5. TypeOK'
    BY <1>2, <1>3, <1>4, Homes DEF Inv, TypeOK, outsideVars, breakerVars, localVars
  <1>6. NoOutage'
    BY <1>1, <1>3, Homes
    DEF Inv, NoOutage, TypeOK, Goes, outsideVars, breakerVars, localVars
  <1> QED
    BY <1>4, <1>5, <1>6 DEF Inv

LEMMA LocalStep ==
  ASSUME Inv, NEW t \in Threads, LocalAcquires(t) \/ LocalBusy(t) \/ CountHold(t)
  PROVE  Inv'
  <1>1. CASE LocalBusy(t)
    <2>1. Covered(t, "idle")
      BY <1>1, Homes DEF Inv, TypeOK, LocalBusy, Covered, Points, Using, redisVars, localVars
    <2>2. Accounted' /\ Permits' /\ pc' \in [Threads -> Points]
      BY <2>1, MovesBooks DEF Inv
    <2>3. TypeOK'
      BY <1>1, <2>2 DEF Inv, TypeOK, LocalBusy, redisVars, outsideVars, breakerVars, localVars
    <2>4. NoOutage'
      BY <1>1
      DEF Inv, NoOutage, TypeOK, LocalBusy, Goes, redisVars, outsideVars, breakerVars, localVars
    <2> QED
      BY <2>2, <2>3, <2>4 DEF Inv
  <1>2. CASE LocalAcquires(t)
    <2>1. /\ pc[t] = "local" /\ "counted" \in Points /\ Goes(t, "counted")
          /\ permits[Home[t]] < Limit /\ permits' = [permits EXCEPT ![Home[t]] = @ + 1]
          /\ UNCHANGED <<redisVars, outsideVars, breakerVars, holds, prober>>
      BY <1>2 DEF LocalAcquires, Points
    <2>2. pc' \in [Threads -> Points] /\ permits' \in [Replicas -> 0..Limit]
      BY <2>1, Moved, Homes DEF Inv, TypeOK
    <2>3. TypeOK'
      BY <2>1, <2>2 DEF Inv, TypeOK, redisVars, outsideVars, breakerVars
    <2>4. Accounted'
      <3>1. Users' = Users /\ HeldCount' = HeldCount
        BY <2>1, Moved, HeldStep, AllNumbers DEF Inv, TypeOK, Using, Numbers
      <3> QED
        BY <2>1, <3>1 DEF Inv, Accounted, redisVars
    <2>5. Permits'
      BY <2>1, Moved, AllNumbers, Homes DEF Inv, TypeOK, Permits, Numbers
    <2>6. NoOutage'
      BY <2>1 DEF Inv, NoOutage, outsideVars
    <2> QED
      BY <2>3, <2>4, <2>5, <2>6 DEF Inv
  <1>3. CASE CountHold(t)
    <2>1. /\ pc[t] = "counted" /\ "slot" \in Points /\ Goes(t, "slot")
          /\ holds' = [holds EXCEPT ![Home[t]] = @ + 1]
          /\ UNCHANGED <<redisVars, outsideVars, breakerVars, permits, prober>>
      BY <1>3 DEF CountHold, Points
    <2>2. Permits'
      BY <2>1, Moved, AllNumbers, Homes DEF Inv, TypeOK, Permits, Numbers
    <2>3. holds[Home[t]] < Limit
      <3>1. Uncounted(Home[t]) >= 1
        <4>1. t \in Local(Home[t]) \cap At({"counted"})
          BY <2>1 DEF Local, At
        <4>2. Uncounted(Home[t]) # 0
          BY <4>1, ThreadSets, FS_EmptySet DEF Uncounted
        <4> QED
          BY <4>2, AllNumbers, Homes DEF Numbers
      <3> QED
        BY <3>1, AllNumbers, Homes DEF Inv, TypeOK, Permits, Numbers
    <2>4. holds' \in [Replicas -> 0..Limit] /\ pc' \in [Threads -> Points]
      BY <2>1, <2>3, Moved, Homes DEF Inv, TypeOK
    <2>5. TypeOK'
      BY <2>1, <2>4 DEF Inv, TypeOK, redisVars, outsideVars, breakerVars
    <2>6. Accounted'
      <3>1. Users' = Users + 1 /\ HeldCount' = HeldCount + 1
        <4>1. Users' = Users + 1
          BY <2>1, Moved, AllNumbers DEF Inv, TypeOK, Using, Numbers
        <4>2. HeldCount' = HeldCount + 1
          BY <2>1, <2>3, HeldStep, Homes DEF Inv, TypeOK
        <4> QED
          BY <4>1, <4>2
      <3>2. counter \in Int /\ forgotten \in Int
        BY DEF Inv, TypeOK
      <3> QED
        BY <2>1, <3>1, <3>2, AllNumbers DEF Inv, Accounted, redisVars, Numbers
    <2>7. NoOutage'
      BY <2>1 DEF Inv, NoOutage, outsideVars
    <2> QED
      BY <2>2, <2>5, <2>6, <2>7 DEF Inv
  <1> QED
    BY <1>1, <1>2, <1>3

LEMMA ReleaseStep ==
  ASSUME Inv, NEW t \in Threads, Release(t)
  PROVE  Inv'
  <1>1. pc[t] = "slot" /\ UNCHANGED <<redisVars, outsideVars, breakerVars, prober>>
    BY DEF Release
  <1>2. CASE holds[Home[t]] > 0
    <2>1. /\ "idle" \in Points /\ Goes(t, "idle")
          /\ holds' = [holds EXCEPT ![Home[t]] = @ - 1]
          /\ permits' = [permits EXCEPT ![Home[t]] = @ - 1]
      BY <1>2 DEF Release, Points
    <2>2. permits[Home[t]] > 0
      BY <1>2, AllNumbers, Homes DEF Inv, TypeOK, Permits, Numbers
    <2>3. /\ holds' \in [Replicas -> 0..Limit] /\ permits' \in [Replicas -> 0..Limit]
          /\ pc' \in [Threads -> Points]
      BY <1>2, <2>1, <2>2, Moved, Homes DEF Inv, TypeOK
    <2>4. TypeOK'
      BY <1>1, <2>3 DEF Inv, TypeOK, redisVars, outsideVars, breakerVars
    <2>5. Accounted'
      <3>1. Users' = Users - 1 /\ HeldCount' = HeldCount - 1
        <4>1. Users' = Users - 1
          BY <1>1, <2>1, Moved, AllNumbers DEF Inv, TypeOK, Using, Numbers
        <4>2. HeldCount' = HeldCount - 1
          BY <1>2, <2>1, HeldStep, Homes DEF Inv, TypeOK
        <4> QED
          BY <4>1, <4>2
      <3>2. counter \in Int /\ forgotten \in Int
        BY DEF Inv, TypeOK
      <3> QED
        BY <1>1, <3>1, <3>2, AllNumbers DEF Inv, Accounted, redisVars, Numbers
    <2>6. ASSUME NEW q \in Replicas
          PROVE  permits'[q] = holds'[q] + Uncounted(q)' /\ holds'[q] <= Asking(q)'
      <3>1. permits[q] = holds[q] + Uncounted(q) /\ holds[q] <= Asking(q)
        BY DEF Inv, Permits
      <3>2. Uncounted(q)' = Uncounted(q)
        BY <1>1, <2>1, Moved, AllNumbers DEF Inv, TypeOK, Numbers
      <3>3. Asking(q)' = IF q = Home[t] THEN Asking(q) - 1 ELSE Asking(q)
        BY <1>1, <2>1, Moved, AllNumbers DEF Inv, TypeOK, Numbers
      <3>4. Asking(q) \in Nat /\ Uncounted(q) \in Nat /\ holds[q] \in Nat
        BY AllNumbers, Homes DEF Inv, TypeOK, Numbers
      <3> QED
        BY <2>1, <3>1, <3>2, <3>3, <3>4, Homes DEF Inv, TypeOK
    <2>7. NoOutage'
      BY <1>1, <1>2, Homes DEF Inv, NoOutage, outsideVars
    <2> QED
      BY <2>4, <2>5, <2>6, <2>7 DEF Inv, Permits
  <1>3. CASE ~(holds[Home[t]] > 0)
    <2>1. Goes(t, "return") /\ UNCHANGED localVars
      BY <1>3 DEF Release
    <2>2. Covered(t, "return")
      BY <1>1, <1>3, <2>1, Homes
      DEF Inv, TypeOK, Covered, Points, Using, redisVars, localVars
    <2>3. Accounted' /\ Permits' /\ pc' \in [Threads -> Points]
      BY <2>2, MovesBooks DEF Inv
    <2>4. TypeOK'
      BY <1>1, <2>1, <2>3 DEF Inv, TypeOK, redisVars, outsideVars, breakerVars, localVars
    <2>5. NoOutage'
      BY <1>1, <2>1 DEF Inv, NoOutage, TypeOK, Goes, outsideVars, breakerVars, localVars
    <2> QED
      BY <2>3, <2>4, <2>5 DEF Inv
  <1> QED
    BY <1>2, <1>3

-----------------------------------------------------------------------------
(* Outages, crashes and the clock.                                         *)

LEMMA LinkStep ==
  ASSUME Inv, NEW r \in Replicas, LinkFails(r) \/ LinkRecovers(r)
  PROVE  Inv'
  <1>1. Accounted' /\ Permits'
    BY StillBooks DEF Inv, LinkFails, LinkRecovers, redisVars, localVars
  <1>2. TypeOK'
    BY Homes
    DEF Inv, TypeOK, LinkFails, LinkRecovers, redisVars, localVars, breakerVars
  <1>3. NoOutage'
    BY Homes
    DEF Inv, NoOutage, TypeOK, LinkFails, LinkRecovers, localVars, breakerVars
  <1> QED
    BY <1>1, <1>2, <1>3 DEF Inv

\* The users of a replica that dies are at least as many as its counted permits.
LEMMA CrashCounts ==
  ASSUME Inv, NEW r \in Replicas, Crash(r)
  PROVE  /\ Users' + holds[r] <= Users /\ HeldCount' = HeldCount - holds[r]
         /\ \A q \in Replicas \ {r} : Uncounted(q)' = Uncounted(q) /\ Asking(q)' = Asking(q)
         /\ Uncounted(r)' = 0
  <1>1. pc' = [t \in Threads |-> IF Home[t] = r THEN "idle" ELSE pc[t]]
    BY DEF Crash
  <1>2. Users' + holds[r] <= Users
    <2>1. At(Using)' = At(Using) \ Local(r)
      BY <1>1 DEF At, Local, Using
    <2>2. Cardinality(At(Using) \ Local(r)) = Users - Cardinality(At(Using) \cap Local(r))
      BY ThreadSets, FS_Difference DEF Users
    <2>3. Asking(r) <= Cardinality(At(Using) \cap Local(r))
      <3>1. Local(r) \cap At({"slot"}) \in SUBSET (At(Using) \cap Local(r))
        BY DEF At, Using
      <3>2. IsFiniteSet(At(Using) \cap Local(r))
        BY ThreadSets, FS_Intersection
      <3> QED
        BY <3>1, <3>2, FS_Subset DEF Asking
    <2>4. /\ Users \in Nat /\ Asking(r) \in Nat /\ holds[r] \in Nat /\ holds[r] <= Asking(r)
          /\ Cardinality(At(Using) \cap Local(r)) \in Nat
      <3>1. IsFiniteSet(At(Using) \cap Local(r))
        BY ThreadSets, FS_Intersection
      <3> QED
        BY <3>1, FS_CardinalityType, AllNumbers, Homes DEF Numbers, Inv, TypeOK, Permits
    <2> QED
      BY <2>1, <2>2, <2>3, <2>4 DEF Users
  <1>3. HeldCount' = HeldCount - holds[r]
    <2> DEFINE Lost == {r} \X (1..holds[r])
    <2>1. holds[r] \in 0..Limit /\ holds' = [holds EXCEPT ![r] = 0]
      BY DEF Inv, TypeOK, Crash
    <2>2. Held' = Held \ Lost
      <3>1. ASSUME NEW q \in Replicas, NEW n \in 1..Limit
            PROVE  <<q, n>> \in Held' <=> <<q, n>> \in Held /\ <<q, n>> \notin Lost
        BY <2>1, Homes DEF Held, Inv, TypeOK
      <3>2. Held \in SUBSET (Replicas \X (1..Limit)) /\ Held' \in SUBSET (Replicas \X (1..Limit))
        BY DEF Held
      <3> HIDE DEF Lost
      <3> QED
        BY <3>1, <3>2
    <2>3. Held \cap Lost = Lost
      BY <2>1, Homes DEF Held
    <2>4. Cardinality(Lost) = holds[r]
      <3>1. IsFiniteSet({r}) /\ Cardinality({r}) = 1
        BY FS_Singleton
      <3>2. holds[r] \in Nat
        BY <2>1, Homes
      <3>3. IsFiniteSet(1..holds[r]) /\ Cardinality(1..holds[r]) = holds[r]
        BY <3>2, UpTo
      <3>4. Cardinality({r} \X (1..holds[r])) = Cardinality({r}) * Cardinality(1..holds[r])
        BY <3>1, <3>3, FS_Product
      <3> QED
        BY <3>1, <3>2, <3>3, <3>4
    <2> HIDE DEF Lost
    <2>5. Cardinality(Held \ Lost) = Cardinality(Held) - Cardinality(Held \cap Lost)
      BY HeldSets, FS_Difference
    <2> QED
      BY <2>2, <2>3, <2>4, <2>5 DEF HeldCount
  <1>4. ASSUME NEW q \in Replicas \ {r}
        PROVE  Uncounted(q)' = Uncounted(q) /\ Asking(q)' = Asking(q)
    <2>1. /\ (Local(q) \cap At({"counted"}))' = Local(q) \cap At({"counted"})
          /\ (Local(q) \cap At({"slot"}))' = Local(q) \cap At({"slot"})
      BY <1>1 DEF Local, At
    <2> QED
      BY <2>1 DEF Uncounted, Asking
  <1>5. Uncounted(r)' = 0
    <2>1. (Local(r) \cap At({"counted"}))' = {}
      BY <1>1 DEF Local, At
    <2> QED
      BY <2>1, FS_EmptySet DEF Uncounted
  <1> QED
    BY <1>2, <1>3, <1>4, <1>5

LEMMA CrashStep ==
  ASSUME Inv, NEW r \in Replicas, Crash(r)
  PROVE  Inv'
  <1>1. TypeOK'
    BY Homes DEF Inv, TypeOK, Points, Crash, Succeeded, Failed, redisVars
  <1>2. Accounted'
    <2>1. holds[r] \in Int /\ counter \in Int /\ forgotten \in Int
      BY DEF Inv, TypeOK
    <2>2. counter' = counter /\ forgotten' = forgotten
      BY DEF Crash, redisVars
    <2>3. Users' \in Int
      <3>1. At(Using)' \in SUBSET Threads
        BY DEF At
      <3> QED
        BY <3>1, HomeAssumption, FS_Subset, FS_CardinalityType DEF Users
    <2> QED
      BY <2>1, <2>2, <2>3, CrashCounts, AllNumbers DEF Inv, Accounted, Numbers
  <1>3. ASSUME NEW q \in Replicas
        PROVE  permits'[q] = holds'[q] + Uncounted(q)' /\ holds'[q] <= Asking(q)'
    <2>1. permits' = [permits EXCEPT ![r] = 0] /\ holds' = [holds EXCEPT ![r] = 0]
      BY DEF Crash
    <2>2. Asking(q)' \in Nat
      <3>1. (Local(q) \cap At({"slot"}))' \in SUBSET Threads
        BY DEF At
      <3> QED
        BY <3>1, HomeAssumption, FS_Subset, FS_CardinalityType DEF Asking
    <2>3. permits[q] = holds[q] + Uncounted(q) /\ holds[q] <= Asking(q)
      BY DEF Inv, Permits
    <2> QED
      BY <2>1, <2>2, <2>3, CrashCounts DEF Inv, TypeOK
  <1>4. NoOutage'
    BY Homes DEF Inv, NoOutage, TypeOK, Crash, Succeeded, Failed
  <1> QED
    BY <1>1, <1>2, <1>3, <1>4 DEF Inv, Permits

LEMMA TickStep ==
  ASSUME Inv, Tick
  PROVE  Inv'
  <1>1. UNCHANGED <<outsideVars, circuit, localVars, pc, prober>>
    BY DEF Tick
  <1>2. ttl' \in 0..Lease /\ cool' \in [Replicas -> 0..Cooldown]
    BY Homes DEF Inv, TypeOK, Tick, Down
  <1>3. Owed <= Cardinality(Threads) /\ Owed \in Int /\ Cardinality(Threads) \in Nat
    BY ThreadSets, HeldSets, HomeAssumption, FS_CardinalityType DEF Owed, HeldCount
  <1>4. /\ counter' \in 0..Limit /\ forgotten' \in 0..Cardinality(Threads)
        /\ \/ counter' = counter /\ forgotten' = forgotten
           \/ counter' = 0 /\ forgotten' >= Owed
    BY <1>3, Homes DEF Inv, TypeOK, Tick
  <1>5. TypeOK'
    BY <1>1, <1>2, <1>4 DEF Inv, TypeOK, outsideVars, localVars
  <1>6. Users' = Users /\ HeldCount' = HeldCount
    BY <1>1, Still, HeldStep DEF Inv, TypeOK, localVars
  <1>7. Accounted'
    BY <1>3, <1>4, <1>6, AllNumbers DEF Inv, Accounted, Owed, Users, HeldCount, Numbers
  <1>8. Permits'
    BY <1>1, Still DEF Inv, Permits, localVars
  <1>9. NoOutage'
    BY <1>1 DEF Inv, NoOutage, outsideVars, localVars
  <1> QED
    BY <1>5, <1>7, <1>8, <1>9 DEF Inv

-----------------------------------------------------------------------------
(* The invariant, and what follows from it.                                *)

LEMMA Initially ==
  ASSUME Init
  PROVE  Inv
  <1>1. Cardinality(Threads) \in Nat
    BY HomeAssumption, FS_CardinalityType
  <1>2. TypeOK
    BY <1>1, Homes DEF Init, TypeOK, Points
  <1>3. At(Using) = {} /\ \A q : Local(q) \cap At({"counted"}) = {}
    BY DEF Init, At, Using
  <1>4. Users = 0 /\ \A q : Uncounted(q) = 0
    BY <1>3, FS_EmptySet DEF Users, Uncounted
  <1>5. Accounted
    BY <1>4, AllNumbers DEF Init, Accounted, Numbers
  <1>6. Permits
    BY <1>4, AllNumbers DEF Init, Permits, Numbers
  <1>7. NoOutage
    BY DEF Init, NoOutage
  <1> QED
    BY <1>2, <1>5, <1>6, <1>7 DEF Inv

LEMMA Steps ==
  ASSUME Inv, [Next]_vars
  PROVE  Inv'
  <1>1. CASE UNCHANGED vars
    <2>1. Accounted' /\ Permits'
      BY <1>1, StillBooks DEF Inv, vars, redisVars, localVars
    <2> QED
      BY <1>1, <2>1
      DEF Inv, TypeOK, NoOutage, vars, redisVars, outsideVars, breakerVars, localVars
  <1>2. ASSUME NEW t \in Threads, Attempt(t) \/ ThreadStep(t)
        PROVE  Inv'
    BY <1>2, AttemptStep, RecordStep, CounterStep, LocalStep, ReleaseStep
    DEF ThreadStep, Acquiring, Releasing
  <1>3. ASSUME Surroundings
        PROVE  Inv'
    BY <1>3, TickStep, LinkStep, CrashStep DEF Surroundings
  <1> QED
    BY <1>1, <1>2, <1>3, ProberSteps DEF Next

LEMMA Invariant == Spec => []Inv
  BY Initially, Steps, PTL DEF Spec

\* The counter stays within the limit and above zero, and so do the local semaphores
\* (RedisSemaphore, LocalSemaphore), with every variable of its type.
THEOREM TypeCorrect == Spec => []TypeOK
  <1>1. Inv => TypeOK
    BY DEF Inv
  <1> QED
    BY <1>1, Invariant, PTL

\* A replica never loses a permit of its own semaphore and never gives one back twice,
\* although release() does not know which semaphore a thread's slot came from.
THEOREM PermitsReturn == Spec => []LocalPermitsReturn
  <1>1. Inv => LocalPermitsReturn
    BY DEF Inv, Permits, Uncounted, Asking, LocalPermitsReturn
  <1> QED
    BY <1>1, Invariant, PTL

LEMMA SlotsUse ==
  ASSUME Inv
  PROVE  /\ Cardinality(At({"slot"})) \in Nat
         /\ Cardinality(At({"slot"})) <= counter + forgotten + HeldCount
  <1>1. At({"slot"}) \in SUBSET At(Using)
    BY DEF At, Using
  <1>2. Cardinality(At({"slot"})) <= Users
    BY <1>1, ThreadSets, FS_Subset DEF Users
  <1>3. Cardinality(At({"slot"})) \in Nat
    BY ThreadSets, HomeAssumption, FS_CardinalityType
  <1>4. counter \in Int /\ forgotten \in Int
    BY DEF Inv, TypeOK
  <1> QED
    BY <1>2, <1>3, <1>4, AllNumbers DEF Inv, Accounted, Numbers

\* Until the link to Redis is first lost and as long as the lease outlives the requests, at
\* most Limit requests of all replicas are at the school (_upstream_slot), crashes or not.
THEOREM LimitIsKept == Spec => []LimitKept
  <1>1. ASSUME Inv, outages = 0, forgotten = 0
        PROVE  Cardinality(At({"slot"})) <= Limit
    <2>1. Held = {}
      BY <1>1 DEF Inv, NoOutage, Held
    <2>2. HeldCount = 0
      BY <2>1, FS_EmptySet DEF HeldCount
    <2> QED
      BY <1>1, <2>2, SlotsUse, Homes DEF Inv, TypeOK
  <1>2. Inv => LimitKept
    BY <1>1 DEF LimitKept
  <1> QED
    BY <1>2, Invariant, PTL

\* Whatever fails, a replica that has fallen back adds a Limit of its own and nothing more,
\* apart from the slots that the counter forgot (ResilientRedisSemaphore).
THEOREM LimitWhenDegraded == Spec => []LimitDegraded
  <1>1. ASSUME Inv
        PROVE  LimitDegraded
    <2> DEFINE F == {r \in Replicas : holds[r] > 0}
    <2>1. IsFiniteSet(F) /\ Cardinality(F) \in Nat
      <3>1. F \in SUBSET Replicas
        OBVIOUS
      <3> HIDE DEF F
      <3> QED
        BY <3>1, HomeAssumption, FS_Subset, FS_CardinalityType
    <2>2. Held \in SUBSET (F \X (1..Limit))
      BY <1>1, Homes DEF Held, Inv, TypeOK
    <2> HIDE DEF F
    <2>3. IsFiniteSet(1..Limit) /\ Cardinality(1..Limit) = Limit
      BY Homes, UpTo
    <2>4. /\ IsFiniteSet(F \X (1..Limit))
          /\ Cardinality(F \X (1..Limit)) = Cardinality(F) * Limit
      BY <2>1, <2>3, FS_Product
    <2>5. HeldCount <= Cardinality(F) * Limit
      BY <2>2, <2>4, FS_Subset DEF HeldCount
    <2>6. Limit * (1 + Cardinality(F)) = Limit + Cardinality(F) * Limit
          /\ Cardinality(F) * Limit \in Int
      BY <2>1, Homes
    <2>7. Cardinality(At({"slot"})) <= Limit * (1 + Cardinality(F)) + forgotten
      <3>1. counter \in Int /\ counter <= Limit /\ forgotten \in Int
        BY <1>1, Homes DEF Inv, TypeOK
      <3> HIDE DEF HeldCount
      <3> QED
        BY <1>1, <2>5, <2>6, <3>1, SlotsUse, HeldSets, Homes
    <2> QED
      BY <2>7 DEF LimitDegraded, F
  <1>2. Inv => LimitDegraded
    BY <1>1
  <1> QED
    BY <1>2, Invariant, PTL

-----------------------------------------------------------------------------
(***************************************************************************)
(* SchoolEntry: whatever the three caches hold and whatever other clients  *)
(* do to them, a client that nothing disturbs gets into the portal.        *)
(*                                                                         *)
(* The argument follows one client.  What it may use without having asked  *)
(* the school is bounded by where it is: a key of the cache may be stale   *)
(* on the first attempt only, the address and the service on the quick     *)
(* pass only.  On the second attempt the key may come from the cache       *)
(* again, so that step rests on what the other clients write: as long as   *)
(* somebody is undisturbed the school has not changed, and what is on its  *)
(* way into a cache is what the school says.                               *)
(***************************************************************************)

\* Where a client may be on which pass.
Phased(c) ==
  /\ at[c] \in {"idle", "entered", "failed", "params", "cookies"} => phase[c] = "login"
  /\ at[c] \in {"service", "portal"} => phase[c] # "login"
  /\ at[c] \in {"serviceput", "mint"} => phase[c] = "quick"

\* The second attempt belongs to the login with a password; a key just read is not the cache's.
Attempts(c) ==
  /\ again[c] => at[c] \in {"key", "keyput", "tickets"}
  /\ at[c] = "keyput" => ~fromCache[c]

\* An undisturbed client that gave the cached key up finds no stale one, and sends a stale one
\* only on the first attempt.
KeyFresh(c) ==
  clean[c] =>
    /\ again[c] => keyCache \in {None, school["key"]}
    /\ at[c] = "tickets" /\ (again[c] \/ ~fromCache[c]) => key[c] = school["key"]

\* On the full pass nothing comes from a cache.
PortalFresh(c) ==
  clean[c] /\ phase[c] = "full" =>
    /\ at[c] \in {"service", "key", "keyput", "tickets", "portal"} => mgmt[c] = school["mgmt"]
    /\ at[c] \in {"key", "keyput", "tickets", "portal"} => service[c] = school["service"]

Good(c) == Phased(c) /\ Attempts(c) /\ KeyFresh(c) /\ PortalFresh(c) /\ (clean[c] => at[c] # "failed")

\* While anybody is undisturbed, nobody is about to write what is no longer true.
NothingStale == \A c \in Clients : clean[c] => \A d \in Clients : ~Stale(d)

EntryInv == EntryTypeOK /\ (\A c \in Clients : Good(c)) /\ NothingStale

-----------------------------------------------------------------------------
LEMMA VersionFacts == Versions \subseteq Int /\ 0 \in Versions /\ None \notin Versions
                      /\ None \in Known /\ Versions \subseteq Known
  BY EntryBounds DEF Versions, None, Known

LEMMA EntryInitInv == EntryInit => EntryInv
<1>. SUFFICES ASSUME EntryInit PROVE EntryInv
  OBVIOUS
<1>1. EntryTypeOK
  BY VersionFacts, EntryBounds DEF EntryInit, EntryTypeOK, EntryPoints, Requests, Writes
<1>2. ASSUME NEW c \in Clients PROVE Good(c)
  BY DEF EntryInit, Good, Phased, Attempts, KeyFresh, PortalFresh
<1>3. NothingStale
  BY DEF EntryInit, NothingStale
<1>. QED BY <1>1, <1>2, <1>3 DEF EntryInv

-----------------------------------------------------------------------------
(* What a client's step means for the others.                              *)

\* A step of c leaves what belongs to the other clients alone, and the school.
StepOf(c) ==
  /\ school' = school
  /\ \A d \in Clients \ {c} :
       /\ at'[d] = at[d] /\ phase'[d] = phase[d] /\ key'[d] = key[d]
       /\ fromCache'[d] = fromCache[d] /\ again'[d] = again[d] /\ mgmt'[d] = mgmt[d]
       /\ service'[d] = service[d] /\ clean'[d] = clean[d]

\* The key in the cache is left, cleared, or replaced by what c is about to write.
KeyCacheStep(c) ==
  \/ keyCache' = keyCache
  \/ keyCache' = None
  \/ at[c] = "keyput" /\ keyCache' = key[c]

LEMMA OthersGood ==
  ASSUME EntryInv, NEW c \in Clients, StepOf(c), KeyCacheStep(c), NEW d \in Clients, d # c
  PROVE  Good(d)'
<1>1. Phased(d)' /\ Attempts(d)' /\ PortalFresh(d)' /\ (clean[d] => at[d] # "failed")'
  BY DEF EntryInv, Good, StepOf, Phased, Attempts, PortalFresh
<1>2. clean[d] /\ at[c] = "keyput" => key[c] = school["key"]
  BY DEF EntryInv, NothingStale, Stale
<1>3. KeyFresh(d)'
  BY <1>2 DEF EntryInv, Good, StepOf, KeyCacheStep, KeyFresh
<1>. QED BY <1>1, <1>3 DEF Good

\* What is stale after a step of c was stale before it, or c is what became stale.
LEMMA StaleStep ==
  ASSUME EntryInv, NEW c \in Clients, StepOf(c), clean'[c] => clean[c], ~Stale(c)'
  PROVE  NothingStale'
<1>. SUFFICES ASSUME NEW d \in Clients, clean'[d], NEW e \in Clients, Stale(e)'
              PROVE  FALSE
  BY DEF NothingStale
<1>1. e # c
  OBVIOUS
<1>2. Stale(e)
  BY <1>1 DEF Stale, StepOf
<1>3. clean[d]
  BY DEF StepOf
<1>. QED BY <1>2, <1>3 DEF EntryInv, NothingStale

LEMMA InvStep ==
  ASSUME EntryInv, NEW c \in Clients, StepOf(c), KeyCacheStep(c), clean'[c] => clean[c],
         EntryTypeOK', Good(c)', ~Stale(c)'
  PROVE  EntryInv'
<1>1. ASSUME NEW d \in Clients PROVE Good(d)'
  BY OthersGood
<1>2. NothingStale'
  BY StaleStep
<1>. QED BY <1>1, <1>2 DEF EntryInv

-----------------------------------------------------------------------------
(* Requests that fail.                                                     *)

LEMMA RaisesTypes ==
  ASSUME EntryTypeOK, NEW c \in Clients, Raises(c)
  PROVE  /\ keyCache' \in Known /\ mgmtCache' \in Known /\ ssoCache' \in [Versions -> Known]
         /\ at' \in [Clients -> EntryPoints] /\ phase' \in [Clients -> {"login", "quick", "full"}]
         /\ key' \in [Clients -> Versions] /\ fromCache' \in [Clients -> BOOLEAN]
         /\ again' \in [Clients -> BOOLEAN]
         /\ mgmt' \in [Clients -> Versions] /\ mgmtKey' \in [Clients -> BOOLEAN]
         /\ service' \in [Clients -> Versions]
<1>0. key' \in [Clients -> Versions] /\ fromCache' \in [Clients -> BOOLEAN]
  BY VersionFacts DEF EntryTypeOK, Raises, LeavesTickets, Set
<1>1. CASE TicketsAgain(c)
  BY <1>0, <1>1, VersionFacts DEF EntryTypeOK, TicketsAgain, Passes, Set, KeyDropped, portalVars, EntryPoints, Requests
<1>2. CASE PasswordInstead(c)
  BY <1>0, <1>2, VersionFacts DEF EntryTypeOK, PasswordInstead, Passes, Set, portalVars, cacheVars, EntryPoints, Requests
<1>3. CASE FullRetry(c)
  BY <1>0, <1>3, VersionFacts DEF EntryTypeOK, FullRetry, LeavesJ, Set, EntryPoints, Requests
<1>4. CASE GivesUp(c)
  BY <1>0, <1>4, VersionFacts DEF EntryTypeOK, GivesUp, LeavesJ, Set, cacheVars, EntryPoints
<1>. QED BY <1>1, <1>2, <1>3, <1>4 DEF Raises

\* A failure of c is a step of c, after which it is about to write nothing.
LEMMA RaisesFrame ==
  ASSUME EntryTypeOK, NEW c \in Clients, Raises(c), school' = school,
         \A d \in Clients \ {c} : clean'[d] = clean[d]
  PROVE  StepOf(c) /\ KeyCacheStep(c) /\ ~Stale(c)' /\ Phased(c)' /\ Attempts(c)'
<1>1. CASE TicketsAgain(c)
  BY <1>1 DEF EntryTypeOK, Raises, LeavesTickets, TicketsAgain, Passes, Set, KeyDropped, portalVars,
              StepOf, KeyCacheStep, Stale, Phased, Attempts
<1>2. CASE PasswordInstead(c)
  BY <1>2 DEF EntryTypeOK, Raises, LeavesTickets, PasswordInstead, Passes, Set, portalVars, cacheVars,
              StepOf, KeyCacheStep, Stale, Phased, Attempts
<1>3. CASE FullRetry(c)
  BY <1>3 DEF EntryTypeOK, Raises, LeavesTickets, FullRetry, LeavesJ, Set,
              StepOf, KeyCacheStep, Stale, Phased, Attempts
<1>4. CASE GivesUp(c)
  BY <1>4 DEF EntryTypeOK, Raises, LeavesTickets, GivesUp, LeavesJ, Set, cacheVars,
              StepOf, KeyCacheStep, Stale, Phased, Attempts
<1>. QED BY <1>1, <1>2, <1>3, <1>4 DEF Raises

LEMMA FaultInv == ASSUME EntryInv, NEW c \in Clients, Fault(c) PROVE EntryInv'
<1>1. EntryTypeOK'
  <2>1. clean' \in [Clients -> BOOLEAN] /\ faults' \in 0..MaxFaults /\ school' = school
    BY EntryBounds DEF EntryInv, EntryTypeOK, Fault, Set
  <2>2. Raises(c)
    BY DEF Fault
  <2>. QED BY <2>1, <2>2, RaisesTypes DEF EntryInv, EntryTypeOK
<1>2. StepOf(c) /\ KeyCacheStep(c) /\ ~Stale(c)' /\ Phased(c)' /\ Attempts(c)'
  BY RaisesFrame DEF EntryInv, Fault, Set, EntryTypeOK
<1>3. ~clean'[c]
  BY DEF EntryInv, EntryTypeOK, Fault, Set
<1>4. Good(c)'
  BY <1>2, <1>3 DEF Good, KeyFresh, PortalFresh
<1>. QED BY <1>1, <1>2, <1>3, <1>4, InvStep

\* A request that the school refuses, with nothing to give up that could be stale, does not fail
\* an undisturbed client: it has another attempt.
LEMMA RefusedInv ==
  ASSUME EntryInv, NEW c \in Clients, Raises(c), UNCHANGED <<school, clean, faults>>,
         clean[c] => ~GivesUp(c)
  PROVE  EntryInv'
<1>1. EntryTypeOK'
  BY RaisesTypes DEF EntryInv, EntryTypeOK
<1>2. StepOf(c) /\ KeyCacheStep(c) /\ ~Stale(c)' /\ Phased(c)' /\ Attempts(c)'
  BY RaisesFrame DEF EntryInv
<1>3. Good(c)'
  <2>1. CASE ~clean[c]
    BY <2>1, <1>2 DEF Good, KeyFresh, PortalFresh
  <2>2. CASE clean[c] /\ TicketsAgain(c)
    BY <2>2, <1>2 DEF EntryInv, EntryTypeOK, Good, KeyFresh, PortalFresh, TicketsAgain, Passes, Set, KeyDropped,
                      portalVars
  <2>3. CASE clean[c] /\ PasswordInstead(c)
    BY <2>3, <1>2 DEF EntryInv, EntryTypeOK, Good, Phased, Attempts, KeyFresh, PortalFresh, PasswordInstead, Passes, Set,
                      portalVars, cacheVars
  <2>4. CASE clean[c] /\ FullRetry(c)
    BY <2>4, <1>2 DEF EntryInv, EntryTypeOK, Good, KeyFresh, PortalFresh, FullRetry, Set
  <2>. QED BY <2>1, <2>2, <2>3, <2>4 DEF Raises
<1>. QED BY <1>1, <1>2, <1>3, InvStep

-----------------------------------------------------------------------------
(* The steps of login().                                                   *)

LEMMA BeginInv == ASSUME EntryInv, NEW c \in Clients, Begin(c) PROVE EntryInv'
<1>1. EntryTypeOK'
  BY DEF EntryInv, EntryTypeOK, Begin, Set, cacheVars, keyVars, portalVars, EntryPoints, Requests
<1>2. StepOf(c) /\ KeyCacheStep(c)
  BY DEF EntryInv, EntryTypeOK, Begin, Set, cacheVars, keyVars, portalVars, StepOf, KeyCacheStep
<1>3. Phased(c) /\ Attempts(c) /\ at[c] \in {"idle", "entered", "failed"} /\ at'[c] = "params"
      /\ phase' = phase /\ again' = again
  BY DEF EntryInv, EntryTypeOK, Good, Begin, Set, keyVars
<1>4. Good(c)'
  BY <1>3 DEF Good, Phased, Attempts, KeyFresh, PortalFresh
<1>5. ASSUME NEW d \in Clients PROVE Good(d)'
  BY <1>2, <1>4, OthersGood
<1>6. NothingStale'
  <2>. SUFFICES ASSUME NEW d \in Clients, clean'[d], NEW e \in Clients, Stale(e)'
                PROVE  FALSE
    BY DEF NothingStale
  <2>1. e # c
    BY <1>3 DEF Stale
  <2>2. Stale(e)
    BY <1>2, <2>1 DEF Stale, StepOf
  <2>3. d # c
    BY <2>2 DEF EntryInv, EntryTypeOK, Begin, Set
  <2>. QED BY <2>2, <2>3, <1>2 DEF EntryInv, NothingStale, StepOf
<1>. QED BY <1>1, <1>5, <1>6 DEF EntryInv

LEMMA LoginParamsInv == ASSUME EntryInv, NEW c \in Clients, LoginParams(c) PROVE EntryInv'
<1>1. EntryTypeOK'
  BY DEF EntryInv, EntryTypeOK, LoginParams, Passes, cacheVars, keyVars, portalVars, EntryPoints, Requests
<1>2. StepOf(c) /\ KeyCacheStep(c) /\ ~Stale(c)' /\ (clean'[c] => clean[c])
  BY DEF EntryInv, EntryTypeOK, LoginParams, Passes, cacheVars, keyVars, portalVars, StepOf, KeyCacheStep, Stale
<1>3. Good(c)'
  BY DEF EntryInv, EntryTypeOK, LoginParams, Passes, cacheVars, keyVars, portalVars, Good, Phased, Attempts,
         KeyFresh, PortalFresh
<1>. QED BY <1>1, <1>2, <1>3, InvStep

LEMMA KeyInv == ASSUME EntryInv, NEW c \in Clients, Key(c) PROVE EntryInv'
<1>1. EntryTypeOK'
  BY VersionFacts DEF EntryInv, EntryTypeOK, Key, Passes, Set, cacheVars, portalVars, EntryPoints, Requests, Writes, Known
<1>2. StepOf(c) /\ KeyCacheStep(c) /\ ~Stale(c)' /\ (clean'[c] => clean[c])
  BY DEF EntryInv, EntryTypeOK, Key, Passes, Set, cacheVars, portalVars, StepOf, KeyCacheStep, Stale
<1>3. Phased(c)' /\ PortalFresh(c)' /\ (clean[c] => at'[c] # "failed")
  BY DEF EntryInv, EntryTypeOK, Key, Passes, Set, portalVars, Good, Phased, PortalFresh
<1>4. CASE keyCache # None
  <2>1. fromCache'[c] /\ at'[c] = "tickets" /\ key'[c] = keyCache /\ again' = again /\ at[c] = "key"
    BY <1>4 DEF EntryInv, EntryTypeOK, Key, Passes, Set
  <2>2. Attempts(c)' /\ KeyFresh(c)'
    BY <2>1, <1>4 DEF EntryInv, Key, cacheVars, Good, Attempts, KeyFresh
  <2>. QED BY <1>1, <1>2, <1>3, <2>2, InvStep DEF Good, Key
<1>5. CASE keyCache = None
  <2>1. ~fromCache'[c] /\ at'[c] = "keyput" /\ again' = again /\ at[c] = "key"
    BY <1>5 DEF EntryInv, EntryTypeOK, Key, Passes, Set
  <2>2. Attempts(c)' /\ KeyFresh(c)'
    BY <2>1, <1>5 DEF EntryInv, Key, cacheVars, Good, Attempts, KeyFresh
  <2>. QED BY <1>1, <1>2, <1>3, <2>2, InvStep DEF Good, Key
<1>. QED BY <1>4, <1>5

LEMMA PutKeyInv == ASSUME EntryInv, NEW c \in Clients, PutKey(c) PROVE EntryInv'
<1>1. EntryTypeOK'
  BY VersionFacts DEF EntryInv, EntryTypeOK, PutKey, Passes, keyVars, portalVars, EntryPoints, Requests
<1>2. StepOf(c) /\ KeyCacheStep(c) /\ ~Stale(c)' /\ (clean'[c] => clean[c])
  BY DEF EntryInv, EntryTypeOK, PutKey, Passes, keyVars, portalVars, StepOf, KeyCacheStep, Stale
<1>3. clean[c] => key[c] = school["key"]
  BY DEF EntryInv, NothingStale, Stale, PutKey, Passes
<1>4. Good(c)'
  BY <1>3 DEF EntryInv, EntryTypeOK, PutKey, Passes, keyVars, portalVars, Good, Phased, Attempts, KeyFresh, PortalFresh
<1>. QED BY <1>1, <1>2, <1>4, InvStep

LEMMA TicketsInv == ASSUME EntryInv, NEW c \in Clients, Tickets(c) PROVE EntryInv'
<1>1. CASE key[c] = school["key"]
  <2>. USE <1>1
  <2>1. EntryTypeOK'
    BY VersionFacts DEF EntryInv, EntryTypeOK, Tickets, Passes, LeavesTickets, Set, cacheVars, portalVars, EntryPoints, Requests
  <2>2. StepOf(c) /\ KeyCacheStep(c) /\ ~Stale(c)' /\ (clean'[c] => clean[c])
    BY DEF EntryInv, EntryTypeOK, Tickets, Passes, LeavesTickets, Set, cacheVars, portalVars, StepOf, KeyCacheStep, Stale
  <2>3. Good(c)'
    BY DEF EntryInv, EntryTypeOK, Tickets, Passes, LeavesTickets, Set, cacheVars, portalVars, Good, Phased, Attempts,
           KeyFresh, PortalFresh
  <2>. QED BY <2>1, <2>2, <2>3, InvStep
<1>2. CASE key[c] # school["key"]
  <2>1. Raises(c) /\ at[c] = "tickets" /\ UNCHANGED <<school, clean, faults>>
    BY <1>2 DEF Tickets
  <2>2. clean[c] => ~GivesUp(c)
    BY <1>2, <2>1 DEF EntryInv, EntryTypeOK, Good, KeyFresh, GivesUp
  <2>. QED BY <2>1, <2>2, RefusedInv
<1>. QED BY <1>1, <1>2

LEMMA CookiesInv == ASSUME EntryInv, NEW c \in Clients, Cookies(c) PROVE EntryInv'
<1>1. EntryTypeOK'
  BY DEF EntryInv, EntryTypeOK, Cookies, Passes, cacheVars, keyVars, portalVars, EntryPoints, Requests
<1>2. StepOf(c) /\ KeyCacheStep(c) /\ ~Stale(c)' /\ (clean'[c] => clean[c])
  BY DEF EntryInv, EntryTypeOK, Cookies, Passes, cacheVars, keyVars, portalVars, StepOf, KeyCacheStep, Stale
<1>3. Good(c)'
  BY DEF EntryInv, EntryTypeOK, Cookies, Passes, cacheVars, keyVars, portalVars, Good, Phased, Attempts,
         KeyFresh, PortalFresh
<1>. QED BY <1>1, <1>2, <1>3, InvStep

-----------------------------------------------------------------------------
(* The steps of student().                                                 *)

LEMMA AppsInv == ASSUME EntryInv, NEW c \in Clients, Apps(c) PROVE EntryInv'
<1>0. mgmtCache # None => mgmtCache \in Versions
  BY DEF EntryInv, EntryTypeOK, Known
<1>1. EntryTypeOK'
  <2>1. mgmt' \in [Clients -> Versions]
    BY <1>0 DEF EntryInv, EntryTypeOK, Apps, Set
  <2>2. at' \in [Clients -> EntryPoints]
    BY DEF EntryInv, EntryTypeOK, Apps, Passes, EntryPoints, Requests, Writes
  <2>3. phase' \in [Clients -> {"login", "quick", "full"}]
    BY DEF EntryInv, EntryTypeOK, Apps, Enters, Set
  <2>4. mgmtKey' \in [Clients -> BOOLEAN]
    BY DEF EntryInv, EntryTypeOK, Apps, Set
  <2>. QED BY <2>1, <2>2, <2>3, <2>4 DEF EntryInv, EntryTypeOK, Apps, cacheVars, keyVars
<1>2. StepOf(c) /\ KeyCacheStep(c) /\ ~Stale(c)' /\ (clean'[c] => clean[c])
  BY DEF EntryInv, EntryTypeOK, Apps, Enters, Passes, Set, cacheVars, keyVars, StepOf, KeyCacheStep, Stale
<1>3. Good(c)'
  BY DEF EntryInv, EntryTypeOK, Apps, Enters, Passes, Set, cacheVars, keyVars, Good, Phased, Attempts, KeyFresh, PortalFresh
<1>. QED BY <1>1, <1>2, <1>3, InvStep

LEMMA PutMgmtInv == ASSUME EntryInv, NEW c \in Clients, PutMgmt(c) PROVE EntryInv'
<1>1. EntryTypeOK'
  BY VersionFacts DEF EntryInv, EntryTypeOK, PutMgmt, Enters, Passes, Set, keyVars, EntryPoints, Requests
<1>2. StepOf(c) /\ KeyCacheStep(c) /\ ~Stale(c)' /\ (clean'[c] => clean[c])
  BY DEF EntryInv, EntryTypeOK, PutMgmt, Enters, Passes, Set, keyVars, StepOf, KeyCacheStep, Stale
<1>3. clean[c] => mgmt[c] = school["mgmt"]
  BY DEF EntryInv, NothingStale, Stale, PutMgmt, Passes
<1>4. Good(c)'
  BY <1>3 DEF EntryInv, EntryTypeOK, PutMgmt, Enters, Passes, Set, keyVars, Good, Phased, Attempts, KeyFresh, PortalFresh
<1>. QED BY <1>1, <1>2, <1>4, InvStep

LEMMA ServiceInv == ASSUME EntryInv, NEW c \in Clients, Service(c) PROVE EntryInv'
<1>0. ssoCache[mgmt[c]] # None => ssoCache[mgmt[c]] \in Versions
  BY DEF EntryInv, EntryTypeOK, Known
<1>1. EntryTypeOK'
  BY <1>0, VersionFacts DEF EntryInv, EntryTypeOK, Service, SignsOn, Passes, Set, cacheVars, keyVars, EntryPoints, Requests, Writes
<1>2. StepOf(c) /\ KeyCacheStep(c) /\ ~Stale(c)' /\ (clean'[c] => clean[c])
  BY DEF EntryInv, EntryTypeOK, Service, SignsOn, Passes, Set, cacheVars, keyVars, StepOf, KeyCacheStep, Stale
<1>3. Good(c)'
  <2>1. Phased(c)' /\ Attempts(c)' /\ KeyFresh(c)' /\ (clean[c] => at[c] # "failed")'
    BY DEF EntryInv, EntryTypeOK, Service, SignsOn, Passes, Set, cacheVars, keyVars, Good, Phased, Attempts, KeyFresh
  <2>2. PortalFresh(c)'
    BY DEF EntryInv, EntryTypeOK, Service, SignsOn, Passes, Set, cacheVars, keyVars, Good, PortalFresh
  <2>. QED BY <2>1, <2>2 DEF Good
<1>. QED BY <1>1, <1>2, <1>3, InvStep

LEMMA PutServiceInv == ASSUME EntryInv, NEW c \in Clients, PutService(c) PROVE EntryInv'
<1>1. EntryTypeOK'
  BY VersionFacts DEF EntryInv, EntryTypeOK, PutService, Passes, keyVars, portalVars, EntryPoints, Requests
<1>2. StepOf(c) /\ KeyCacheStep(c) /\ ~Stale(c)' /\ (clean'[c] => clean[c])
  BY DEF EntryInv, EntryTypeOK, PutService, Passes, keyVars, portalVars, StepOf, KeyCacheStep, Stale
<1>3. Good(c)'
  BY DEF EntryInv, EntryTypeOK, PutService, Passes, keyVars, portalVars, Good, Phased, Attempts, KeyFresh, PortalFresh
<1>. QED BY <1>1, <1>2, <1>3, InvStep

LEMMA MintInv == ASSUME EntryInv, NEW c \in Clients, Mint(c) PROVE EntryInv'
<1>1. CASE Raises(c)
  <2>1. at[c] = "mint" /\ UNCHANGED <<school, clean, faults>>
    BY DEF Mint
  <2>2. ~GivesUp(c)
    BY <2>1 DEF EntryInv, Good, Phased, GivesUp
  <2>. QED BY <1>1, <2>1, <2>2, RefusedInv
<1>2. CASE ~Raises(c)
  <2>. USE <1>2
  <2>1. EntryTypeOK'
    BY DEF EntryInv, EntryTypeOK, Mint, Passes, cacheVars, keyVars, portalVars, EntryPoints, Requests
  <2>2. StepOf(c) /\ KeyCacheStep(c) /\ ~Stale(c)' /\ (clean'[c] => clean[c])
    BY DEF EntryInv, EntryTypeOK, Mint, Passes, cacheVars, keyVars, portalVars, StepOf, KeyCacheStep, Stale
  <2>3. Good(c)'
    BY DEF EntryInv, EntryTypeOK, Mint, Passes, cacheVars, keyVars, portalVars, Good, Phased, Attempts, KeyFresh, PortalFresh
  <2>. QED BY <2>1, <2>2, <2>3, InvStep
<1>. QED BY <1>1, <1>2

LEMMA PortalInv == ASSUME EntryInv, NEW c \in Clients, Portal(c) PROVE EntryInv'
<1>1. CASE mgmt[c] = school["mgmt"] /\ service[c] = school["service"]
  <2>. USE <1>1
  <2>1. EntryTypeOK'
    <3>1. mgmt' \in [Clients -> Versions] /\ service' \in [Clients -> Versions]
          /\ mgmtKey' \in [Clients -> BOOLEAN]
      BY VersionFacts DEF EntryInv, EntryTypeOK, Portal, LeavesJ, Set
    <3>2. at' \in [Clients -> EntryPoints] /\ phase' \in [Clients -> {"login", "quick", "full"}]
      BY DEF EntryInv, EntryTypeOK, Portal, Passes, Set, EntryPoints
    <3>3. clean' \in [Clients -> BOOLEAN]
      BY DEF EntryInv, EntryTypeOK, Portal, Set
    <3>. QED BY <3>1, <3>2, <3>3 DEF EntryInv, EntryTypeOK, Portal, cacheVars, keyVars
  <2>2. StepOf(c) /\ KeyCacheStep(c) /\ ~Stale(c)' /\ (clean'[c] => clean[c])
    BY DEF EntryInv, EntryTypeOK, Portal, Passes, LeavesJ, Set, cacheVars, keyVars, StepOf, KeyCacheStep, Stale
  <2>3. Good(c)'
    BY DEF EntryInv, EntryTypeOK, Portal, Passes, LeavesJ, Set, cacheVars, keyVars, Good, Phased, Attempts,
           KeyFresh, PortalFresh
  <2>. QED BY <2>1, <2>2, <2>3, InvStep
<1>2. CASE ~(mgmt[c] = school["mgmt"] /\ service[c] = school["service"])
  <2>1. Raises(c) /\ at[c] = "portal" /\ UNCHANGED <<school, clean, faults>>
    BY <1>2 DEF Portal
  <2>2. clean[c] => ~GivesUp(c)
    BY <1>2, <2>1 DEF EntryInv, Good, Phased, PortalFresh, GivesUp
  <2>. QED BY <2>1, <2>2, RefusedInv
<1>. QED BY <1>1, <1>2

-----------------------------------------------------------------------------
(* The school and the clock.                                               *)

LEMMA ChangeInv == ASSUME EntryInv, NEW x \in {"key", "mgmt", "service"}, Change(x) PROVE EntryInv'
<1>1. school' \in [{"key", "mgmt", "service"} -> Versions]
  BY EntryBounds DEF EntryInv, EntryTypeOK, Change, Versions
<1>2. EntryTypeOK'
  BY <1>1 DEF EntryInv, EntryTypeOK, Change, cacheVars, keyVars, portalVars
<1>3. \A c \in Clients : ~clean'[c]
  BY DEF Change
<1>4. ASSUME NEW c \in Clients PROVE Good(c)'
  BY <1>3 DEF EntryInv, Change, cacheVars, keyVars, portalVars, Good, Phased, Attempts, KeyFresh, PortalFresh
<1>5. NothingStale'
  BY <1>3 DEF NothingStale
<1>. QED BY <1>2, <1>4, <1>5 DEF EntryInv

LEMMA ExpireInv == ASSUME EntryInv, Expire PROVE EntryInv'
<1>1. EntryTypeOK'
  BY VersionFacts DEF EntryInv, EntryTypeOK, Expire, keyVars, portalVars
<1>2. keyCache' \in {keyCache, None}
  BY DEF Expire
<1>3. ASSUME NEW c \in Clients PROVE Good(c)'
  BY <1>2 DEF EntryInv, Expire, keyVars, portalVars, Good, Phased, Attempts, KeyFresh, PortalFresh
<1>4. NothingStale'
  BY DEF EntryInv, Expire, keyVars, portalVars, NothingStale, Stale
<1>. QED BY <1>1, <1>3, <1>4 DEF EntryInv

LEMMA NextInv == EntryInv /\ [EntryNext]_entryVars => EntryInv'
<1>. SUFFICES ASSUME EntryInv, [EntryNext]_entryVars PROVE EntryInv'
  OBVIOUS
<1>1. ASSUME NEW c \in Clients, Begin(c) \/ Moves(c) PROVE EntryInv'
  BY <1>1, BeginInv, LoginParamsInv, KeyInv, PutKeyInv, TicketsInv, CookiesInv, AppsInv, PutMgmtInv,
     ServiceInv, PutServiceInv, MintInv, PortalInv, FaultInv DEF Moves
<1>2. CASE UNCHANGED entryVars
  <2>1. EntryTypeOK'
    BY <1>2 DEF EntryInv, EntryTypeOK, entryVars, cacheVars, keyVars, portalVars
  <2>2. ASSUME NEW c \in Clients PROVE Good(c)'
    BY <1>2 DEF EntryInv, entryVars, cacheVars, keyVars, portalVars, Good, Phased, Attempts, KeyFresh, PortalFresh
  <2>3. NothingStale'
    BY <1>2 DEF EntryInv, entryVars, cacheVars, keyVars, portalVars, NothingStale, Stale
  <2>. QED BY <2>1, <2>2, <2>3 DEF EntryInv
<1>. QED BY <1>1, <1>2, ChangeInv, ExpireInv DEF EntryNext

\* The versions that clients, caches and the school have are among those the school has had.
THEOREM EntryTypeCorrect == EntrySpec => []EntryTypeOK
<1>1. EntryInv => EntryTypeOK
  BY DEF EntryInv
<1>. QED BY <1>1, EntryInitInv, NextInv, PTL DEF EntrySpec

\* J.login and J.student: for any number of clients and of changes at the school, a client that
\* nothing disturbs gets into the portal, whatever the caches hold and the others do to them.
THEOREM CachesRecover == EntrySpec => []StaleCachesRecover
<1>1. EntryInv => StaleCachesRecover
  BY DEF EntryInv, Good, StaleCachesRecover
<1>. QED BY <1>1, EntryInitInv, NextInv, PTL DEF EntrySpec
=============================================================================
