---------------------------- MODULE ServiceProofs ----------------------------
(***************************************************************************)
(* The query service.  Theorems about QueryService, for every number of    *)
(* requests and keys and every limit and time; then about RateLimits and   *)
(* QueryParams, for every sequence of requests and every parameter.        *)
(***************************************************************************)
EXTENDS MCService, FiniteSetTheorems, SequenceTheorems, WellFoundedInduction, TLAPS

-----------------------------------------------------------------------------
(* The state machine.  How old an answer can be follows from how long its  *)
(* request has been under way: what a request read itself is no older than *)
(* the request; what it found in the cache was written there by a request  *)
(* that lasted no longer than QueryTime, and has lost for every tick since *)
(* a tick of the time it has left.                                         *)

\* A request that has not come to an answer of the school has none.
Unanswered == {"idle", "checks", "lookup", "login", "query"}

\* What a request is going to answer, and what it is going to write.
AgeOfAnswer(c) ==
  /\ at[c] \in Unanswered => ~got[c].data
  /\ at[c] \in {"offer", "write"} => got[c].data /\ got[c].age <= spent[c]
  /\ got[c].data => got[c].age < spent[c] + KeptFor(got[c].ok) + QueryTime
\* What the cache has.
AgeOfEntry(e) ==
  /\ e.left <= KeptFor(e.ok)
  /\ Fresh(e) => e.age + e.left <= KeptFor(e.ok) + QueryTime

\* A set of numbers has a least one.
LEMMA LeastOf ==
  ASSUME NEW S \in SUBSET Nat, S # {}
  PROVE  \E m \in S : \A k \in S : m <= k
  <1>1. PICK m \in S : \A k \in S : <<k, m>> \notin OpToRel(<, Nat)
    BY NatLessThanWellFounded, WFMin, Zenon
  <1>2. \A k \in S : ~(k < m)
    BY <1>1 DEF OpToRel
  <1> QED
    BY <1>2

\* What holds at 0 and is passed on from n to n + 1 holds for every number.
LEMMA NoFirstFailure ==
  ASSUME NEW T, 0 \in T, \A n \in Nat : n \in T => n + 1 \in T
  PROVE  Nat \subseteq T
  <1> SUFFICES ASSUME Nat \ T # {} PROVE FALSE
    OBVIOUS
  <1>1. PICK m \in Nat \ T : \A k \in Nat \ T : m <= k
    <2>1. Nat \ T \in SUBSET Nat
      OBVIOUS
    <2> QED
      BY <2>1, LeastOf
  <1>2. m # 0 /\ m - 1 \in Nat /\ ~(m <= m - 1)
    BY <1>1
  <1>3. m - 1 \in T
    BY <1>1, <1>2
  <1>4. (m - 1) + 1 \in T /\ (m - 1) + 1 = m
    BY <1>1, <1>2, <1>3
  <1> QED
    BY <1>1, <1>4

\* The function that Kept defines exists: up to 0, and up to n + 1 if up to n.
KeptFrom(s, stay, f, end) ==
  f = [i \in 0..end |->
         IF i = 0 THEN <<>>
         ELSE IF s[i] \in stay THEN Append(f[i - 1], s[i]) ELSE f[i - 1]]

LEMMA KeptDefined ==
  ASSUME NEW s, NEW stay, NEW end \in Nat
  PROVE  \E f : KeptFrom(s, stay, f, end)
  <1> DEFINE T == {n \in Nat : \E f : KeptFrom(s, stay, f, n)}
             g(f, i) == IF s[i] \in stay THEN Append(f[i - 1], s[i]) ELSE f[i - 1]
  <1>1. 0 \in T
    <2>1. KeptFrom(s, stay, [i \in 0..0 |-> <<>>], 0)
      BY DEF KeptFrom
    <2> QED
      BY <2>1
  <1>2. ASSUME NEW n \in Nat, n \in T PROVE n + 1 \in T
    <2>1. PICK f : KeptFrom(s, stay, f, n)
      BY <1>2
    <2> DEFINE h == [i \in 0..n + 1 |-> IF i = n + 1 THEN g(f, n + 1) ELSE f[i]]
    <2>2. \A i \in 0..n : f[i] = IF i = 0 THEN <<>> ELSE g(f, i)
      BY <2>1 DEF KeptFrom
    <2>3. \A i \in 0..n + 1 : i # 0 => i - 1 \in 0..n /\ h[i - 1] = f[i - 1]
      OBVIOUS
    <2>4. \A i \in 0..n + 1 : i # 0 => g(h, i) = g(f, i)
      BY <2>3
    <2>5. \A i \in 0..n + 1 : h[i] = IF i = 0 THEN <<>> ELSE g(h, i)
      BY <2>2, <2>4
    <2>6. h = [i \in 0..n + 1 |-> h[i]]
      OBVIOUS
    <2> HIDE DEF h
    <2>7. KeptFrom(s, stay, h, n + 1)
      BY <2>5, <2>6 DEF KeptFrom
    <2> QED
      BY <2>7
  <1> HIDE DEF T
  <1>3. Nat \subseteq T
    BY <1>1, <1>2, NoFirstFailure
  <1> QED
    BY <1>3 DEF T

\* No two entries have a key, and none is older than it may be.
OneEach(s)  == \A i, j \in 1..Len(s) : s[i].key = s[j].key => i = j
Entries(s)  == s \in Seq(Entry) /\ OneEach(s) /\ \A i \in 1..Len(s) : AgeOfEntry(s[i])
\* r has entries of the first n of s that stay.
PartOf(r, s, n, stay) ==
  /\ Entries(r) /\ Len(r) <= n
  /\ \A i \in 1..Len(r) : r[i] \in stay /\ \E j \in 1..n : r[i] = s[j]

LEMMA KeptIsPart ==
  ASSUME NEW stay, Entries(cache)
  PROVE  PartOf(Kept(stay), cache, Len(cache), stay)
  <1> DEFINE end == Len(cache)
             f == CHOOSE f : KeptFrom(cache, stay, f, end)
             T == {n \in Nat : n <= end => PartOf(f[n], cache, n, stay)}
  <1>0. end \in Nat
    BY DEF Entries
  <1>1. KeptFrom(cache, stay, f, end)
    BY <1>0, KeptDefined
  <1>2. Kept(stay) = f[end]
    BY DEF Kept, KeptFrom
  <1> HIDE DEF f
  <1>3. 0 \in T
    <2>1. f[0] = <<>>
      BY <1>0, <1>1 DEF KeptFrom
    <2>2. <<>> \in Seq(Entry) /\ Len(<<>>) = 0
      OBVIOUS
    <2>3. PartOf(<<>>, cache, 0, stay)
      BY <2>2 DEF PartOf, Entries, OneEach
    <2> QED
      BY <2>1, <2>3
  <1>4. ASSUME NEW n \in Nat, n \in T PROVE n + 1 \in T
    <2> SUFFICES ASSUME n + 1 <= end PROVE PartOf(f[n + 1], cache, n + 1, stay)
      OBVIOUS
    <2>1. PartOf(f[n], cache, n, stay) /\ n + 1 \in 1..end
      BY <1>0, <1>4
    <2> DEFINE x == cache[n + 1]
    <2>2. f[n + 1] = IF x \in stay THEN Append(f[n], x) ELSE f[n]
      <3>1. n + 1 \in 0..end /\ n + 1 # 0 /\ (n + 1) - 1 = n
        BY <2>1
      <3> QED
        BY <1>1, <3>1, Zenon DEF KeptFrom
    <2>3. x \in Entry /\ AgeOfEntry(x)
      BY <2>1 DEF Entries
    <2>4. CASE x \notin stay
      BY <2>1, <2>2, <2>4 DEF PartOf, Entries
    <2>5. CASE x \in stay
      <3> DEFINE r == f[n]
                 t == Append(r, x)
      <3>1. r \in Seq(Entry) /\ Len(r) \in Nat /\ Len(r) <= n
        BY <2>1 DEF PartOf, Entries
      <3>2. t \in Seq(Entry) /\ Len(t) = Len(r) + 1 /\ t[Len(r) + 1] = x
            /\ \A i \in 1..Len(r) : t[i] = r[i]
        BY <2>3, <3>1
      <3>3. \A i \in 1..Len(r) : r[i].key # x.key
        <4> SUFFICES ASSUME NEW i \in 1..Len(r) PROVE r[i].key # x.key
          OBVIOUS
        <4>1. PICK j \in 1..n : r[i] = cache[j]
          BY <2>1 DEF PartOf
        <4>2. j \in 1..end /\ j # n + 1
          BY <1>0, <2>1, <4>1
        <4> QED
          BY <2>1, <4>1, <4>2 DEF Entries, OneEach
      <3> HIDE DEF t, r, x, end
      <3>4. \A i \in 1..Len(t) : i = Len(r) + 1 \/ i \in 1..Len(r)
        BY <3>1, <3>2
      <3>5. OneEach(r) /\ \A i \in 1..Len(r) : AgeOfEntry(r[i])
        BY <2>1 DEF PartOf, Entries, r
      <3>6. OneEach(t)
        BY <3>2, <3>3, <3>4, <3>5 DEF OneEach
      <3>7. Entries(t)
        BY <2>3, <3>2, <3>4, <3>5, <3>6 DEF Entries
      <3>8. \A i \in 1..Len(r) : r[i] \in stay /\ \E j \in 1..n : r[i] = cache[j]
        BY <2>1 DEF PartOf, r
      <3>9. \A i \in 1..Len(t) : t[i] \in stay /\ \E j \in 1..n + 1 : t[i] = cache[j]
        BY <2>5, <3>2, <3>4, <3>8 DEF x
      <3>10. PartOf(t, cache, n + 1, stay)
        BY <3>1, <3>2, <3>7, <3>9 DEF PartOf
      <3> QED
        BY <2>2, <2>5, <3>10 DEF t, r, x
    <2> QED
      BY <2>4, <2>5
  <1> HIDE DEF T
  <1>5. end \in T
    BY <1>0, <1>3, <1>4, NoFirstFailure
  <1> QED
    BY <1>2, <1>5 DEF T

LEMMA RoomIsPart ==
  ASSUME Entries(cache), Len(cache) <= MaxItems
  PROVE  Entries(Room) /\ Len(Room) \in Nat /\ Len(Room) < MaxItems
  <1> DEFINE fresh == Kept(FreshOnes)
  <1>0. MaxItems \in Nat \ {0} /\ Len(cache) \in Nat
    BY BoundsAssumption DEF Entries
  <1>1. Entries(fresh) /\ Len(fresh) <= Len(cache)
    BY KeptIsPart DEF PartOf
  <1> HIDE DEF fresh
  <1>2. Len(fresh) \in Nat /\ fresh \in Seq(Entry)
    BY <1>1 DEF Entries
  <1>3. CASE Len(cache) < MaxItems
    BY <1>0, <1>3 DEF Room
  <1>4. CASE ~(Len(cache) < MaxItems) /\ Len(fresh) < MaxItems
    BY <1>1, <1>2, <1>4 DEF Room, fresh
  <1>5. CASE ~(Len(cache) < MaxItems) /\ ~(Len(fresh) < MaxItems)
    <2> DEFINE t == Tail(fresh)
    <2>1. Room = t
      BY <1>5 DEF Room, fresh
    <2>2. fresh # <<>>
      BY <1>0, <1>2, <1>5
    <2>3. t \in Seq(Entry) /\ Len(t) = Len(fresh) - 1 /\ \A i \in 1..Len(t) : t[i] = fresh[i + 1]
      BY <1>2, <2>2
    <2> HIDE DEF t
    <2>4. \A i \in 1..Len(t) : i + 1 \in 1..Len(fresh)
      BY <1>2, <2>3
    <2>5. OneEach(t)
      <3> SUFFICES ASSUME NEW i \in 1..Len(t), NEW j \in 1..Len(t), t[i].key = t[j].key PROVE i = j
        BY DEF OneEach
      <3>1. fresh[i + 1].key = fresh[j + 1].key /\ i + 1 \in 1..Len(fresh) /\ j + 1 \in 1..Len(fresh)
        BY <2>3, <2>4
      <3>2. i + 1 = j + 1
        BY <1>1, <3>1 DEF Entries, OneEach
      <3> QED
        BY <3>2
    <2>6. \A i \in 1..Len(t) : AgeOfEntry(t[i])
      BY <1>1, <2>3, <2>4 DEF Entries
    <2>7. Len(t) \in Nat /\ Len(t) < MaxItems
      BY <1>0, <1>1, <1>2, <1>5, <2>2, <2>3
    <2> QED
      BY <2>1, <2>3, <2>5, <2>6, <2>7 DEF Entries
  <1> QED
    BY <1>3, <1>4, <1>5

LEMMA PutKeeps ==
  ASSUME NEW k \in Keys, NEW a \in Answer, a.age <= QueryTime, Entries(cache), Len(cache) <= MaxItems
  PROVE  Entries(Put(k, a)) /\ Len(Put(k, a)) <= MaxItems
  <1> DEFINE r == Room
             e == EntryOf(k, a)
  <1>0. MaxItems \in Nat /\ KeptFor(a.ok) \in Nat /\ QueryTime \in Nat
    BY BoundsAssumption DEF KeptFor
  <1>1. Entries(r) /\ r \in Seq(Entry) /\ Len(r) \in Nat /\ Len(r) < MaxItems
    BY RoomIsPart DEF Entries
  <1>2. e \in Entry /\ AgeOfEntry(e) /\ e.key = k
    BY <1>0 DEF EntryOf, Entry, Answer, AgeOfEntry
  <1> HIDE DEF r, e
  <1>3. CASE \E i \in 1..Len(r) : r[i].key = k
    <2> DEFINE t == [i \in 1..Len(r) |-> IF r[i].key = k THEN e ELSE r[i]]
    <2>1. Put(k, a) = t
      BY <1>3 DEF Put, r, e
    <2>2. \A i \in 1..Len(r) : t[i] \in Entry /\ t[i].key = r[i].key /\ AgeOfEntry(t[i])
      BY <1>1, <1>2 DEF Entries
    <2>3. t \in Seq(Entry) /\ Len(t) = Len(r)
      BY <1>1, <2>2
    <2> HIDE DEF t
    <2>4. Entries(t)
      BY <1>1, <2>2, <2>3 DEF Entries, OneEach
    <2> QED
      BY <1>0, <1>1, <2>1, <2>3, <2>4
  <1>4. CASE ~\E i \in 1..Len(r) : r[i].key = k
    <2> DEFINE t == Append(r, e)
    <2>1. Put(k, a) = t
      BY <1>4 DEF Put, r, e
    <2>2. /\ t \in Seq(Entry) /\ Len(t) = Len(r) + 1 /\ t[Len(r) + 1] = e
          /\ \A i \in 1..Len(r) : t[i] = r[i]
      BY <1>1, <1>2
    <2> HIDE DEF t
    <2>3. \A i \in 1..Len(t) : i = Len(r) + 1 \/ i \in 1..Len(r)
      BY <1>1, <2>2
    <2>4. \A i \in 1..Len(t) : AgeOfEntry(t[i])
      BY <1>1, <1>2, <2>2, <2>3 DEF Entries
    <2>5. OneEach(t)
      BY <1>1, <1>2, <1>4, <2>2, <2>3 DEF Entries, OneEach
    <2> QED
      BY <1>0, <1>1, <2>1, <2>2, <2>4, <2>5 DEF Entries
  <1> QED
    BY <1>3, <1>4

-----------------------------------------------------------------------------

\* The parts of the invariant.
CallsOk ==
  /\ at \in [Calls -> Inside \cup {"idle"}] /\ key \in [Calls -> Keys]
  /\ spent \in [Calls -> 0..QueryTime] /\ got \in [Calls -> Answer]
  /\ \A c \in Calls : AgeOfAnswer(c)
CacheOk == Entries(cache) /\ Len(cache) <= MaxItems
Admitted  == {c \in Calls : at[c] \in Inside}
Counts == active = Cardinality(Admitted) /\ active <= Limit
PoolOk  == running \in 0..Workers /\ queued \in 0..Queue

ServiceInv == CallsOk /\ CacheOk /\ Counts /\ PoolOk

\* A step of a request changes where it is, how long it has lasted and its answer only.
OthersKept(c) ==
  \A d \in Calls \ {c} : at'[d] = at[d] /\ spent'[d] = spent[d] /\ got'[d] = got[d]
LEMMA CallStep ==
  ASSUME CallsOk, NEW c \in Calls, OthersKept(c), AgeOfAnswer(c)',
         at' \in [Calls -> Inside \cup {"idle"}], key' \in [Calls -> Keys],
         spent' \in [Calls -> 0..QueryTime], got' \in [Calls -> Answer]
  PROVE  CallsOk'
  BY DEF CallsOk, OthersKept, AgeOfAnswer

\* A step inside leaves the number of those inside.
LEMMA StaysWithin ==
  ASSUME CallsOk, Counts, NEW c \in Calls, at[c] \in Inside, NEW p \in Inside,
         at' = [at EXCEPT ![c] = p], active' = active
  PROVE  Counts'
  <1>1. Admitted' = Admitted
    BY DEF Admitted, CallsOk
  <1> QED
    BY <1>1 DEF Counts

LEMMA EnterStep ==
  ASSUME ServiceInv, NEW c \in Calls, Enter(c)
  PROVE  ServiceInv'
  <1>0. CallsOk /\ CacheOk /\ Counts /\ PoolOk
    BY DEF ServiceInv
  <1>1. Admitted' = Admitted \cup {c} /\ c \notin Admitted /\ IsFiniteSet(Admitted)
    <2>1. IsFiniteSet(Admitted)
      BY BoundsAssumption, FS_Subset DEF Admitted
    <2> QED
      BY <1>0, <2>1 DEF Admitted, CallsOk, Enter, Goes, Inside
  <1>2. Cardinality(Admitted \cup {c}) = Cardinality(Admitted) + 1
    BY <1>1, FS_AddElement
  <1>3. Counts'
    <2>1. active' = Cardinality(Admitted') /\ active < Limit /\ active' = active + 1
      BY <1>0, <1>1, <1>2 DEF Counts, Enter
    <2>2. active \in Nat /\ Limit \in Nat
      BY <1>0, <1>1, FS_CardinalityType, BoundsAssumption DEF Counts
    <2> QED
      BY <2>1, <2>2 DEF Counts
  <1>4. OthersKept(c) /\ AgeOfAnswer(c)'
    BY <1>0 DEF Enter, Goes, OthersKept, CallsOk, AgeOfAnswer, Unanswered, Answer
  <1>5. CallsOk'
    <2>1. /\ at' \in [Calls -> Inside \cup {"idle"}] /\ key' \in [Calls -> Keys]
          /\ spent' \in [Calls -> 0..QueryTime] /\ got' \in [Calls -> Answer]
      BY <1>0, BoundsAssumption DEF Enter, Goes, CallsOk, Inside
    <2> QED
      BY <1>0, <1>4, <2>1, CallStep
  <1>6. CacheOk' /\ PoolOk'
    BY <1>0 DEF Enter, CacheOk, PoolOk, poolVars, Entries, OneEach, AgeOfEntry
  <1> QED
    BY <1>3, <1>5, <1>6 DEF ServiceInv

\* The steps between the checks and the reply move the request and give it an answer that is not
\* too old; what they do to the cache and the pool is left to each.
Passes(c) ==
  /\ at[c] \in Inside /\ \E p \in Inside : at' = [at EXCEPT ![c] = p]
  /\ got' \in [Calls -> Answer] /\ (\A d \in Calls \ {c} : got'[d] = got[d])
  /\ UNCHANGED <<active, key, spent>>
LEMMA PassesStep ==
  ASSUME ServiceInv, NEW c \in Calls, Passes(c), AgeOfAnswer(c)', CacheOk', PoolOk'
  PROVE  ServiceInv'
  <1>0. CallsOk /\ Counts
    BY DEF ServiceInv
  <1>1. PICK p \in Inside : at' = [at EXCEPT ![c] = p]
    BY DEF Passes
  <1>2. Counts'
    BY <1>0, <1>1, StaysWithin DEF Passes
  <1>3. CallsOk'
    BY <1>0, <1>1, CallStep DEF Passes, OthersKept, CallsOk
  <1> QED
    BY <1>2, <1>3 DEF ServiceInv

LEMMA ChecksStep ==
  ASSUME ServiceInv, NEW c \in Calls, Checks(c) \/ Login(c)
  PROVE  ServiceInv'
  <1>0. CallsOk /\ CacheOk /\ PoolOk
    BY DEF ServiceInv
  <1>1. Passes(c) /\ AgeOfAnswer(c)'
    <2>1. Error \in Answer /\ ~Error.data /\ got[c] \in Answer
      BY <1>0 DEF Error, Answer, CallsOk
    <2> QED
      BY <1>0, <2>1 DEF Checks, Login, Passes, Goes, Answers, Inside, CallsOk, AgeOfAnswer, Unanswered
  <1>2. CacheOk' /\ PoolOk'
    BY <1>0 DEF Checks, Login, CacheOk, PoolOk, poolVars, Entries, OneEach, AgeOfEntry
  <1> QED
    BY <1>1, <1>2, PassesStep

LEMMA QueryStep ==
  ASSUME ServiceInv, NEW c \in Calls, Query(c)
  PROVE  ServiceInv'
  <1>0. CallsOk /\ CacheOk /\ PoolOk /\ spent[c] \in Nat /\ at[c] = "query" /\ at[c] \in Inside
    BY BoundsAssumption DEF ServiceInv, CallsOk, Query, Goes, Inside
  <1>1. Passes(c) /\ AgeOfAnswer(c)'
    <2>1. CASE Goes(c, "query", "reply") /\ Answers(c, Error)
      <3>1. Error \in Answer /\ ~Error.data
        BY DEF Error, Answer
      <3> QED
        BY <1>0, <2>1, <3>1 DEF Query, Passes, Goes, Answers, Inside, CallsOk, AgeOfAnswer, Unanswered
    <2>2. ASSUME NEW ok \in BOOLEAN, Goes(c, "query", IF ok THEN "offer" ELSE "write"), Answers(c, Read(ok))
          PROVE  Passes(c) /\ AgeOfAnswer(c)'
      <3>1. /\ Read(ok) \in Answer /\ Read(ok).data /\ Read(ok).age = 0 /\ Read(ok).ok = ok
        BY DEF Read, Answer
      <3>2. KeptFor(ok) \in Nat \ {0} /\ QueryTime \in Nat
        BY BoundsAssumption DEF KeptFor
      <3>3. got'[c] = Read(ok) /\ spent'[c] = spent[c] /\ at'[c] \in {"offer", "write"}
        BY <1>0, <2>2 DEF Goes, Answers, CallsOk, Query
      <3>4. AgeOfAnswer(c)'
        BY <1>0, <3>1, <3>2, <3>3 DEF AgeOfAnswer, Unanswered, KeptFor
      <3>5. Passes(c)
        BY <1>0, <2>2, <3>1 DEF Query, Passes, Goes, Answers, Inside, CallsOk
      <3> QED
        BY <3>4, <3>5
    <2> QED
      BY <2>1, <2>2 DEF Query
  <1>2. CacheOk' /\ PoolOk'
    BY <1>0 DEF Query, CacheOk, PoolOk, poolVars, Entries, OneEach, AgeOfEntry
  <1> QED
    BY <1>1, <1>2, PassesStep

LEMMA LookupStep ==
  ASSUME ServiceInv, NEW c \in Calls, Lookup(c)
  PROVE  ServiceInv'
  <1>0. CallsOk /\ CacheOk /\ PoolOk /\ spent[c] \in Nat /\ at[c] = "lookup" /\ at[c] \in Inside
    <2>1. at[c] = "lookup"
      BY DEF Lookup, Goes
    <2> QED
      BY <2>1, BoundsAssumption DEF ServiceInv, CallsOk, Inside
  <1>1. CASE \E e \in Hits(key[c]) :
               /\ Goes(c, "lookup", IF e.ok THEN "link" ELSE "reply")
               /\ Answers(c, [data |-> TRUE, ok |-> e.ok, age |-> e.age]) /\ UNCHANGED cache
    <2>1. PICK e \in Hits(key[c]) :
               /\ Goes(c, "lookup", IF e.ok THEN "link" ELSE "reply")
               /\ Answers(c, [data |-> TRUE, ok |-> e.ok, age |-> e.age]) /\ UNCHANGED cache
      BY <1>1
    <2> DEFINE a == [data |-> TRUE, ok |-> e.ok, age |-> e.age]
    <2>2. e \in Entry /\ AgeOfEntry(e) /\ Fresh(e)
      <3>1. cache \in Seq(Entry) /\ \A i \in 1..Len(cache) : AgeOfEntry(cache[i])
        BY <1>0 DEF CacheOk, Entries
      <3>2. PICK i \in 1..Len(cache) : e = cache[i]
        BY <3>1 DEF Hits, FreshOnes, ToSet
      <3> QED
        BY <3>1, <3>2 DEF Hits, FreshOnes
    <2>3. a \in Answer /\ a.data /\ a.age = e.age /\ a.ok = e.ok
      BY <2>2 DEF Answer, Entry
    <2>4. e.age < KeptFor(e.ok) + QueryTime
      BY <2>2, BoundsAssumption DEF AgeOfEntry, Fresh, Entry, KeptFor
    <2>5. got'[c] = a /\ spent'[c] = spent[c] /\ at'[c] \in {"link", "reply"}
      BY <1>0, <2>1 DEF Goes, Answers, CallsOk, Lookup
    <2>6. AgeOfAnswer(c)'
      BY <1>0, <2>2, <2>3, <2>4, <2>5, BoundsAssumption DEF AgeOfAnswer, Unanswered, KeptFor, Entry
    <2>7. Passes(c)
      <3>1. got' \in [Calls -> Answer] /\ \A d \in Calls \ {c} : got'[d] = got[d]
        BY <1>0, <2>1, <2>3 DEF Answers, CallsOk
      <3>2. \E p \in Inside : at' = [at EXCEPT ![c] = p]
        BY <2>1 DEF Goes, Inside
      <3> QED
        BY <1>0, <3>1, <3>2 DEF Passes, Lookup
    <2>8. CacheOk' /\ PoolOk'
      BY <1>0, <2>1 DEF Lookup, CacheOk, PoolOk, poolVars, Entries, OneEach, AgeOfEntry
    <2> QED
      BY <2>6, <2>7, <2>8, PassesStep
  <1>2. CASE /\ Goes(c, "lookup", "query") \/ Goes(c, "lookup", "login")
             /\ \/ Hits(key[c]) = {} /\ cache' = Kept({e \in ToSet(cache) : e.key # key[c]})
                \/ UNCHANGED cache
             /\ UNCHANGED got
    <2>1. Passes(c) /\ AgeOfAnswer(c)'
      BY <1>0, <1>2 DEF Lookup, Passes, Goes, Inside, CallsOk, AgeOfAnswer, Unanswered
    <2>2. CacheOk'
      <3>1. CASE UNCHANGED cache
        BY <1>0, <3>1 DEF CacheOk, Entries, OneEach, AgeOfEntry
      <3>2. CASE cache' = Kept({e \in ToSet(cache) : e.key # key[c]})
        <4>1. Entries(cache') /\ Len(cache') <= Len(cache) /\ Len(cache) \in Nat
          BY <1>0, <3>2, KeptIsPart DEF CacheOk, PartOf, Entries
        <4>2. Len(cache') \in Nat /\ MaxItems \in Nat
          BY <4>1, BoundsAssumption DEF Entries
        <4> QED
          BY <1>0, <4>1, <4>2 DEF CacheOk
      <3> QED
        BY <1>2, <3>1, <3>2
    <2>3. PoolOk'
      BY <1>0 DEF Lookup, PoolOk, poolVars
    <2> QED
      BY <2>1, <2>2, <2>3, PassesStep
  <1> QED
    BY <1>1, <1>2 DEF Lookup

LEMMA OfferStep ==
  ASSUME ServiceInv, NEW c \in Calls, Offer(c)
  PROVE  ServiceInv'
  <1>0. CallsOk /\ CacheOk /\ PoolOk /\ at[c] \in {"offer", "link"} /\ at[c] \in Inside
    BY DEF ServiceInv, Offer, Goes, Inside
  <1>1. Passes(c) /\ AgeOfAnswer(c)'
    BY <1>0 DEF Offer, Passes, Goes, Inside, CallsOk, AgeOfAnswer, Unanswered
  <1>2. CacheOk'
    BY <1>0 DEF Offer, CacheOk, Entries, OneEach, AgeOfEntry
  <1>3. PoolOk'
    BY <1>0, BoundsAssumption DEF Offer, PoolOk, poolVars
  <1> QED
    BY <1>1, <1>2, <1>3, PassesStep

LEMMA WriteStep ==
  ASSUME ServiceInv, NEW c \in Calls, Write(c)
  PROVE  ServiceInv'
  <1>0. CallsOk /\ CacheOk /\ PoolOk /\ at[c] = "write" /\ at[c] \in Inside
    BY DEF ServiceInv, Write, Goes, Inside
  <1>1. Passes(c) /\ AgeOfAnswer(c)'
    BY <1>0 DEF Write, Passes, Goes, Inside, CallsOk, AgeOfAnswer, Unanswered
  <1>2. CacheOk'
    <2>1. CASE UNCHANGED cache
      BY <1>0, <2>1 DEF CacheOk, Entries, OneEach, AgeOfEntry
    <2>2. CASE cache' = Put(key[c], got[c])
      <3>1. key[c] \in Keys /\ got[c] \in Answer /\ spent[c] \in 0..QueryTime /\ got[c].age <= spent[c]
        BY <1>0 DEF CallsOk, AgeOfAnswer
      <3>2. got[c].age <= QueryTime
        BY <3>1, BoundsAssumption DEF Answer
      <3>3. Entries(Put(key[c], got[c])) /\ Len(Put(key[c], got[c])) <= MaxItems
        BY <1>0, <3>1, <3>2, PutKeeps DEF CacheOk
      <3> QED
        BY <2>2, <3>3 DEF CacheOk
    <2> QED
      BY <2>1, <2>2 DEF Write
  <1>3. PoolOk'
    BY <1>0 DEF Write, PoolOk, poolVars
  <1> QED
    BY <1>1, <1>2, <1>3, PassesStep

LEMMA ReplyStep ==
  ASSUME ServiceInv, NEW c \in Calls, Reply(c)
  PROVE  ServiceInv'
  <1>0. CallsOk /\ CacheOk /\ Counts /\ PoolOk
    BY DEF ServiceInv
  <1>1. Admitted' = Admitted \ {c} /\ c \in Admitted /\ IsFiniteSet(Admitted)
    <2>1. IsFiniteSet(Admitted)
      BY BoundsAssumption, FS_Subset DEF Admitted
    <2> QED
      BY <1>0, <2>1 DEF Admitted, CallsOk, Reply, Goes, Inside
  <1>2. Cardinality(Admitted \ {c}) = Cardinality(Admitted) - 1
    BY <1>1, FS_RemoveElement
  <1>3. Counts'
    <2>1. active' = Cardinality(Admitted')
      BY <1>0, <1>1, <1>2 DEF Counts, Reply, Released
    <2>2. active \in Nat /\ Limit \in Nat
      BY <1>0, <1>1, FS_CardinalityType, BoundsAssumption DEF Counts
    <2> QED
      BY <1>0, <2>1, <2>2 DEF Counts, Reply, Released
  <1>4. Error \in Answer /\ ~Error.data /\ QueryTime \in Nat
    BY BoundsAssumption DEF Error, Answer
  <1>5. OthersKept(c) /\ AgeOfAnswer(c)'
    BY <1>0, <1>4 DEF Reply, Goes, Answers, OthersKept, CallsOk, AgeOfAnswer, Unanswered
  <1>6. CallsOk'
    <2>1. /\ at' \in [Calls -> Inside \cup {"idle"}] /\ key' \in [Calls -> Keys]
          /\ spent' \in [Calls -> 0..QueryTime] /\ got' \in [Calls -> Answer]
      BY <1>0, <1>4 DEF Reply, Goes, Answers, CallsOk, Inside
    <2> QED
      BY <1>0, <1>5, <2>1, CallStep
  <1>7. CacheOk' /\ PoolOk'
    BY <1>0 DEF Reply, CacheOk, PoolOk, poolVars, Entries, OneEach, AgeOfEntry
  <1> QED
    BY <1>3, <1>6, <1>7 DEF ServiceInv

LEMMA PoolStep ==
  ASSUME ServiceInv, Sweep \/ TaskStarts \/ TaskEnds
  PROVE  ServiceInv'
  <1>0. CallsOk /\ CacheOk /\ Counts /\ PoolOk
    BY DEF ServiceInv
  <1>1. CallsOk' /\ Counts'
    BY <1>0 DEF Sweep, TaskStarts, TaskEnds, callVars, CallsOk, Counts, Admitted, AgeOfAnswer
  <1>2. PoolOk'
    BY <1>0, BoundsAssumption DEF Sweep, TaskStarts, TaskEnds, poolVars, PoolOk
  <1>3. CacheOk'
    <2>1. CASE UNCHANGED cache
      BY <1>0, <2>1 DEF CacheOk, Entries, OneEach, AgeOfEntry
    <2>2. CASE cache' = Kept(FreshOnes)
      <3>1. Entries(cache') /\ Len(cache') <= Len(cache) /\ Len(cache) \in Nat
        BY <1>0, <2>2, KeptIsPart DEF CacheOk, PartOf, Entries
      <3>2. Len(cache') \in Nat /\ MaxItems \in Nat
        BY <3>1, BoundsAssumption DEF Entries
      <3> QED
        BY <1>0, <3>1, <3>2 DEF CacheOk
    <2> QED
      BY <2>1, <2>2 DEF Sweep, TaskStarts, TaskEnds
  <1> QED
    BY <1>1, <1>2, <1>3 DEF ServiceInv

LEMMA OlderByOne ==
  ASSUME NEW n \in Nat
  PROVE  Older(n) \in Nat /\ Older(n) <= n + 1
  BY BoundsAssumption DEF Older

LEMMA TickStep ==
  ASSUME ServiceInv, Tick
  PROVE  ServiceInv'
  <1>0. CallsOk /\ CacheOk /\ Counts /\ PoolOk
    BY DEF ServiceInv
  <1>1. Counts' /\ PoolOk'
    BY <1>0 DEF Tick, Counts, Admitted, PoolOk, poolVars
  <1>2. ASSUME NEW c \in Calls
        PROVE  spent'[c] \in 0..QueryTime /\ got'[c] \in Answer /\ AgeOfAnswer(c)'
    <2>0. /\ at[c] \in Inside \cup {"idle"} /\ spent[c] \in 0..QueryTime /\ got[c] \in Answer
          /\ AgeOfAnswer(c) /\ at'[c] = at[c] /\ QueryTime \in Nat /\ got[c].age \in Nat
          /\ KeptFor(got[c].ok) \in Nat
      BY <1>0, BoundsAssumption DEF Tick, CallsOk, Answer, KeptFor
    <2>1. spent'[c] = (IF at[c] = "idle" THEN 0 ELSE spent[c] + 1)
          /\ (at[c] # "idle" => spent[c] < QueryTime)
      BY DEF Tick
    <2>2. spent'[c] \in 0..QueryTime
      BY <2>0, <2>1
    <2>3. CASE ~got[c].data
      <3>1. got'[c] = got[c]
        BY <2>3 DEF Tick
      <3> QED
        BY <2>0, <2>2, <2>3, <3>1 DEF AgeOfAnswer
    <2>4. CASE got[c].data
      <3> DEFINE n == Older(got[c].age)
      <3>1. got'[c] = [got[c] EXCEPT !.age = n]
        BY <2>4 DEF Tick
      <3>2. n \in Nat /\ n <= got[c].age + 1
        BY <2>0, OlderByOne
      <3> HIDE DEF n
      <3>3. got'[c] \in Answer /\ got'[c].data /\ got'[c].ok = got[c].ok /\ got'[c].age = n
        BY <2>0, <2>4, <3>1, <3>2 DEF Answer
      <3>4. at[c] \notin Unanswered /\ spent'[c] = spent[c] + 1
        BY <2>0, <2>1, <2>4 DEF AgeOfAnswer, Unanswered
      <3>5. AgeOfAnswer(c)'
        BY <2>0, <2>4, <3>2, <3>3, <3>4 DEF AgeOfAnswer
      <3> QED
        BY <2>2, <3>3, <3>5
    <2> QED
      BY <2>3, <2>4
  <1>3. CallsOk'
    BY <1>0, <1>2 DEF CallsOk, Tick
  <1>4. CacheOk'
    <2> DEFINE aged(e) == [e EXCEPT !.age = IF Fresh(e) THEN Older(@) ELSE 0,
                                    !.left = IF Fresh(e) THEN @ - 1 ELSE 0]
               t == [i \in 1..Len(cache) |-> aged(cache[i])]
    <2>0. cache' = t /\ t = [i \in 1..Len(cache) |-> t[i]]
      BY Zenon DEF Tick
    <2>1. cache \in Seq(Entry) /\ Len(cache) \in Nat
      BY <1>0 DEF CacheOk, Entries
    <2>2. ASSUME NEW i \in 1..Len(cache)
          PROVE  t[i] \in Entry /\ t[i].key = cache[i].key /\ AgeOfEntry(t[i])
      <3> DEFINE e == cache[i]
                 n == Older(e.age)
      <3>1. e \in Entry /\ AgeOfEntry(e) /\ KeptFor(e.ok) \in Nat /\ QueryTime \in Nat
        BY <1>0, BoundsAssumption DEF CacheOk, Entries, KeptFor
      <3>2. n \in Nat /\ n <= e.age + 1
        BY <3>1, OlderByOne DEF Entry
      <3>3. t[i] = [e EXCEPT !.age = IF Fresh(e) THEN n ELSE 0, !.left = IF Fresh(e) THEN e.left - 1 ELSE 0]
        BY <3>1 DEF Entry
      <3> HIDE DEF e, n, t
      <3>4. CASE Fresh(e)
        <4>1. t[i] = [key |-> e.key, ok |-> e.ok, age |-> n, left |-> e.left - 1]
          BY <3>1, <3>3, <3>4 DEF Entry
        <4> QED
          BY <3>1, <3>2, <3>4, <4>1 DEF Entry, AgeOfEntry, Fresh, e
      <3>5. CASE ~Fresh(e)
        <4>1. t[i] = [key |-> e.key, ok |-> e.ok, age |-> 0, left |-> 0]
          BY <3>1, <3>3, <3>5 DEF Entry
        <4>2. t[i] \in Entry /\ t[i].key = e.key
          BY <3>1, <4>1 DEF Entry
        <4>3. t[i].left = 0 /\ t[i].ok = e.ok
          BY <4>1
        <4> QED
          BY <3>1, <4>2, <4>3 DEF AgeOfEntry, Fresh, e
      <3> QED
        BY <3>4, <3>5
    <2> HIDE DEF t
    <2>3. t \in Seq(Entry) /\ Len(t) = Len(cache)
      BY <2>0, <2>1, <2>2
    <2>4. Entries(t)
      BY <1>0, <2>2, <2>3 DEF CacheOk, Entries, OneEach
    <2> QED
      BY <1>0, <2>0, <2>3, <2>4 DEF CacheOk
  <1> QED
    BY <1>1, <1>3, <1>4 DEF ServiceInv

LEMMA ServiceInitInv == Init => ServiceInv
  <1> SUFFICES ASSUME Init PROVE ServiceInv
    OBVIOUS
  <1>1. CallsOk
    BY BoundsAssumption DEF Init, CallsOk, AgeOfAnswer, Unanswered, Error, Answer
  <1>2. CacheOk
    <2>1. <<>> \in Seq(Entry) /\ Len(<<>>) = 0
      OBVIOUS
    <2> QED
      BY <2>1, BoundsAssumption DEF Init, CacheOk, Entries, OneEach
  <1>3. Counts
    <2>1. Admitted = {}
      BY DEF Init, Admitted, Inside
    <2> QED
      BY <2>1, FS_EmptySet, BoundsAssumption DEF Init, Counts
  <1>4. PoolOk
    BY BoundsAssumption DEF Init, PoolOk
  <1> QED
    BY <1>1, <1>2, <1>3, <1>4 DEF ServiceInv

LEMMA ServiceNextInv == ServiceInv /\ [Next]_vars => ServiceInv'
  <1> SUFFICES ASSUME ServiceInv, [Next]_vars PROVE ServiceInv'
    OBVIOUS
  <1>1. CASE UNCHANGED vars
    BY <1>1 DEF ServiceInv, vars, callVars, poolVars, CallsOk, CacheOk, Counts, PoolOk, Admitted,
                AgeOfAnswer, Entries, OneEach, AgeOfEntry
  <1>2. ASSUME NEW c \in Calls, Handle(c) PROVE ServiceInv'
    BY <1>2, EnterStep, ChecksStep, LookupStep, QueryStep, OfferStep, WriteStep, ReplyStep DEF Handle
  <1>3. CASE Sweep \/ TaskStarts \/ TaskEnds
    BY <1>3, PoolStep
  <1>4. CASE Tick
    BY <1>4, TickStep
  <1> QED
    BY <1>1, <1>2, <1>3, <1>4 DEF Next

LEMMA ServiceInvariant == Spec => []ServiceInv
  BY ServiceInitInv, ServiceNextInv, PTL DEF Spec

\* For every number of requests and keys and every limit: whatever way a request leaves the service
\* by, its permit comes back, and the cache and the pool stay within their limits
\* (concurrency_middleware, TTLCache.set, _DaemonPool.submit).
THEOREM PermitsComeBack == Spec => []TypeOK
  <1>1. ServiceInv => TypeOK
    BY DEF ServiceInv, TypeOK, CallsOk, CacheOk, Counts, PoolOk, Admitted, Entries, OneEach
  <1> QED
    BY <1>1, ServiceInvariant, PTL

\* For every time of the cache and every time a request may last: no answer shows the school as it
\* was as long ago as the time of the cache and two requests (TTLCache.get, TTLCache.set).
THEOREM AnswersAreRecent == Spec => []NoStaleAnswer
  <1>1. ServiceInv => NoStaleAnswer
    <2> SUFFICES ASSUME ServiceInv, NEW c \in Calls, got[c].data
                 PROVE  got[c].age < (IF got[c].ok THEN Ttl ELSE NegTtl) + 2 * QueryTime
      BY DEF NoStaleAnswer
    <2>1. /\ got[c].age < spent[c] + KeptFor(got[c].ok) + QueryTime
          /\ got[c].age \in Nat /\ spent[c] \in 0..QueryTime
      BY DEF ServiceInv, CallsOk, AgeOfAnswer, Answer
    <2>2. KeptFor(got[c].ok) = (IF got[c].ok THEN Ttl ELSE NegTtl)
      BY DEF KeptFor
    <2> QED
      BY <2>1, <2>2, BoundsAssumption
  <1> QED
    BY <1>1, ServiceInvariant, PTL

-----------------------------------------------------------------------------
(* The token bucket.  What a bucket lacks is bounded by how far ahead its  *)
(* clock has been (Solvent), and what it has given out by what it held and *)
(* what came in by the clocks it was filled from; at a call it let through *)
(* nothing is lacking, so the clocks count at both ends only.  All is      *)
(* reckoned at one rate, the highest of the calls, and what a lower one    *)
(* gets wrong is added up (Lag).                                           *)

\* The calls of a client in their order, each with what the clock of its replica showed and with
\* one of the two limits.
Arrival == [time : Nat, clock : Int, limit : {RateLimit, LoginLimit}]
Series(requests) ==
  /\ requests \in Seq(Arrival)
  /\ \A i \in 2..Len(requests) : requests[i - 1].time <= requests[i].time
  /\ \A i \in 1..Len(requests) :
       requests[i].time <= requests[i].clock /\ requests[i].clock <= requests[i].time + MaxSkew
\* The highest of their limits is one of the two.
Below(requests, rate) ==
  rate \in {RateLimit, LoginLimit} /\ \A i \in 1..Len(requests) : requests[i].limit <= rate

\* Parts that come in, parts that go out, and what a call of a lower limit may get wrong.
Comes(rate, ticks) == ticks * rate
Cost(n)            == n * Minute
Lag(limit, rate)   == IF limit < rate THEN MaxSkew * Gap ELSE 0

LEMMA ComesAdds ==
  ASSUME NEW rate \in Nat
  PROVE  /\ \A a \in Int : Comes(rate, a) \in Int
         /\ \A a, b \in Int : /\ Comes(rate, a + b) = Comes(rate, a) + Comes(rate, b)
                              /\ Comes(rate, a - b) = Comes(rate, a) - Comes(rate, b)
         /\ \A a, b \in Int : a <= b => Comes(rate, a) <= Comes(rate, b)
         /\ Comes(rate, 0) = 0
  <1>2. \A a, b \in Int : /\ a * rate \in Int
                          /\ (a + b) * rate = a * rate + b * rate
                          /\ (a - b) * rate = a * rate - b * rate
    OBVIOUS
  <1>3. \A a, b \in Int : a <= b => a * rate <= b * rate
    OBVIOUS
  <1> QED
    BY <1>2, <1>3 DEF Comes

LEMMA ComesOf ==
  ASSUME NEW rate \in Nat, NEW a \in Int, NEW b \in Int
  PROVE  /\ Comes(rate, a) \in Int /\ Comes(rate, b) \in Int
         /\ Comes(rate, a + b) = Comes(rate, a) + Comes(rate, b)
         /\ Comes(rate, a - b) = Comes(rate, a) - Comes(rate, b)
         /\ a <= b => Comes(rate, a) <= Comes(rate, b)
         /\ Comes(rate, 0 - a) = 0 - Comes(rate, a)
  <1>1. Comes(rate, 0 - a) = Comes(rate, 0) - Comes(rate, a) /\ Comes(rate, 0) = 0 /\ Comes(rate, a) \in Int
    <2>1. 0 \in Int
      OBVIOUS
    <2> QED
      BY <2>1, ComesAdds
  <1> QED
    BY <1>1, ComesAdds

\* Two ways of adding up the same ticks.
LEMMA ComesSums ==
  ASSUME NEW rate \in Nat, NEW a \in Int, NEW b \in Int, NEW c \in Int, NEW d \in Int, a + b = c + d
  PROVE  Comes(rate, a) + Comes(rate, b) = Comes(rate, c) + Comes(rate, d)
  <1>1. Comes(rate, a + b) = Comes(rate, a) + Comes(rate, b) /\ Comes(rate, c + d) = Comes(rate, c) + Comes(rate, d)
    BY ComesAdds
  <1> QED
    BY <1>1

LEMMA CostAdds ==
  ASSUME NEW n \in Nat
  PROVE  Cost(n) \in Nat /\ Cost(n + 1) = Cost(n) + Minute /\ Cost(0) = 0 /\ Cost(1) = Minute
  <1>1. Minute \in Nat
    BY RatesAssumption
  <1> QED
    BY <1>1 DEF Cost

\* A limit of a call and the rate all is reckoned at.
Rates(limit, rate) == {limit, rate} \subseteq {RateLimit, LoginLimit} /\ limit <= rate

LEMMA RatesAre ==
  ASSUME NEW limit, NEW rate, Rates(limit, rate)
  PROVE  /\ limit \in Nat \ {0} /\ rate \in Nat \ {0} /\ limit <= rate /\ Gap \in Nat /\ MaxSkew \in Nat
         /\ limit = rate \/ (limit < rate /\ rate - limit = Gap)
         /\ Lag(limit, rate) \in Nat
  <1>1. RateLimit \in Nat \ {0} /\ LoginLimit \in Nat \ {0} /\ MaxSkew \in Nat
    BY RatesAssumption
  <1>2. Gap \in Nat
    BY <1>1 DEF Gap
  <1>3. MaxSkew * Gap \in Nat
    BY <1>1, <1>2
  <1>4. limit = rate \/ (limit < rate /\ rate - limit = Gap)
    BY <1>1 DEF Rates, Gap
  <1> QED
    BY <1>1, <1>2, <1>3, <1>4 DEF Rates, Lag

\* Ticks no more than the skew come in at most by the lag more at the rate than at the limit.
LEMMA LagIsEnough ==
  ASSUME NEW limit, NEW rate, Rates(limit, rate), NEW y \in Int, y <= MaxSkew
  PROVE  Comes(rate, y) <= Comes(limit, y) + Lag(limit, rate)
  <1>1. /\ limit \in Nat /\ rate \in Nat /\ Gap \in Nat /\ MaxSkew \in Nat
        /\ limit = rate \/ (limit < rate /\ rate - limit = Gap)
    BY RatesAre
  <1>2. CASE limit = rate
    BY <1>1, <1>2 DEF Comes, Lag
  <1>3. CASE limit < rate /\ rate - limit = Gap
    <2>1. y * Gap <= MaxSkew * Gap
      BY <1>1
    <2>2. rate = limit + Gap
      BY <1>1, <1>3
    <2>3. y * (limit + Gap) = y * limit + y * Gap
      BY <1>1
    <2>4. y * limit \in Int /\ y * Gap \in Int /\ MaxSkew * Gap \in Int
      BY <1>1
    <2>5. y * rate <= y * limit + MaxSkew * Gap
      BY <2>1, <2>2, <2>3, <2>4
    <2> QED
      BY <1>3, <2>5 DEF Comes, Lag
  <1> QED
    BY <1>1, <1>2, <1>3

\* Ticks that go back by no more than the skew take at most by the lag more at the rate.
LEMMA LagBack ==
  ASSUME NEW limit, NEW rate, Rates(limit, rate), NEW x \in Int, 0 - x <= MaxSkew
  PROVE  Comes(limit, x) <= Comes(rate, x) + Lag(limit, rate)
  <1>0. limit \in Nat /\ rate \in Nat /\ Lag(limit, rate) \in Nat
    BY RatesAre
  <1>1. Comes(rate, 0 - x) <= Comes(limit, 0 - x) + Lag(limit, rate)
    <2>1. 0 - x \in Int
      OBVIOUS
    <2> QED
      BY <2>1, LagIsEnough
  <1>2. /\ Comes(rate, 0 - x) = 0 - Comes(rate, x) /\ Comes(limit, 0 - x) = 0 - Comes(limit, x)
        /\ Comes(rate, x) \in Int /\ Comes(limit, x) \in Int
    <2>1. limit \in Nat /\ rate \in Nat
      BY RatesAre
    <2>2. Comes(rate, 0 - x) = 0 - Comes(rate, x) /\ Comes(rate, x) \in Int
      BY <2>1, ComesOf
    <2>3. Comes(limit, 0 - x) = 0 - Comes(limit, x) /\ Comes(limit, x) \in Int
      BY <2>1, ComesOf
    <2> QED
      BY <2>2, <2>3
  <1> QED
    BY <1>0, <1>1, <1>2

LEMMA FullHoldsOne ==
  ASSUME NEW rate \in Nat \ {0}
  PROVE  Full(rate) = Comes(rate, Minute) /\ Full(rate) \in Nat /\ Minute \in Nat \ {0} /\ Minute <= Full(rate)
  <1>1. Minute \in Nat \ {0}
    BY RatesAssumption
  <1>2. Minute * rate = rate * Minute /\ rate * Minute \in Nat
    BY <1>1
  <1>3. Minute * 1 <= Minute * rate
    BY <1>1
  <1> QED
    BY <1>1, <1>2, <1>3 DEF Full, Comes

LEMMA FullGrows ==
  ASSUME NEW limit, NEW rate, Rates(limit, rate)
  PROVE  Full(limit) <= Full(rate) /\ Full(limit) \in Nat /\ Full(rate) \in Nat
  <1>1. limit \in Nat \ {0} /\ rate \in Nat \ {0} /\ limit <= rate
    BY RatesAre
  <1>2. Minute \in Nat
    BY RatesAssumption
  <1>3. limit * Minute <= rate * Minute /\ limit * Minute \in Nat /\ rate * Minute \in Nat
    BY <1>1, <1>2
  <1> QED
    BY <1>3 DEF Full

\* The function that Buckets defines exists.
BucketAfter(requests, f, i) ==
  Allow(IF i = 1 \/ requests[i].time - requests[i - 1].time >= Idle
        THEN New(requests[i].clock, requests[i].limit) ELSE f[i - 1], requests[i].clock, requests[i].limit)
BucketsFrom(requests, f, end) == f = [i \in 1..end |-> BucketAfter(requests, f, i)]

LEMMA BucketsDefined ==
  ASSUME NEW requests, NEW end \in Nat
  PROVE  \E f : BucketsFrom(requests, f, end)
  <1> DEFINE T == {n \in Nat : \E f : BucketsFrom(requests, f, n)}
  <1>1. 0 \in T
    <2>1. BucketsFrom(requests, [i \in 1..0 |-> 0], 0)
      BY DEF BucketsFrom
    <2> QED
      BY <2>1
  <1>2. ASSUME NEW n \in Nat, n \in T PROVE n + 1 \in T
    <2>1. PICK f : BucketsFrom(requests, f, n)
      BY <1>2
    <2> DEFINE h == [i \in 1..n + 1 |-> IF i = n + 1 THEN BucketAfter(requests, f, n + 1) ELSE f[i]]
    <2>2. \A i \in 1..n : f[i] = BucketAfter(requests, f, i)
      BY <2>1 DEF BucketsFrom
    <2>3. \A i \in 1..n + 1 : i # 1 => i - 1 \in 1..n /\ h[i - 1] = f[i - 1]
      OBVIOUS
    <2>4. \A i \in 1..n + 1 : h[i] = IF i = n + 1 THEN BucketAfter(requests, f, n + 1) ELSE f[i]
      OBVIOUS
    <2>5. h = [i \in 1..n + 1 |-> h[i]]
      OBVIOUS
    <2> HIDE DEF h
    <2>6. \A i \in 1..n + 1 : BucketAfter(requests, h, i) = BucketAfter(requests, f, i)
      BY <2>3 DEF BucketAfter
    <2>7. \A i \in 1..n + 1 : h[i] = BucketAfter(requests, h, i)
      BY <2>2, <2>4, <2>6
    <2>8. BucketsFrom(requests, h, n + 1)
      BY <2>5, <2>7 DEF BucketsFrom
    <2> QED
      BY <2>8
  <1> HIDE DEF T
  <1>3. Nat \subseteq T
    BY <1>1, <1>2, NoFirstFailure
  <1> QED
    BY <1>3 DEF T

LEMMA BucketsStep ==
  ASSUME NEW requests \in Seq(Arrival), NEW i \in 1..Len(requests)
  PROVE  Buckets(requests)[i] = BucketAfter(requests, Buckets(requests), i)
  <1> DEFINE end == Len(requests)
             f == CHOOSE f : BucketsFrom(requests, f, end)
  <1>1. BucketsFrom(requests, f, end)
    <2>1. end \in Nat
      OBVIOUS
    <2> QED
      BY <2>1, BucketsDefined
  <1>2. Buckets(requests) = f
    <2>1. DOMAIN requests = 1..end
      OBVIOUS
    <2> QED
      BY <2>1 DEF Buckets, BucketsFrom, BucketAfter
  <1> HIDE DEF f
  <1> QED
    BY <1>1, <1>2 DEF BucketsFrom

\* What a bucket has before a call takes its token, and after.
PartsOf(b) == b.tokens + (IF b.allowed THEN Minute ELSE 0)
Gives(b, now, limit, n) ==
  LET full == b.tokens + Comes(limit, now - b.last)
  IN  /\ n.tokens \in Int /\ n.last = now /\ PartsOf(n) \in Int
      /\ PartsOf(n) <= Full(limit) /\ PartsOf(n) <= full
      /\ PartsOf(n) = Full(limit) \/ PartsOf(n) = full
      /\ n.allowed => PartsOf(n) >= Minute /\ n.tokens = PartsOf(n) - Minute
      /\ ~n.allowed => PartsOf(n) < Minute /\ n.tokens = PartsOf(n)

LEMMA AllowGives ==
  ASSUME NEW b, b.tokens \in Int, b.last \in Int, NEW now \in Int, NEW limit \in Nat \ {0}
  PROVE  Gives(b, now, limit, Allow(b, now, limit))
  <1> DEFINE x == b.tokens + Comes(limit, now - b.last)
             full == Full(limit)
  <1>1. x \in Int /\ full \in Int /\ Minute \in Nat
    <2>1. now - b.last \in Int
      OBVIOUS
    <2>2. Comes(limit, now - b.last) \in Int
      BY <2>1, ComesAdds
    <2> QED
      BY <2>2, FullHoldsOne
  <1>2. Filled(b, now, limit) = AtMost(x, full)
    BY DEF Filled, Comes
  <1> HIDE DEF x, full
  <1>3. /\ Filled(b, now, limit) \in Int /\ Filled(b, now, limit) <= full /\ Filled(b, now, limit) <= x
        /\ Filled(b, now, limit) = full \/ Filled(b, now, limit) = x
    BY <1>1, <1>2 DEF AtMost
  <1> DEFINE p == Filled(b, now, limit)
             n == Allow(b, now, limit)
  <1>4. n = [tokens |-> IF p >= Minute THEN p - Minute ELSE p, last |-> now, allowed |-> p >= Minute]
    BY DEF Allow
  <1> HIDE DEF p, n
  <1>5. n.tokens = (IF p >= Minute THEN p - Minute ELSE p) /\ n.last = now /\ n.allowed = (p >= Minute)
    BY <1>4
  <1>6. p \in Int /\ p <= full /\ p <= x /\ (p = full \/ p = x)
    BY <1>3 DEF p
  <1>7. CASE p >= Minute
    <2>1. n.tokens = p - Minute /\ n.allowed
      BY <1>5, <1>7, Zenon
    <2>2. PartsOf(n) = p
      BY <1>1, <1>6, <2>1 DEF PartsOf
    <2> QED
      BY <1>1, <1>5, <1>6, <1>7, <2>1, <2>2 DEF Gives, n, x, full
  <1>8. CASE ~(p >= Minute)
    <2>1. n.tokens = p /\ ~n.allowed
      BY <1>5, <1>8, Zenon
    <2>2. PartsOf(n) = p
      BY <1>1, <1>6, <2>1 DEF PartsOf
    <2> QED
      BY <1>1, <1>5, <1>6, <1>8, <2>1, <2>2 DEF Gives, n, x, full
  <1> QED
    BY <1>7, <1>8

LEMMA SeriesAt ==
  ASSUME NEW requests, Series(requests), NEW i \in 1..Len(requests)
  PROVE  /\ requests[i].time \in Nat /\ requests[i].clock \in Int /\ MaxSkew \in Nat
         /\ requests[i].time <= requests[i].clock /\ requests[i].clock <= requests[i].time + MaxSkew
         /\ requests[i].limit \in {RateLimit, LoginLimit} /\ Len(requests) \in Nat
         /\ i # 1 => i - 1 \in 1..Len(requests) /\ requests[i - 1].time <= requests[i].time
  <1>1. requests[i] \in Arrival /\ Len(requests) \in Nat
    <2>1. requests \in Seq(Arrival)
      BY DEF Series
    <2> QED
      BY <2>1
  <1>2. \A k \in 2..Len(requests) : requests[k - 1].time <= requests[k].time
    BY DEF Series
  <1>3. requests[i].time <= requests[i].clock /\ requests[i].clock <= requests[i].time + MaxSkew
    BY DEF Series
  <1>4. i # 1 => i \in 2..Len(requests) /\ i - 1 \in 1..Len(requests)
    BY <1>1
  <1> QED
    BY <1>1, <1>2, <1>3, <1>4, RatesAssumption DEF Arrival

LEMMA LimitsAt ==
  ASSUME NEW requests, Series(requests), NEW rate, Below(requests, rate), NEW i \in 1..Len(requests)
  PROVE  /\ Rates(requests[i].limit, rate) /\ requests[i].limit \in Nat \ {0} /\ rate \in Nat \ {0}
         /\ Lag(requests[i].limit, rate) \in Nat
  <1>1. Rates(requests[i].limit, rate)
    BY SeriesAt DEF Below, Rates
  <1> QED
    BY <1>1, RatesAre

\* What holds between neighbours of a series of times holds between any two.
LEMMA TimesGrow ==
  ASSUME NEW requests, Len(requests) \in Nat, \A k \in 1..Len(requests) : requests[k].time \in Nat,
         \A k \in 2..Len(requests) : requests[k - 1].time <= requests[k].time,
         NEW i \in 1..Len(requests), NEW j \in i..Len(requests)
  PROVE  requests[i].time <= requests[j].time
  <1> DEFINE t(k) == requests[k].time
             T == {n \in Nat : i + n <= Len(requests) => t(i) <= t(i + n)}
  <1>0. \A k \in 1..Len(requests) : t(k) \in Nat
    OBVIOUS
  <1>1. 0 \in T
    BY <1>0
  <1>2. ASSUME NEW n \in Nat, n \in T PROVE n + 1 \in T
    <2> SUFFICES ASSUME i + (n + 1) <= Len(requests) PROVE t(i) <= t(i + (n + 1))
      OBVIOUS
    <2>1. t(i) <= t(i + n)
      BY <1>2
    <2>2. i + (n + 1) \in 2..Len(requests) /\ (i + (n + 1)) - 1 = i + n /\ i + n \in 1..Len(requests)
      OBVIOUS
    <2>3. t(i + n) <= t(i + (n + 1))
      BY <2>2
    <2>4. t(i) \in Nat /\ t(i + n) \in Nat /\ t(i + (n + 1)) \in Nat
      BY <1>0, <2>2
    <2> HIDE DEF t, T
    <2> QED
      BY <2>1, <2>3, <2>4
  <1> HIDE DEF T
  <1>3. j - i \in T
    <2>1. j - i \in Nat
      OBVIOUS
    <2> QED
      BY <1>1, <1>2, <2>1, NoFirstFailure
  <1>4. i + (j - i) = j /\ j <= Len(requests)
    OBVIOUS
  <1> QED
    BY <1>3, <1>4 DEF T

\* What the calls of the lower limit get wrong is added up.
LEMMA DriftCounts ==
  ASSUME NEW requests, NEW rate, NEW i \in Nat, NEW j \in Nat, i <= j + 1, MaxSkew * Gap \in Nat
  PROVE  /\ Drift(requests, i, j, rate) \in Nat /\ (i = j + 1 => Drift(requests, i, j, rate) = 0)
         /\ Drift(requests, i, j + 1, rate)
              = Drift(requests, i, j, rate) + Lag(requests[j + 1].limit, rate)
  <1> DEFINE S(n) == {k \in i..n : requests[k].limit < rate}
             lag  == MaxSkew * Gap
  <1>1. IsFiniteSet(S(j))
    <2>1. IsFiniteSet(i..j)
      BY FS_Interval
    <2> QED
      BY <2>1, FS_Subset
  <1>2. Cardinality(S(j)) \in Nat
    BY <1>1, FS_CardinalityType
  <1>3. i = j + 1 => Cardinality(S(j)) = 0
    <2>1. i = j + 1 => S(j) = {}
      OBVIOUS
    <2> QED
      BY <2>1, FS_EmptySet
  <1>4. Drift(requests, i, j, rate) = Cardinality(S(j)) * lag
    BY DEF Drift
  <1>5. Drift(requests, i, j + 1, rate) = Cardinality(S(j + 1)) * lag
    BY DEF Drift
  <1>6. Lag(requests[j + 1].limit, rate) = IF requests[j + 1].limit < rate THEN lag ELSE 0
    BY DEF Lag
  <1>7. lag \in Nat
    OBVIOUS
  <1>8. CASE requests[j + 1].limit < rate
    <2>1. S(j + 1) = S(j) \cup {j + 1} /\ j + 1 \notin S(j)
      BY <1>8
    <2>2. Cardinality(S(j) \cup {j + 1}) = Cardinality(S(j)) + 1
      BY <1>1, <2>1, FS_AddElement
    <2> DEFINE n == Cardinality(S(j))
    <2>3. n \in Nat /\ Drift(requests, i, j + 1, rate) = (n + 1) * lag
      BY <1>2, <1>5, <2>1, <2>2
    <2> HIDE DEF n, lag
    <2>4. (n + 1) * lag = n * lag + lag /\ n * lag \in Nat /\ (n = 0 => n * lag = 0)
      BY <1>7, <2>3
    <2> QED
      BY <1>3, <1>4, <1>6, <1>8, <2>3, <2>4 DEF n
  <1>9. CASE ~(requests[j + 1].limit < rate)
    <2>1. S(j + 1) = S(j)
      BY <1>9
    <2> DEFINE n == Cardinality(S(j))
    <2>2. n \in Nat /\ Drift(requests, i, j + 1, rate) = n * lag
      BY <1>2, <1>5, <2>1
    <2> HIDE DEF n, lag
    <2>3. n * lag \in Nat /\ (n = 0 => n * lag = 0)
      BY <1>7, <2>2
    <2> QED
      BY <1>3, <1>4, <1>6, <1>9, <2>2, <2>3 DEF n
  <1> QED
    BY <1>8, <1>9

LEMMA DriftAt ==
  ASSUME NEW requests, Series(requests), NEW rate, Below(requests, rate),
         NEW i \in 1..Len(requests), NEW j \in i..Len(requests)
  PROVE  /\ Drift(requests, i, j, rate) \in Nat /\ Drift(requests, i, j - 1, rate) \in Nat
         /\ Drift(requests, i, j, rate) = Drift(requests, i, j - 1, rate) + Lag(requests[j].limit, rate)
         /\ i = j => Drift(requests, i, j - 1, rate) = 0
  <1> DEFINE p == j - 1
  <1>1. p \in Nat /\ i \in Nat /\ i <= p + 1 /\ p + 1 = j /\ j \in 1..Len(requests)
    BY SeriesAt
  <1>2. Lag(requests[j].limit, rate) \in Nat
    BY <1>1, LimitsAt
  <1>3. MaxSkew * Gap \in Nat
    <2>1. Gap \in Nat /\ MaxSkew \in Nat
      BY <1>1, LimitsAt, RatesAre
    <2> QED
      BY <2>1
  <1> HIDE DEF p
  <1>4. /\ Drift(requests, i, p, rate) \in Nat /\ (i = p + 1 => Drift(requests, i, p, rate) = 0)
        /\ Drift(requests, i, p + 1, rate) = Drift(requests, i, p, rate) + Lag(requests[p + 1].limit, rate)
    BY <1>1, <1>3, DriftCounts
  <1> QED
    BY <1>1, <1>2, <1>4 DEF p

\* A bucket after a call: with the time its clock may still gain, and what the calls so far got
\* wrong, nothing is lacking.
Bucket(requests, i) == Buckets(requests)[i]
Solvent(requests, rate, i) ==
  LET b == Bucket(requests, i)
      r == requests[i]
  IN  /\ b.tokens \in Int /\ b.last = r.clock /\ (b.allowed => b.tokens >= 0)
      /\ b.tokens + Comes(rate, (r.time + MaxSkew) - r.clock) + Drift(requests, 1, i, rate) >= 0

LEMMA BucketBegins ==
  ASSUME NEW requests, Series(requests), NEW rate, Below(requests, rate), NEW i \in 1..Len(requests),
         i = 1 \/ requests[i].time - requests[i - 1].time >= Idle
  PROVE  /\ Solvent(requests, rate, i)
         /\ PartsOf(Bucket(requests, i)) = Full(requests[i].limit) /\ Bucket(requests, i).allowed
  <1> DEFINE r == requests[i]
             l == requests[i].limit
             new == New(r.clock, l)
             b == Bucket(requests, i)
             full == Full(l)
  <1>1. requests \in Seq(Arrival) /\ l \in Nat \ {0} /\ rate \in Nat
    BY LimitsAt DEF Series
  <1>2. b = Allow(new, r.clock, l)
    BY <1>1, BucketsStep DEF Bucket, BucketAfter
  <1>3. new.tokens = full /\ new.last = r.clock
    BY DEF New
  <1>4. /\ r.time \in Nat /\ r.clock \in Int /\ MaxSkew \in Nat
        /\ r.time <= r.clock /\ r.clock <= r.time + MaxSkew
    BY SeriesAt
  <1>5. Drift(requests, 1, i, rate) \in Nat
    <2>1. 1 \in 1..Len(requests) /\ i \in 1..Len(requests)
      BY SeriesAt
    <2> QED
      BY <2>1, DriftAt
  <1> HIDE DEF new, b, r, l
  <1>6. full \in Nat /\ Minute \in Nat /\ Minute <= full /\ Comes(l, r.clock - r.clock) = 0
    <2>1. r.clock - r.clock = 0
      BY <1>4
    <2> QED
      BY <1>1, <2>1, FullHoldsOne, ComesAdds
  <1>7. Gives(new, r.clock, l, b)
    BY <1>1, <1>2, <1>3, <1>4, <1>6, AllowGives
  <1>8. PartsOf(b) = full /\ b.allowed
    BY <1>3, <1>6, <1>7 DEF Gives
  <1>9. b.tokens = full - Minute /\ b.last = r.clock
    BY <1>7, <1>8 DEF Gives
  <1>10. Comes(rate, (r.time + MaxSkew) - r.clock) >= 0 /\ Comes(rate, (r.time + MaxSkew) - r.clock) \in Int
    <2>1. 0 <= (r.time + MaxSkew) - r.clock /\ (r.time + MaxSkew) - r.clock \in Int /\ 0 \in Int
      BY <1>4
    <2>2. Comes(rate, 0) <= Comes(rate, (r.time + MaxSkew) - r.clock) /\ Comes(rate, 0) = 0
      BY <1>1, <2>1, ComesAdds
    <2> QED
      BY <1>1, <2>1, <2>2, ComesAdds
  <1> HIDE DEF full
  <1>11. Solvent(requests, rate, i)
    BY <1>5, <1>6, <1>8, <1>9, <1>10 DEF Solvent, b, r
  <1> QED
    BY <1>8, <1>11 DEF b, r, l, full

\* What comes in by the clocks c and d between two calls at the times t and u, and what the clocks
\* hide at each, the former at the limit of a call and the latter at the rate.
LEMMA ClocksHide ==
  ASSUME NEW limit, NEW rate, Rates(limit, rate), NEW t \in Nat, NEW c \in Int, NEW u \in Nat, NEW d \in Int,
         u <= t, t <= c, c <= t + MaxSkew, u <= d
  PROVE  LET in   == Comes(limit, c - d)
             hid  == Comes(rate, (t + MaxSkew) - c)
             was  == Comes(rate, (u + MaxSkew) - d)
             net  == Comes(limit, (t - u) - MaxSkew)
             lag  == Lag(limit, rate)
         IN  /\ in \in Int /\ hid \in Int /\ was \in Int /\ net \in Int /\ lag \in Nat
             /\ hid >= 0 /\ in + hid + lag >= was /\ (in - was) + lag >= net
  <1> DEFINE in   == Comes(limit, c - d)
             hid  == Comes(rate, (t + MaxSkew) - c)
             was  == Comes(rate, (u + MaxSkew) - d)
             net  == Comes(limit, (t - u) - MaxSkew)
             lag  == Lag(limit, rate)
             y    == (c - d) - (t - u)
             w    == (u + MaxSkew) - d
             gap  == Comes(limit, t - u)
             diff == Comes(rate, y)
             part == Comes(limit, y)
             low  == Comes(limit, w)
  <1>0. limit \in Nat /\ rate \in Nat /\ MaxSkew \in Nat /\ lag \in Nat
    BY RatesAre
  <1>1. /\ c - d \in Int /\ (t + MaxSkew) - c \in Int /\ w \in Int /\ t - u \in Int /\ y \in Int
        /\ (t - u) - MaxSkew \in Int /\ 0 \in Int
    BY <1>0
  <1>2. /\ 0 <= t - u /\ 0 <= (t + MaxSkew) - c /\ y <= MaxSkew /\ w <= MaxSkew
        /\ ((t + MaxSkew) - c) + y = w + 0 /\ y + (t - u) = (c - d) + 0
        /\ (t - u) - MaxSkew <= (c - d) - w
    BY <1>0
  <1>3. /\ in \in Int /\ hid \in Int /\ was \in Int /\ gap \in Int /\ net \in Int
        /\ diff \in Int /\ part \in Int /\ low \in Int
    BY <1>0, <1>1, ComesAdds
  <1>4. hid + diff = was
    <2>1. hid + Comes(rate, y) = Comes(rate, w) + Comes(rate, 0)
      BY <1>0, <1>1, <1>2, ComesSums
    <2> QED
      BY <1>0, <1>3, <2>1, ComesAdds
  <1>5. part + gap = in
    <2>1. Comes(limit, y) + Comes(limit, t - u) = Comes(limit, c - d) + Comes(limit, 0)
      BY <1>0, <1>1, <1>2, ComesSums
    <2> QED
      BY <1>0, <1>3, <2>1, ComesAdds
  <1>6. diff <= part + lag /\ was <= low + lag
    BY <1>1, <1>2, LagIsEnough
  <1>7. gap >= 0 /\ hid >= 0
    <2>1. Comes(limit, 0) <= gap /\ Comes(limit, 0) = 0
      BY <1>0, <1>1, <1>2, ComesAdds
    <2>2. Comes(rate, 0) <= hid /\ Comes(rate, 0) = 0
      BY <1>0, <1>1, <1>2, ComesAdds
    <2> HIDE DEF gap, hid
    <2> QED
      BY <1>3, <2>1, <2>2
  <1>8. net <= in - low
    <2>1. (c - d) - w \in Int
      BY <1>1
    <2>2. net <= Comes(limit, (c - d) - w)
      BY <1>0, <1>1, <1>2, <2>1, ComesAdds
    <2>3. Comes(limit, (c - d) - w) = in - low
      <3> DEFINE z == c - d
      <3>1. z \in Int /\ w \in Int
        BY <1>1
      <3> HIDE DEF w, z
      <3>2. Comes(limit, z - w) = Comes(limit, z) - Comes(limit, w)
        BY <1>0, <3>1, ComesOf
      <3> QED
        BY <3>2 DEF w, z
    <2> QED
      BY <2>2, <2>3
  <1> HIDE DEF in, hid, was, gap, net, lag, diff, part, low
  <1>9. hid >= 0 /\ in + hid + lag >= was /\ (in - was) + lag >= net
    BY <1>0, <1>3, <1>4, <1>5, <1>6, <1>7, <1>8
  <1> QED
    BY <1>0, <1>3, <1>9 DEF in, hid, was, net, lag

LEMMA BucketGoesOn ==
  ASSUME NEW requests, Series(requests), NEW rate, Below(requests, rate), NEW i \in 2..Len(requests),
         Solvent(requests, rate, i - 1), ~(requests[i].time - requests[i - 1].time >= Idle)
  PROVE  LET b == Bucket(requests, i)
             o == Bucket(requests, i - 1)
             r == requests[i]
             p == requests[i - 1]
         IN  /\ Solvent(requests, rate, i) /\ PartsOf(b) \in Int /\ PartsOf(b) <= Full(r.limit)
             /\ PartsOf(b) <= o.tokens + Comes(rate, r.clock - p.clock) + Lag(r.limit, rate)
             /\ Comes(r.limit, (r.time - p.time) - MaxSkew) >= Minute + Drift(requests, 1, i, rate) => b.allowed
  <1> DEFINE r == requests[i]
             p == requests[i - 1]
             b == Bucket(requests, i)
             o == Bucket(requests, i - 1)
             l == requests[i].limit
             lag == Lag(l, rate)
             was == Drift(requests, 1, i - 1, rate)
             now == Drift(requests, 1, i, rate)
  <1>1. requests \in Seq(Arrival) /\ i \in 1..Len(requests) /\ i # 1 /\ 1 \in 1..Len(requests)
    BY DEF Series
  <1>2. b = Allow(o, r.clock, l)
    BY <1>1, BucketsStep DEF Bucket, BucketAfter
  <1>3. i - 1 \in 1..Len(requests) /\ p.time <= r.time
    BY <1>1, SeriesAt
  <1>4. /\ r.time \in Nat /\ r.clock \in Int /\ MaxSkew \in Nat
        /\ r.time <= r.clock /\ r.clock <= r.time + MaxSkew /\ p.time \in Nat /\ p.clock \in Int
        /\ p.time <= p.clock /\ p.clock <= p.time + MaxSkew
    BY <1>1, <1>3, SeriesAt
  <1>5. Rates(l, rate) /\ l \in Nat \ {0} /\ rate \in Nat \ {0} /\ lag \in Nat
    BY <1>1, LimitsAt
  <1>6. now = was + lag /\ now \in Nat /\ was \in Nat
    BY <1>1, DriftAt
  <1> HIDE DEF b, o, r, p, l, lag, was, now
  <1>7. /\ o.tokens \in Int /\ o.last = p.clock
        /\ o.tokens + Comes(rate, (p.time + MaxSkew) - p.clock) + was >= 0
    BY DEF Solvent, o, p, was
  <1>8. Gives(o, r.clock, l, b)
    BY <1>2, <1>4, <1>5, <1>7, AllowGives
  <1> DEFINE full == Full(l)
  <1>9. full \in Nat /\ Minute \in Nat /\ Minute <= full
    BY <1>5, FullHoldsOne
  <1> DEFINE in  == Comes(l, r.clock - p.clock)
             hid == Comes(rate, (r.time + MaxSkew) - r.clock)
             had == Comes(rate, (p.time + MaxSkew) - p.clock)
             net == Comes(l, (r.time - p.time) - MaxSkew)
             top == Comes(rate, r.clock - p.clock)
  <1>10. /\ in \in Int /\ hid \in Int /\ had \in Int /\ net \in Int
         /\ hid >= 0 /\ in + hid + lag >= had /\ (in - had) + lag >= net
    BY <1>3, <1>4, <1>5, ClocksHide DEF lag
  <1>11. in <= top + lag /\ top \in Int
    <2>1. r.clock - p.clock \in Int /\ 0 - (r.clock - p.clock) <= MaxSkew
      BY <1>3, <1>4
    <2> QED
      BY <1>5, <2>1, LagBack, ComesAdds DEF lag
  <1> HIDE DEF hid, had, net, in, full, top
  <1>12. /\ PartsOf(b) <= o.tokens + in /\ PartsOf(b) <= full /\ PartsOf(b) \in Int
         /\ PartsOf(b) = full \/ PartsOf(b) = o.tokens + in
    BY <1>7, <1>8 DEF Gives, in, full
  <1>13. PartsOf(b) + hid + now >= 0 /\ (net >= Minute + now => PartsOf(b) >= Minute)
    <2>1. CASE PartsOf(b) = full
      BY <1>6, <1>9, <1>10, <2>1
    <2>2. CASE PartsOf(b) = o.tokens + in
      <3>1. o.tokens + had + was >= 0
        BY <1>7 DEF had
      <3> QED
        BY <1>5, <1>6, <1>7, <1>9, <1>10, <2>2, <3>1
    <2> QED
      BY <1>12, <2>1, <2>2
  <1>14. b.tokens \in Int /\ b.last = r.clock /\ (b.allowed => b.tokens >= 0) /\ b.tokens + hid + now >= 0
    <2> DEFINE parts == PartsOf(b)
    <2>1. /\ b.tokens \in Int /\ b.last = r.clock /\ parts \in Int
          /\ (b.allowed => parts >= Minute /\ b.tokens = parts - Minute)
          /\ (~b.allowed => b.tokens = parts)
      BY <1>8 DEF Gives
    <2>2. parts + hid + now >= 0
      BY <1>13
    <2> HIDE DEF parts
    <2>3. CASE b.allowed
      <3>1. parts - Minute >= 0 /\ b.tokens = parts - Minute
        BY <1>9, <2>1, <2>3
      <3> QED
        BY <1>6, <1>9, <1>10, <2>1, <3>1
    <2>4. CASE ~b.allowed
      BY <2>1, <2>2, <2>4
    <2> QED
      BY <2>3, <2>4
  <1>15. net >= Minute + now => b.allowed
    BY <1>8, <1>9, <1>12, <1>13 DEF Gives
  <1>16. Solvent(requests, rate, i)
    BY <1>14 DEF Solvent, b, r, hid, now
  <1>17. PartsOf(b) <= o.tokens + top + lag
    <2> DEFINE parts == PartsOf(b)
    <2>1. parts \in Int /\ parts <= o.tokens + in /\ o.tokens \in Int
      BY <1>7, <1>12
    <2>2. lag \in Nat /\ in \in Int /\ top \in Int /\ in <= top + lag
      BY <1>5, <1>10, <1>11
    <2> HIDE DEF parts
    <2>3. parts <= o.tokens + top + lag
      BY <2>1, <2>2
    <2> QED
      BY <2>3 DEF parts
  <1> QED
    BY <1>12, <1>15, <1>16, <1>17 DEF b, o, r, p, l, lag, now, net, top, full

LEMMA AllSolvent ==
  ASSUME NEW requests, Series(requests), NEW rate, Below(requests, rate), NEW i \in 1..Len(requests)
  PROVE  Solvent(requests, rate, i)
  <1> DEFINE ok(n) == Solvent(requests, rate, n)
             T == {n \in Nat : n + 1 <= Len(requests) => ok(n + 1)}
  <1>0. Len(requests) \in Nat
    BY DEF Series
  <1>1. 0 \in T
    BY <1>0, BucketBegins
  <1>2. ASSUME NEW n \in Nat, n \in T PROVE n + 1 \in T
    <2> SUFFICES ASSUME (n + 1) + 1 <= Len(requests) PROVE ok((n + 1) + 1)
      OBVIOUS
    <2> DEFINE j == (n + 1) + 1
    <2>1. j \in 2..Len(requests) /\ j \in 1..Len(requests) /\ j - 1 = n + 1 /\ n + 1 <= Len(requests)
      BY <1>0
    <2>2. ok(j - 1)
      BY <1>2, <2>1
    <2> HIDE DEF j
    <2>3. ok(j)
      BY <2>1, <2>2, BucketBegins, BucketGoesOn
    <2> QED
      BY <2>3 DEF j
  <1> HIDE DEF T
  <1>3. i - 1 \in T /\ (i - 1) + 1 = i
    <2>1. i - 1 \in Nat /\ (i - 1) + 1 = i
      BY <1>0
    <2> QED
      BY <1>1, <1>2, <2>1, NoFirstFailure
  <1> QED
    BY <1>0, <1>3 DEF T

\* How many of some calls a bucket lets through.
Granted(requests, i, j) == Cardinality({k \in i..j : Bucket(requests, k).allowed})

LEMMA GrantedCounts ==
  ASSUME NEW requests, NEW i \in Nat, NEW j \in Nat, i <= j + 1
  PROVE  /\ Granted(requests, i, j) \in Nat /\ (i = j + 1 => Granted(requests, i, j) = 0)
         /\ Granted(requests, i, j + 1)
              = Granted(requests, i, j) + (IF Bucket(requests, j + 1).allowed THEN 1 ELSE 0)
  <1> DEFINE S(n) == {k \in i..n : Bucket(requests, k).allowed}
  <1>1. IsFiniteSet(S(j))
    <2>1. IsFiniteSet(i..j)
      BY FS_Interval
    <2> QED
      BY <2>1, FS_Subset
  <1>2. Cardinality(S(j)) \in Nat
    BY <1>1, FS_CardinalityType
  <1>3. i = j + 1 => Cardinality(S(j)) = 0
    <2>1. i = j + 1 => S(j) = {}
      OBVIOUS
    <2> QED
      BY <2>1, FS_EmptySet
  <1>4. Granted(requests, i, j) = Cardinality(S(j)) /\ Granted(requests, i, j + 1) = Cardinality(S(j + 1))
    BY DEF Granted
  <1>5. CASE Bucket(requests, j + 1).allowed
    <2>1. S(j + 1) = S(j) \cup {j + 1} /\ j + 1 \notin S(j)
      BY <1>5
    <2>2. Cardinality(S(j) \cup {j + 1}) = Cardinality(S(j)) + 1
      BY <1>1, <2>1, FS_AddElement
    <2> QED
      BY <1>2, <1>3, <1>4, <1>5, <2>1, <2>2
  <1>6. CASE ~Bucket(requests, j + 1).allowed
    <2>1. S(j + 1) = S(j)
      BY <1>6
    <2> HIDE DEF S
    <2> QED
      BY <1>2, <1>3, <1>4, <1>6, <2>1
  <1> QED
    BY <1>5, <1>6

LEMMA PaidFor ==
  ASSUME NEW requests, Series(requests), NEW rate, Below(requests, rate),
         NEW i \in 1..Len(requests), NEW j \in i..Len(requests)
  PROVE  /\ Cost(Granted(requests, i, j)) \in Nat /\ PartsOf(Bucket(requests, j)) \in Int
         /\ Bucket(requests, j).tokens \in Int
         /\ Cost(Granted(requests, i, j)) + Bucket(requests, j).tokens
              = Cost(Granted(requests, i, j - 1)) + PartsOf(Bucket(requests, j))
         /\ Cost(Granted(requests, i, j - 1)) \in Nat
         /\ Bucket(requests, j).allowed \/ Granted(requests, i, j) = Granted(requests, i, j - 1)
         /\ i = j => Cost(Granted(requests, i, j - 1)) = 0
  <1> DEFINE b == Bucket(requests, j)
             g == Granted(requests, i, j - 1)
             h == Granted(requests, i, j)
  <1>1. j \in 1..Len(requests) /\ j - 1 \in Nat /\ (j - 1) + 1 = j /\ i <= (j - 1) + 1 /\ i \in Nat
    BY DEF Series
  <1>2. g \in Nat /\ h = g + (IF b.allowed THEN 1 ELSE 0) /\ (i = j => g = 0)
    <2> DEFINE p == j - 1
    <2>1. p \in Nat /\ i \in Nat /\ i <= p + 1 /\ p + 1 = j
      BY <1>1
    <2> HIDE DEF p, b
    <2>2. /\ Granted(requests, i, p) \in Nat /\ (i = p + 1 => Granted(requests, i, p) = 0)
          /\ Granted(requests, i, p + 1)
               = Granted(requests, i, p) + (IF Bucket(requests, p + 1).allowed THEN 1 ELSE 0)
      BY <2>1, GrantedCounts
    <2> QED
      BY <2>1, <2>2 DEF p, b
  <1>3. b.tokens \in Int /\ Minute \in Nat
    <2>1. Solvent(requests, rate, j)
      BY <1>1, AllSolvent
    <2>2. Minute \in Nat
      BY RatesAssumption
    <2> QED
      BY <2>1, <2>2 DEF Solvent
  <1> HIDE DEF b, g, h
  <1>4. CASE b.allowed
    <2>1. h = g + 1 /\ PartsOf(b) = b.tokens + Minute
      BY <1>2, <1>4 DEF PartsOf
    <2>2. Cost(h) = Cost(g) + Minute /\ Cost(g) \in Nat /\ (g = 0 => Cost(g) = 0)
      BY <1>2, <2>1, CostAdds
    <2> QED
      BY <1>2, <1>3, <1>4, <2>1, <2>2 DEF b, g, h
  <1>5. CASE ~b.allowed
    <2>1. h = g /\ PartsOf(b) = b.tokens
      BY <1>2, <1>3, <1>5 DEF PartsOf
    <2>2. Cost(g) \in Nat /\ (g = 0 => Cost(g) = 0)
      BY <1>2, CostAdds
    <2> QED
      BY <1>2, <1>3, <1>5, <2>1, <2>2 DEF b, g, h
  <1> QED
    BY <1>4, <1>5

\* What calls i to j took and what the bucket has is no more than it held and what came in; and what
\* they took is no more than that by the time that passed, whatever the clock shows.
Ledger(requests, rate, i, j) ==
  Cost(Granted(requests, i, j)) + Bucket(requests, j).tokens
    <= Full(rate) + Comes(rate, requests[j].clock - requests[i].clock) + Drift(requests, i, j, rate)
Bounded(requests, rate, i, j) ==
  Cost(Granted(requests, i, j))
    <= Full(rate) + Comes(rate, (requests[j].time + MaxSkew) - requests[i].clock) + Drift(requests, i, j, rate)

\* At a call that was let through the bucket owes nothing, and the clock is at most the skew ahead.
LEMMA LedgerBounds ==
  ASSUME NEW requests, Series(requests), NEW rate, Below(requests, rate),
         NEW i \in 1..Len(requests), NEW j \in i..Len(requests),
         Ledger(requests, rate, i, j), Bucket(requests, j).allowed
  PROVE  Bounded(requests, rate, i, j)
  <1> DEFINE b == Bucket(requests, j)
             u == requests[j].time
             a == requests[i].clock
             e == requests[j].clock
             cost == Cost(Granted(requests, i, j))
             drift == Drift(requests, i, j, rate)
             full == Full(rate)
             x == Comes(rate, e - a)
             y == Comes(rate, (u + MaxSkew) - a)
  <1>1. j \in 1..Len(requests)
    BY SeriesAt
  <1>2. u \in Nat /\ a \in Int /\ e \in Int /\ MaxSkew \in Nat /\ e <= u + MaxSkew
    BY <1>1, SeriesAt
  <1>3. cost + b.tokens <= full + x + drift
    BY DEF Ledger
  <1>4. cost \in Nat /\ b.tokens \in Int /\ b.tokens >= 0
    BY <1>1, PaidFor, AllSolvent DEF Solvent
  <1>5. rate \in Nat \ {0} /\ full \in Nat
    BY <1>1, LimitsAt, FullHoldsOne
  <1>6. drift \in Nat
    BY DriftAt
  <1> HIDE DEF b, u, a, e, cost, drift, full
  <1>7. x <= y /\ x \in Int /\ y \in Int
    <2>1. e - a \in Int /\ (u + MaxSkew) - a \in Int /\ e - a <= (u + MaxSkew) - a
      BY <1>2
    <2> QED
      BY <1>5, <2>1, ComesAdds
  <1> HIDE DEF x, y
  <1>8. cost <= full + y + drift
    BY <1>3, <1>4, <1>5, <1>6, <1>7
  <1> QED
    BY <1>8 DEF Bounded, cost, full, y, drift, u, a

LEMMA LedgerBegins ==
  ASSUME NEW requests, Series(requests), NEW rate, Below(requests, rate), NEW i \in 1..Len(requests)
  PROVE  Ledger(requests, rate, i, i) /\ Bounded(requests, rate, i, i)
  <1> DEFINE b == Bucket(requests, i)
             c == requests[i].clock
             t == requests[i].time
             l == requests[i].limit
             full == Full(rate)
             drift == Drift(requests, i, i, rate)
             cost == Cost(Granted(requests, i, i))
  <1>1. i \in i..Len(requests) /\ c \in Int /\ t \in Nat /\ MaxSkew \in Nat /\ c <= t + MaxSkew
    BY SeriesAt
  <1>2. Rates(l, rate) /\ rate \in Nat \ {0}
    BY LimitsAt
  <1>3. Comes(rate, c - c) = 0 /\ Comes(rate, (t + MaxSkew) - c) >= 0 /\ Comes(rate, (t + MaxSkew) - c) \in Int
    <2>1. c - c = 0 /\ (t + MaxSkew) - c \in Int /\ 0 <= (t + MaxSkew) - c /\ 0 \in Int
      BY <1>1
    <2>2. Comes(rate, 0) = 0 /\ Comes(rate, 0) <= Comes(rate, (t + MaxSkew) - c)
      BY <1>2, <2>1, ComesAdds
    <2> QED
      BY <1>2, <2>1, <2>2, ComesAdds
  <1>4. PartsOf(b) <= Full(l)
    <2>0. Full(l) \in Nat
      BY <1>2, FullGrows
    <2>1. CASE i = 1 \/ requests[i].time - requests[i - 1].time >= Idle
      BY <2>0, <2>1, BucketBegins
    <2>2. CASE i # 1 /\ ~(requests[i].time - requests[i - 1].time >= Idle)
      <3>1. i \in 2..Len(requests) /\ i - 1 \in 1..Len(requests)
        BY <2>2, SeriesAt
      <3> QED
        BY <2>2, <3>1, AllSolvent, BucketGoesOn
    <2> QED
      BY <2>1, <2>2
  <1>5. Full(l) <= full /\ Full(l) \in Nat /\ full \in Nat
    BY <1>2, FullGrows
  <1>6. /\ cost + b.tokens = Cost(Granted(requests, i, i - 1)) + PartsOf(b) /\ cost \in Nat
        /\ Cost(Granted(requests, i, i - 1)) = 0 /\ PartsOf(b) \in Int
        /\ b.allowed \/ Granted(requests, i, i) = Granted(requests, i, i - 1)
    BY <1>1, PaidFor
  <1>7. drift \in Nat
    BY <1>1, DriftAt
  <1>8. Ledger(requests, rate, i, i)
    <2> HIDE DEF b, c, cost, drift, full, l
    <2>1. cost + b.tokens <= full + Comes(rate, c - c) + drift
      BY <1>3, <1>4, <1>5, <1>6, <1>7
    <2> QED
      BY <2>1 DEF Ledger, b, c, cost, drift, full
  <1>9. CASE b.allowed
    BY <1>1, <1>8, <1>9, LedgerBounds
  <1>10. CASE ~b.allowed
    <2>1. cost = 0
      BY <1>6, <1>10
    <2> HIDE DEF b, c, cost, drift, full, l, t
    <2>2. cost <= full + Comes(rate, (t + MaxSkew) - c) + drift
      BY <1>3, <1>5, <1>7, <2>1
    <2>3. Bounded(requests, rate, i, i)
      BY <2>2 DEF Bounded, c, cost, drift, full, t
    <2> QED
      BY <1>8, <2>3
  <1> QED
    BY <1>8, <1>9, <1>10

\* What comes in between calls whose clocks show a, c and e, the second of them at the time t.
ComesBetween(rate, a, c, e, t) ==
  /\ Comes(rate, c - a) \in Int /\ Comes(rate, e - c) \in Int /\ Comes(rate, e - a) \in Int
  /\ Comes(rate, e - a) = Comes(rate, c - a) + Comes(rate, e - c)
  /\ Comes(rate, (t + MaxSkew) - a) \in Int
  /\ (t + MaxSkew) + Minute <= e => Full(rate) + Comes(rate, (t + MaxSkew) - a) <= Comes(rate, e - a)

LEMMA ClocksAdd ==
  ASSUME NEW rate \in Nat \ {0}, NEW a \in Int, NEW c \in Int, NEW e \in Int, NEW t \in Int, MaxSkew \in Nat
  PROVE  ComesBetween(rate, a, c, e, t)
  <1>0. Minute \in Int /\ Full(rate) = Comes(rate, Minute) /\ Full(rate) \in Int
    BY FullHoldsOne
  <1> DEFINE x == c - a
             y == e - c
             z == (t + MaxSkew) - a
  <1>1. x \in Int /\ y \in Int /\ z \in Int /\ x + y = e - a /\ e - a \in Int
        /\ ((t + MaxSkew) + Minute <= e => Minute + z <= e - a)
    BY <1>0
  <1> HIDE DEF x, y, z
  <1>2. rate \in Nat
    OBVIOUS
  <1>3. /\ Comes(rate, x) \in Int /\ Comes(rate, y) \in Int
        /\ Comes(rate, e - a) = Comes(rate, x) + Comes(rate, y)
    <2>1. Comes(rate, x + y) = Comes(rate, x) + Comes(rate, y) /\ Comes(rate, x) \in Int /\ Comes(rate, y) \in Int
      BY <1>1, <1>2, ComesOf
    <2> QED
      BY <1>1, <2>1
  <1>4. Comes(rate, z) \in Int /\ (Minute + z <= e - a => Full(rate) + Comes(rate, z) <= Comes(rate, e - a))
    <2>1. /\ Minute + z \in Int /\ Comes(rate, z) \in Int
          /\ Comes(rate, Minute + z) = Comes(rate, Minute) + Comes(rate, z)
      <3>1. Minute \in Int /\ z \in Int
        BY <1>0, <1>1
      <3>2. Comes(rate, Minute + z) = Comes(rate, Minute) + Comes(rate, z) /\ Comes(rate, z) \in Int
        BY <1>2, <3>1, ComesOf
      <3> QED
        BY <3>1, <3>2
    <2>2. Minute + z <= e - a => Comes(rate, Minute + z) <= Comes(rate, e - a)
      BY <1>1, <1>2, <2>1, ComesOf
    <2> QED
      BY <1>0, <2>1, <2>2
  <1>5. Comes(rate, e - a) \in Int
    BY <1>3
  <1> QED
    BY <1>1, <1>3, <1>4, <1>5 DEF ComesBetween, x, y, z

LEMMA LedgerGoesOn ==
  ASSUME NEW requests, Series(requests), NEW rate, Below(requests, rate), MaxSkew <= Minute,
         NEW i \in 1..Len(requests), NEW j \in i..Len(requests), j + 1 <= Len(requests),
         Ledger(requests, rate, i, j), Bounded(requests, rate, i, j)
  PROVE  Ledger(requests, rate, i, j + 1) /\ Bounded(requests, rate, i, j + 1)
  <1> DEFINE n == j + 1
             o == Bucket(requests, j)
             b == Bucket(requests, n)
             t == requests[j].time
             u == requests[n].time
             a == requests[i].clock
             c == requests[j].clock
             e == requests[n].clock
             l == requests[n].limit
             lag == Lag(l, rate)
             cost == Cost(Granted(requests, i, j))
             new  == Cost(Granted(requests, i, n))
             drift == Drift(requests, i, j, rate)
             more  == Drift(requests, i, n, rate)
             full  == Full(rate)
             parts == PartsOf(b)
  <1>1. /\ n \in 2..Len(requests) /\ n \in 1..Len(requests) /\ n \in i..Len(requests) /\ n # 1
        /\ n - 1 = j /\ j \in 1..Len(requests)
    BY DEF Series
  <1>2. /\ t \in Nat /\ t \in Int /\ u \in Nat /\ a \in Int /\ c \in Int /\ e \in Int
        /\ u <= e /\ t <= u /\ MaxSkew \in Nat
    BY <1>1, SeriesAt
  <1>3. /\ new + b.tokens = cost + parts /\ o.tokens \in Int /\ parts \in Int /\ new \in Nat
        /\ b.tokens \in Int /\ cost \in Nat /\ (b.allowed \/ new = cost)
    BY <1>1, PaidFor
  <1>4. cost + o.tokens <= full + Comes(rate, c - a) + drift
    BY DEF Ledger
  <1>5. cost <= full + Comes(rate, (t + MaxSkew) - a) + drift
    BY DEF Bounded
  <1>6. Solvent(requests, rate, j) /\ Solvent(requests, rate, n - 1)
    BY <1>1, AllSolvent
  <1>7. Rates(l, rate) /\ rate \in Nat \ {0} /\ lag \in Nat
    BY <1>1, LimitsAt
  <1>8. Minute \in Nat /\ full \in Nat /\ Full(l) \in Nat /\ Full(l) <= full
    BY <1>7, FullHoldsOne, FullGrows
  <1>9. more = drift + lag /\ drift \in Nat /\ more \in Nat
    BY <1>1, DriftAt
  <1>10. ComesBetween(rate, a, c, e, t)
    BY <1>2, <1>7, ClocksAdd
  <1>11. Ledger(requests, rate, i, n)
    <2>1. CASE ~(u - t >= Idle)
      <3>1. parts <= o.tokens + Comes(rate, e - c) + lag
        BY <1>1, <1>6, <2>1, BucketGoesOn
      <3> HIDE DEF n, o, b, t, u, a, c, e, l, lag, cost, new, drift, more, full, parts
      <3> DEFINE x == Comes(rate, c - a)
                 y == Comes(rate, e - c)
                 z == Comes(rate, e - a)
      <3>2. x \in Int /\ y \in Int /\ z = x + y
        BY <1>10 DEF ComesBetween
      <3>3. cost + o.tokens <= full + x + drift /\ parts <= o.tokens + y + lag
        BY <1>4, <3>1
      <3> HIDE DEF x, y, z
      <3> DEFINE had == o.tokens
                 has == b.tokens
      <3>4. /\ cost \in Int /\ new \in Int /\ had \in Int /\ has \in Int /\ parts \in Int
            /\ full \in Int /\ drift \in Int /\ lag \in Int /\ new + has = cost + parts
        BY <1>3, <1>7, <1>8, <1>9
      <3>5. cost + had <= full + x + drift /\ parts <= had + y + lag /\ more = drift + lag
        BY <1>9, <3>3
      <3> HIDE DEF had, has
      <3>6. new + has <= full + z + more
        BY <3>2, <3>4, <3>5
      <3>7. new + b.tokens <= full + Comes(rate, e - a) + more
        BY <3>6 DEF z, has
      <3> QED
        BY <3>7 DEF Ledger, b, a, e, new, full, more
    <2>2. CASE u - t >= Idle
      <3>1. parts = Full(l)
        BY <1>1, <2>2, BucketBegins
      <3> HIDE DEF n, o, b, t, u, a, c, e, l, lag, cost, new, drift, more, full, parts
      <3>2. (t + MaxSkew) + Minute <= e
        <4>1. u - t >= 2 * Minute
          BY <2>2 DEF Idle
        <4> QED
          BY <1>2, <1>8, <4>1
      <3>3. full + Comes(rate, (t + MaxSkew) - a) <= Comes(rate, e - a) /\ Comes(rate, (t + MaxSkew) - a) \in Int
            /\ Comes(rate, e - a) \in Int
        BY <1>10, <3>2 DEF ComesBetween, full
      <3> DEFINE x == Comes(rate, (t + MaxSkew) - a)
                 z == Comes(rate, e - a)
                 has == b.tokens
                 fits == Full(l)
      <3>5. cost <= full + x + drift /\ full + x <= z /\ x \in Int /\ z \in Int
        BY <1>5, <3>3
      <3>6. /\ cost \in Int /\ new \in Int /\ has \in Int /\ parts \in Int /\ fits \in Int /\ full \in Int
            /\ drift \in Int /\ lag \in Nat /\ new + has = cost + parts
        BY <1>3, <1>7, <1>8, <1>9
      <3>7. parts = fits /\ fits <= full /\ more = drift + lag
        BY <1>8, <1>9, <3>1
      <3> HIDE DEF x, z, has, fits
      <3>8. new + has <= full + z + more
        BY <3>5, <3>6, <3>7
      <3>4. new + b.tokens <= full + Comes(rate, e - a) + more
        BY <3>8 DEF z, has
      <3> QED
        BY <3>4 DEF Ledger, b, a, e, new, full, more
    <2> QED
      BY <2>1, <2>2
  <1>12. CASE b.allowed
    BY <1>1, <1>11, <1>12, LedgerBounds
  <1>13. CASE ~b.allowed
    <2>1. Comes(rate, (t + MaxSkew) - a) <= Comes(rate, (u + MaxSkew) - a) /\ Comes(rate, (t + MaxSkew) - a) \in Int
          /\ Comes(rate, (u + MaxSkew) - a) \in Int
      <3> HIDE DEF n, o, b, t, u, a, c, e, l, lag, cost, new, drift, more, full, parts
      <3>1. /\ (t + MaxSkew) - a \in Int /\ (u + MaxSkew) - a \in Int
            /\ (t + MaxSkew) - a <= (u + MaxSkew) - a
        BY <1>2
      <3> QED
        BY <1>7, <3>1, ComesAdds
    <2> HIDE DEF n, o, b, t, u, a, c, e, l, lag, cost, new, drift, more, full, parts
    <2>2. new = cost
      BY <1>3, <1>13
    <2>3. new <= full + Comes(rate, (u + MaxSkew) - a) + more
      BY <1>3, <1>5, <1>7, <1>8, <1>9, <2>1, <2>2
    <2>4. Bounded(requests, rate, i, n)
      BY <2>3 DEF Bounded, a, u, new, full, more
    <2> QED
      BY <1>11, <2>4 DEF n
  <1> QED
    BY <1>11, <1>12, <1>13

LEMMA AlwaysBounded ==
  ASSUME NEW requests, Series(requests), NEW rate, Below(requests, rate), MaxSkew <= Minute,
         NEW i \in 1..Len(requests), NEW j \in i..Len(requests)
  PROVE  Bounded(requests, rate, i, j)
  <1> DEFINE ok(k) == Ledger(requests, rate, i, k) /\ Bounded(requests, rate, i, k)
             T == {n \in Nat : i + n <= Len(requests) => ok(i + n)}
  <1>0. Len(requests) \in Nat
    BY DEF Series
  <1>1. 0 \in T
    <2>1. i + 0 = i
      OBVIOUS
    <2> QED
      BY <2>1, LedgerBegins
  <1>2. ASSUME NEW n \in Nat, n \in T PROVE n + 1 \in T
    <2> SUFFICES ASSUME i + (n + 1) <= Len(requests) PROVE ok(i + (n + 1))
      OBVIOUS
    <2> DEFINE m == i + n
    <2>1. m \in i..Len(requests) /\ m + 1 <= Len(requests) /\ m + 1 = i + (n + 1)
      BY <1>0
    <2>2. ok(m)
      BY <1>0, <1>2, <2>1
    <2> HIDE DEF m
    <2>3. ok(m + 1)
      BY <2>1, <2>2, LedgerGoesOn
    <2> HIDE DEF ok
    <2> QED
      BY <2>1, <2>3
  <1> HIDE DEF T
  <1>3. j - i \in T /\ i + (j - i) = j
    <2>1. j - i \in Nat /\ i + (j - i) = j
      BY <1>0
    <2> QED
      BY <1>1, <1>2, <2>1, NoFirstFailure
  <1> QED
    BY <1>0, <1>3 DEF T

\* For every series of calls.  A bucket that is dropped after two minutes begins full, and the
\* clocks must not hide more than one of them.
LEMMA BucketKeepsLimits ==
  ASSUME MaxSkew <= Minute, NEW requests, Series(requests)
  PROVE  BucketLimits(requests)
  <1> DEFINE span(i, j) == requests[j].time - requests[i].time
  <1>0. DOMAIN requests = 1..Len(requests)
    BY DEF Series
  <1>1. ASSUME NEW rate, Below(requests, rate), NEW i \in 1..Len(requests), NEW j \in i..Len(requests)
        PROVE  Cardinality({k \in i..j : Buckets(requests)[k].allowed}) * Minute
                 <= Full(rate) + (span(i, j) + MaxSkew) * rate + Drift(requests, i, j, rate)
    <2> DEFINE u == requests[j].time
               t == requests[i].time
               a == requests[i].clock
               x == Comes(rate, (u + MaxSkew) - a)
               y == Comes(rate, (u - t) + MaxSkew)
               cost == Cost(Granted(requests, i, j))
               drift == Drift(requests, i, j, rate)
               full == Full(rate)
    <2>1. j \in 1..Len(requests)
      BY SeriesAt
    <2>2. u \in Nat /\ t \in Nat /\ a \in Int /\ MaxSkew \in Nat /\ t <= a
      BY <2>1, SeriesAt
    <2>3. Below(requests, rate)
      BY <1>1
    <2>4. cost <= full + x + drift
      <3>1. Bounded(requests, rate, i, j)
        BY <1>1, AlwaysBounded
      <3> QED
        BY <3>1 DEF Bounded
    <2>5. rate \in Nat \ {0} /\ full \in Nat /\ drift \in Nat /\ cost \in Nat
      <3>1. rate \in Nat \ {0}
        BY <2>3, <2>1, LimitsAt
      <3>2. drift \in Nat /\ cost \in Nat
        BY <2>3, DriftAt, PaidFor
      <3> QED
        BY <3>1, <3>2, FullHoldsOne
    <2>6. x <= y /\ x \in Int /\ y \in Int
      <3> HIDE DEF u, t, a
      <3>1. (u + MaxSkew) - a <= (u - t) + MaxSkew /\ (u + MaxSkew) - a \in Int /\ (u - t) + MaxSkew \in Int
        BY <2>2
      <3> QED
        BY <2>5, <3>1, ComesAdds
    <2>7. cost <= full + y + drift
      <3> HIDE DEF x, y, cost, drift, full
      <3> QED
        BY <2>4, <2>5, <2>6
    <2> QED
      BY <2>7 DEF Cost, Comes, Granted, Bucket
  <1>2. ASSUME NEW rate, Below(requests, rate), NEW i \in 2..Len(requests),
               (span(i - 1, i) - MaxSkew) * requests[i].limit >= Minute + Drift(requests, 1, i, rate)
        PROVE  Buckets(requests)[i].allowed
    <2>1. Comes(requests[i].limit, span(i - 1, i) - MaxSkew) >= Minute + Drift(requests, 1, i, rate)
      BY <1>2 DEF Comes
    <2>2. i \in 1..Len(requests) /\ i - 1 \in 1..Len(requests)
      BY DEF Series
    <2>3. CASE span(i - 1, i) >= Idle
      BY <1>2, <2>2, <2>3, BucketBegins DEF Bucket
    <2>4. CASE ~(span(i - 1, i) >= Idle)
      <3>1. Solvent(requests, rate, i - 1)
        BY <1>2, <2>2, AllSolvent
      <3> QED
        BY <1>2, <2>1, <2>4, <3>1, BucketGoesOn DEF Bucket
    <2> QED
      BY <2>3, <2>4
  <1>3. ASSUME NEW high \in {RateLimit, LoginLimit}, \A i \in DOMAIN requests : requests[i].limit <= high
        PROVE  Below(requests, high)
    BY <1>0, <1>3 DEF Below
  <1> QED
    BY <1>0, <1>1, <1>2, <1>3 DEF BucketLimits

-----------------------------------------------------------------------------
(* The gateway.  While a stretch of time is shorter than a minute, the     *)
(* window in Redis begins anew once in it at most (ThroughRedis); what     *)
(* memory let through since its begin is still among its hits; and a full  *)
(* window or memory stands for as many requests of the last minute.        *)

\* The requests of a client in their order, each with what became of the script in Redis.
Fates(requests) ==
  /\ requests \in Seq([time : Nat, redis : {"ok", "down", "lost"}])
  /\ \A i \in 2..Len(requests) : requests[i - 1].time <= requests[i].time

\* The function that Gateway defines exists.
Start == [window |-> [count |-> 0, ends |-> 0], hits |-> {}, by |-> "none"]
GatewayAfter(requests, old, i) ==
  LET window == IF requests[i].redis = "down" THEN old.window ELSE Counted(old.window, requests[i].time)
      hits   == Recent(requests, old.hits, i)
  IN  IF requests[i].redis = "ok"
      THEN [window |-> window, hits |-> old.hits,
            by |-> IF window.count <= GatewayLimit THEN "redis" ELSE "none"]
      ELSE IF Cardinality(hits) >= GatewayLimit
      THEN [window |-> window, hits |-> old.hits, by |-> "none"]
      ELSE [window |-> window, hits |-> hits \cup {i}, by |-> "memory"]
GatewayFrom(requests, f, end) ==
  f = [i \in 0..end |-> IF i = 0 THEN Start ELSE GatewayAfter(requests, f[i - 1], i)]

LEMMA GatewayDefined ==
  ASSUME NEW requests, NEW end \in Nat
  PROVE  \E f : GatewayFrom(requests, f, end)
  <1> DEFINE T == {n \in Nat : \E f : GatewayFrom(requests, f, n)}
  <1>1. 0 \in T
    <2>1. GatewayFrom(requests, [i \in 0..0 |-> Start], 0)
      BY DEF GatewayFrom
    <2> QED
      BY <2>1
  <1>2. ASSUME NEW n \in Nat, n \in T PROVE n + 1 \in T
    <2>1. PICK f : GatewayFrom(requests, f, n)
      BY <1>2
    <2> DEFINE h == [i \in 0..n + 1 |-> IF i = n + 1 THEN GatewayAfter(requests, f[n], n + 1) ELSE f[i]]
    <2>2. \A i \in 0..n : f[i] = IF i = 0 THEN Start ELSE GatewayAfter(requests, f[i - 1], i)
      BY <2>1 DEF GatewayFrom
    <2>3. \A i \in 0..n + 1 : i # 0 => i - 1 \in 0..n /\ h[i - 1] = f[i - 1]
      OBVIOUS
    <2>4. \A i \in 0..n + 1 : h[i] = IF i = n + 1 THEN GatewayAfter(requests, f[n], n + 1) ELSE f[i]
      OBVIOUS
    <2>5. h = [i \in 0..n + 1 |-> h[i]]
      OBVIOUS
    <2> HIDE DEF h
    <2>6. \A i \in 0..n + 1 : h[i] = IF i = 0 THEN Start ELSE GatewayAfter(requests, h[i - 1], i)
      BY <2>2, <2>3, <2>4
    <2>7. GatewayFrom(requests, h, n + 1)
      BY <2>5, <2>6 DEF GatewayFrom
    <2> QED
      BY <2>7
  <1> HIDE DEF T
  <1>3. Nat \subseteq T
    BY <1>1, <1>2, NoFirstFailure
  <1> QED
    BY <1>3 DEF T

LEMMA GatewaySteps ==
  ASSUME NEW requests, Fates(requests)
  PROVE  /\ Gateway(requests)[0] = Start
         /\ \A i \in 1..Len(requests) :
              Gateway(requests)[i] = GatewayAfter(requests, Gateway(requests)[i - 1], i)
  <1> DEFINE end == Len(requests)
             f == CHOOSE f : GatewayFrom(requests, f, end)
  <1>0. end \in Nat
    BY DEF Fates
  <1>1. GatewayFrom(requests, f, end)
    BY <1>0, GatewayDefined
  <1>2. Gateway(requests) = f
    BY DEF Gateway, GatewayFrom, GatewayAfter, Start
  <1> HIDE DEF f
  <1> QED
    BY <1>0, <1>1, <1>2 DEF GatewayFrom

LEMMA FateAt ==
  ASSUME NEW requests, Fates(requests), NEW i \in 1..Len(requests)
  PROVE  /\ requests[i].time \in Nat /\ requests[i].redis \in {"ok", "down", "lost"}
         /\ i # 1 => i - 1 \in 1..Len(requests) /\ requests[i - 1].time <= requests[i].time
  <1> DEFINE R == [time : Nat, redis : {"ok", "down", "lost"}]
  <1>1. requests \in Seq(R)
    BY DEF Fates
  <1> HIDE DEF R
  <1>2. requests[i] \in R /\ Len(requests) \in Nat
    BY <1>1
  <1>3. i # 1 => i \in 2..Len(requests) /\ i - 1 \in 1..Len(requests)
    BY <1>2
  <1>4. \A k \in 2..Len(requests) : requests[k - 1].time <= requests[k].time
    BY DEF Fates
  <1> QED
    BY <1>2, <1>3, <1>4 DEF R

LEMMA FatesGrow ==
  ASSUME NEW requests, Fates(requests), NEW i \in 1..Len(requests), NEW j \in i..Len(requests)
  PROVE  requests[i].time <= requests[j].time
  <1>1. Len(requests) \in Nat /\ \A k \in 1..Len(requests) : requests[k].time \in Nat
    <2>1. Len(requests) \in Nat
      BY DEF Fates
    <2> QED
      BY <2>1, FateAt
  <1>2. \A k \in 2..Len(requests) : requests[k - 1].time <= requests[k].time
    BY DEF Fates
  <1> QED
    BY <1>1, <1>2, TimesGrow

\* What a request does to the window, and to the hits.
Ticked(old, new, now) ==
  \/ new = old
  \/ now >= old.ends /\ new.count = 1 /\ new.ends = now + Minute
  \/ ~(now >= old.ends) /\ new.count = old.count + 1 /\ new.ends = old.ends
Decided(requests, old, new, i) ==
  LET hits == Recent(requests, old.hits, i)
  IN  \/ /\ new.by = "redis" /\ new.hits = old.hits
         /\ new.window = Counted(old.window, requests[i].time) /\ new.window.count <= GatewayLimit
      \/ /\ new.by = "memory" /\ new.hits = hits \cup {i} /\ ~(Cardinality(hits) >= GatewayLimit)
      \/ /\ new.by = "none" /\ new.hits = old.hits
         /\ \/ Cardinality(hits) >= GatewayLimit
            \/ /\ new.window = Counted(old.window, requests[i].time)
               /\ ~(new.window.count <= GatewayLimit)

LEMMA CountedTicks ==
  ASSUME NEW w, w \in [count : Nat, ends : Nat], NEW now \in Nat
  PROVE  LET n == Counted(w, now)
         IN  /\ n \in [count : Nat, ends : Nat]
             /\ IF now >= w.ends THEN n.count = 1 /\ n.ends = now + Minute
                ELSE n.count = w.count + 1 /\ n.ends = w.ends
  BY RatesAssumption DEF Counted

LEMMA GatewayDecides ==
  ASSUME NEW requests, Fates(requests), NEW old, old.window \in [count : Nat, ends : Nat],
         NEW i \in 1..Len(requests)
  PROVE  LET new == GatewayAfter(requests, old, i)
         IN  /\ new.window \in [count : Nat, ends : Nat]
             /\ Ticked(old.window, new.window, requests[i].time) /\ Decided(requests, old, new, i)
  <1> DEFINE new == GatewayAfter(requests, old, i)
             t == requests[i].time
             window == IF requests[i].redis = "down" THEN old.window ELSE Counted(old.window, t)
             hits == Recent(requests, old.hits, i)
             refused == Cardinality(hits) >= GatewayLimit
             fits == window.count <= GatewayLimit
             ok == requests[i].redis = "ok"
  <1>1. t \in Nat
    BY FateAt
  <1>2. window \in [count : Nat, ends : Nat] /\ Ticked(old.window, window, t)
    BY <1>1, CountedTicks DEF Ticked
  <1>3. ok => window = Counted(old.window, t)
    OBVIOUS
  <1>4. new = IF ok THEN [window |-> window, hits |-> old.hits, by |-> IF fits THEN "redis" ELSE "none"]
              ELSE IF refused THEN [window |-> window, hits |-> old.hits, by |-> "none"]
              ELSE [window |-> window, hits |-> hits \cup {i}, by |-> "memory"]
    BY DEF GatewayAfter
  <1> HIDE DEF new, window, hits
  <1>5. new.window = window
    BY <1>4
  <1>6. CASE ok
    <2>1. new.hits = old.hits /\ new.by = IF fits THEN "redis" ELSE "none"
      BY <1>4, <1>6
    <2> QED
      BY <1>2, <1>3, <1>5, <1>6, <2>1 DEF Decided, new
  <1>7. CASE ~ok /\ refused
    <2>1. new.hits = old.hits /\ new.by = "none"
      BY <1>4, <1>7
    <2> QED
      BY <1>2, <1>5, <1>7, <2>1 DEF Decided, new, hits
  <1>8. CASE ~ok /\ ~refused
    <2>1. new.hits = hits \cup {i} /\ new.by = "memory"
      BY <1>4, <1>8
    <2> QED
      BY <1>2, <1>5, <1>8, <2>1 DEF Decided, new, hits
  <1> QED
    BY <1>6, <1>7, <1>8

\* What the gateway has after a request.
After(requests, i) == Gateway(requests)[i]
Windows == [count : Nat, ends : Nat]

LEMMA WindowAfter ==
  ASSUME NEW requests, Fates(requests), NEW i \in 0..Len(requests)
  PROVE  After(requests, i).window \in Windows
  <1> DEFINE T == {n \in Nat : n <= Len(requests) => After(requests, n).window \in Windows}
  <1>0. Len(requests) \in Nat
    BY DEF Fates
  <1>1. 0 \in T
    <2>1. After(requests, 0) = Start
      BY GatewaySteps DEF After
    <2> QED
      BY <2>1 DEF Start, Windows
  <1>2. ASSUME NEW n \in Nat, n \in T PROVE n + 1 \in T
    <2> SUFFICES ASSUME n + 1 <= Len(requests) PROVE After(requests, n + 1).window \in Windows
      OBVIOUS
    <2>1. n + 1 \in 1..Len(requests) /\ (n + 1) - 1 = n /\ n <= Len(requests)
      BY <1>0
    <2>2. After(requests, n).window \in Windows
      BY <1>2, <2>1
    <2>3. After(requests, n + 1) = GatewayAfter(requests, After(requests, n), n + 1)
      BY <2>1, GatewaySteps DEF After
    <2> QED
      BY <2>1, <2>2, <2>3, GatewayDecides DEF Windows
  <1> HIDE DEF T
  <1>3. i \in T
    BY <1>0, <1>1, <1>2, NoFirstFailure
  <1> QED
    BY <1>0, <1>3 DEF T

LEMMA GatewayGoesOn ==
  ASSUME NEW requests, Fates(requests), NEW i \in 1..Len(requests)
  PROVE  /\ After(requests, i - 1).window \in Windows /\ After(requests, i).window \in Windows
         /\ Ticked(After(requests, i - 1).window, After(requests, i).window, requests[i].time)
         /\ Decided(requests, After(requests, i - 1), After(requests, i), i)
  <1>1. i - 1 \in 0..Len(requests) /\ i \in 0..Len(requests)
    BY DEF Fates
  <1>2. After(requests, i - 1).window \in Windows /\ After(requests, i).window \in Windows
    BY <1>1, WindowAfter
  <1>3. After(requests, i) = GatewayAfter(requests, After(requests, i - 1), i)
    BY GatewaySteps DEF After
  <1> QED
    BY <1>2, <1>3, GatewayDecides DEF Windows

\* How many of some requests were let through by Redis or by memory.
Through(requests, i, j, by) == Cardinality({k \in i..j : After(requests, k).by = by})

LEMMA ThroughCounts ==
  ASSUME NEW requests, NEW by, NEW i \in Nat, NEW j \in Nat, i <= j + 1
  PROVE  /\ Through(requests, i, j, by) \in Nat /\ (i = j + 1 => Through(requests, i, j, by) = 0)
         /\ Through(requests, i, j + 1, by)
              = Through(requests, i, j, by) + (IF After(requests, j + 1).by = by THEN 1 ELSE 0)
  <1> DEFINE S(n) == {k \in i..n : After(requests, k).by = by}
  <1>1. IsFiniteSet(S(j))
    <2>1. IsFiniteSet(i..j)
      BY FS_Interval
    <2> QED
      BY <2>1, FS_Subset
  <1>2. Cardinality(S(j)) \in Nat
    BY <1>1, FS_CardinalityType
  <1>3. i = j + 1 => Cardinality(S(j)) = 0
    <2>1. i = j + 1 => S(j) = {}
      OBVIOUS
    <2> QED
      BY <2>1, FS_EmptySet
  <1>4. /\ Through(requests, i, j, by) = Cardinality(S(j))
        /\ Through(requests, i, j + 1, by) = Cardinality(S(j + 1))
    BY DEF Through
  <1>5. CASE After(requests, j + 1).by = by
    <2>1. S(j + 1) = S(j) \cup {j + 1} /\ j + 1 \notin S(j)
      BY <1>5
    <2>2. Cardinality(S(j) \cup {j + 1}) = Cardinality(S(j)) + 1
      BY <1>1, <2>1, FS_AddElement
    <2> QED
      BY <1>2, <1>3, <1>4, <1>5, <2>1, <2>2
  <1>6. CASE After(requests, j + 1).by # by
    <2>1. S(j + 1) = S(j)
      BY <1>6
    <2> HIDE DEF S
    <2> QED
      BY <1>2, <1>3, <1>4, <1>6, <2>1
  <1> QED
    BY <1>5, <1>6

\* What Redis let through since the time t: no more than the window has counted, and the limit; or,
\* when a window began since, that and the limit once more.
SinceAt(n, w, t) ==
  \/ n <= w.count /\ n <= GatewayLimit
  \/ t + Minute <= w.ends /\ n <= GatewayLimit + w.count /\ n <= 2 * GatewayLimit

LEMMA SinceStep ==
  ASSUME NEW n \in Nat, NEW m \in Nat, NEW w \in Windows, NEW v \in Windows, NEW t \in Nat, NEW u \in Nat,
         t <= u, u < t + Minute, SinceAt(n, w, t),
         \/ m = n /\ Ticked(w, v, u)
         \/ m = n + 1 /\ v = Counted(w, u) /\ v.count <= GatewayLimit
  PROVE  SinceAt(m, v, t)
  <1>0. /\ Minute \in Nat \ {0} /\ GatewayLimit \in Nat \ {0}
        /\ w.count \in Nat /\ w.ends \in Nat /\ v.count \in Nat /\ v.ends \in Nat
    BY RatesAssumption DEF Windows
  <1> DEFINE a == w.count
             b == w.ends
             c == v.count
             d == v.ends
             L == GatewayLimit
  <1>1. /\ \/ m = n
           \/ m = n + 1 /\ c <= L /\ ~(c = a /\ d = b)
        /\ \/ c = a /\ d = b
           \/ u >= b /\ c = 1 /\ d = u + Minute
           \/ ~(u >= b) /\ c = a + 1 /\ d = b
    <2>1. CASE m = n /\ Ticked(w, v, u)
      BY <2>1 DEF Ticked
    <2>2. CASE m = n + 1 /\ v = Counted(w, u) /\ v.count <= GatewayLimit
      <3>1. IF u >= b THEN c = 1 /\ d = u + Minute ELSE c = a + 1 /\ d = b
        BY <2>2, CountedTicks DEF Windows
      <3> QED
        BY <1>0, <2>2, <3>1
    <2> QED
      BY <2>1, <2>2
  <1>2. \/ n <= a /\ n <= L
        \/ t + Minute <= b /\ n <= L + a /\ n <= 2 * L
    BY DEF SinceAt
  <1> HIDE DEF a, b, c, d, L
  <1>3. a \in Nat /\ b \in Nat /\ c \in Nat /\ d \in Nat /\ L \in Nat \ {0}
    BY <1>0 DEF a, b, c, d, L
  <1>4. \/ m <= c /\ m <= L
        \/ t + Minute <= d /\ m <= L + c /\ m <= 2 * L
    BY <1>0, <1>1, <1>2, <1>3
  <1> QED
    BY <1>4 DEF SinceAt, c, d, L

LEMMA SpansNest ==
  ASSUME NEW a \in Nat, NEW b \in Nat, NEW c \in Nat, NEW d \in Nat,
         a <= b, c <= d, d - a < Minute
  PROVE  c - b < Minute /\ c < a + Minute
  BY RatesAssumption

LEMMA RedisSince ==
  ASSUME NEW requests, Fates(requests), NEW i \in 1..Len(requests), NEW j \in i..Len(requests),
         requests[j].time - requests[i].time < Minute
  PROVE  SinceAt(Through(requests, i, j, "redis"), After(requests, j).window, requests[i].time)
  <1> DEFINE ok(m) == SinceAt(Through(requests, i, m, "redis"), After(requests, m).window, requests[i].time)
             T == {n \in Nat : i + n <= j + 1 => ok((i + n) - 1)}
  <1>0. Len(requests) \in Nat /\ i \in Nat /\ j \in Nat /\ j <= Len(requests) /\ 1 <= i
    BY DEF Fates
  <1>1. 0 \in T
    <2> DEFINE h == i - 1
    <2>1. h \in Nat /\ h \in 0..Len(requests) /\ i = h + 1 /\ (i + 0) - 1 = h
      BY <1>0
    <2> HIDE DEF h
    <2>2. Through(requests, i, h, "redis") = 0
      BY <1>0, <2>1, ThroughCounts
    <2>3. After(requests, h).window.count \in Nat
      BY <2>1, WindowAfter DEF Windows
    <2>4. ok(h)
      BY <2>2, <2>3, RatesAssumption DEF SinceAt
    <2> QED
      BY <2>1, <2>4
  <1>2. ASSUME NEW n \in Nat, n \in T PROVE n + 1 \in T
    <2> SUFFICES ASSUME i + (n + 1) <= j + 1 PROVE ok((i + (n + 1)) - 1)
      OBVIOUS
    <2> DEFINE k == i + n
               o == Through(requests, i, k - 1, "redis")
               m == Through(requests, i, k, "redis")
               w == After(requests, k - 1).window
               v == After(requests, k).window
               t == requests[i].time
               u == requests[k].time
    <2>1. /\ k \in 1..Len(requests) /\ k \in i..Len(requests) /\ k - 1 \in Nat /\ (k - 1) + 1 = k
          /\ i <= (k - 1) + 1 /\ j \in k..Len(requests) /\ (i + (n + 1)) - 1 = k /\ i + n <= j + 1
      BY <1>0
    <2>2. ok(k - 1)
      BY <1>2, <2>1
    <2> HIDE DEF k
    <2>3. o \in Nat /\ m = o + (IF After(requests, k).by = "redis" THEN 1 ELSE 0)
      <3> DEFINE h == k - 1
      <3>1. h \in Nat /\ k = h + 1 /\ i <= h + 1
        BY <2>1
      <3> HIDE DEF h
      <3>2. /\ Through(requests, i, h, "redis") \in Nat
            /\ Through(requests, i, h + 1, "redis")
                 = Through(requests, i, h, "redis") + (IF After(requests, h + 1).by = "redis" THEN 1 ELSE 0)
        BY <1>0, <3>1, ThroughCounts
      <3> QED
        BY <3>1, <3>2 DEF h
    <2>4. /\ w \in Windows /\ v \in Windows /\ Ticked(w, v, u)
          /\ Decided(requests, After(requests, k - 1), After(requests, k), k)
      BY <2>1, GatewayGoesOn
    <2>5. t \in Nat /\ u \in Nat /\ t <= u /\ u < t + Minute
      <3>1. u <= requests[j].time /\ t <= u
        BY <2>1, FatesGrow
      <3>2. t \in Nat /\ u \in Nat /\ requests[j].time \in Nat
        BY <1>0, <2>1, FateAt
      <3> QED
        BY <3>1, <3>2, SpansNest
    <2>6. \/ m = o /\ Ticked(w, v, u)
          \/ m = o + 1 /\ v = Counted(w, u) /\ v.count <= GatewayLimit
      <3>1. CASE After(requests, k).by = "redis"
        BY <2>3, <2>4, <3>1 DEF Decided
      <3>2. CASE After(requests, k).by # "redis"
        BY <2>3, <2>4, <3>2
      <3> QED
        BY <3>1, <3>2
    <2>7. m \in Nat /\ SinceAt(o, w, t)
      BY <2>2, <2>3
    <2> HIDE DEF o, m, w, v, t, u
    <2>8. SinceAt(m, v, t)
      BY <2>3, <2>4, <2>5, <2>6, <2>7, SinceStep
    <2> QED
      BY <2>1, <2>8 DEF m, v, t
  <1> HIDE DEF T
  <1>3. (j + 1) - i \in T /\ i + ((j + 1) - i) = j + 1 /\ (j + 1) - 1 = j
    <2>1. (j + 1) - i \in Nat /\ i + ((j + 1) - i) = j + 1 /\ (j + 1) - 1 = j
      BY <1>0
    <2> QED
      BY <1>1, <1>2, <2>1, NoFirstFailure
  <1> QED
    BY <1>0, <1>3 DEF T

\* The hits are requests that came, no more than the limit.
HitsAre(requests, i) ==
  LET hits == After(requests, i).hits
  IN  hits \subseteq 1..i /\ IsFiniteSet(hits) /\ Cardinality(hits) <= GatewayLimit

LEMMA RecentAre ==
  ASSUME NEW requests, NEW hits, IsFiniteSet(hits), NEW i
  PROVE  LET recent == Recent(requests, hits, i)
         IN  /\ recent \subseteq hits /\ IsFiniteSet(recent) /\ Cardinality(recent) \in Nat
             /\ Cardinality(recent) <= Cardinality(hits)
  BY FS_Subset, FS_CardinalityType DEF Recent

LEMMA HitsStep ==
  ASSUME NEW requests, Fates(requests), NEW i \in 1..Len(requests), HitsAre(requests, i - 1)
  PROVE  HitsAre(requests, i)
  <1> DEFINE old == After(requests, i - 1).hits
             new == After(requests, i).hits
             recent == Recent(requests, old, i)
  <1>0. i \in Nat /\ i >= 1 /\ GatewayLimit \in Nat
    BY RatesAssumption DEF Fates
  <1>1. old \subseteq 1..i - 1 /\ IsFiniteSet(old) /\ Cardinality(old) <= GatewayLimit
    BY DEF HitsAre
  <1>2. recent \subseteq old /\ IsFiniteSet(recent) /\ Cardinality(recent) \in Nat
    BY <1>1, RecentAre
  <1>3. new = old \/ (new = recent \cup {i} /\ ~(Cardinality(recent) >= GatewayLimit))
    BY GatewayGoesOn DEF Decided
  <1> HIDE DEF old, new, recent
  <1>4. CASE new = old
    <2>1. 1..i - 1 \subseteq 1..i
      BY <1>0
    <2> QED
      BY <1>1, <1>4, <2>1 DEF HitsAre, old, new
  <1>5. CASE new = recent \cup {i} /\ ~(Cardinality(recent) >= GatewayLimit)
    <2>1. i \notin recent /\ recent \cup {i} \subseteq 1..i
      BY <1>0, <1>1, <1>2
    <2>2. IsFiniteSet(recent \cup {i}) /\ Cardinality(recent \cup {i}) = Cardinality(recent) + 1
      BY <1>2, <2>1, FS_AddElement
    <2>3. Cardinality(new) <= GatewayLimit
      BY <1>0, <1>2, <1>5, <2>2
    <2> QED
      BY <1>5, <2>1, <2>2, <2>3 DEF HitsAre, new
  <1> QED
    BY <1>3, <1>4, <1>5

LEMMA HitsHold ==
  ASSUME NEW requests, Fates(requests), NEW i \in 0..Len(requests)
  PROVE  HitsAre(requests, i)
  <1> DEFINE T == {n \in Nat : n <= Len(requests) => HitsAre(requests, n)}
  <1>0. Len(requests) \in Nat
    BY DEF Fates
  <1>1. 0 \in T
    <2>1. After(requests, 0).hits = {}
      BY GatewaySteps DEF After, Start
    <2> QED
      BY <2>1, FS_EmptySet, RatesAssumption DEF HitsAre
  <1>2. ASSUME NEW n \in Nat, n \in T PROVE n + 1 \in T
    <2> SUFFICES ASSUME n + 1 <= Len(requests) PROVE HitsAre(requests, n + 1)
      OBVIOUS
    <2>1. n + 1 \in 1..Len(requests) /\ (n + 1) - 1 = n /\ n <= Len(requests)
      BY <1>0
    <2> QED
      BY <1>2, <2>1, HitsStep
  <1> HIDE DEF T
  <1>3. i \in T
    BY <1>0, <1>1, <1>2, NoFirstFailure
  <1> QED
    BY <1>0, <1>3 DEF T

\* What memory let through in the last minute is among its hits.
LEMMA MemoryRemembers ==
  ASSUME NEW requests, Fates(requests), NEW i \in 1..Len(requests), NEW j \in i..Len(requests),
         requests[j].time - requests[i].time < Minute
  PROVE  {k \in i..j : After(requests, k).by = "memory"} \subseteq After(requests, j).hits
  <1> DEFINE M(m) == {k \in i..m : After(requests, k).by = "memory"}
             hits(m) == After(requests, m).hits
             T == {n \in Nat : i + n <= j + 1 => M((i + n) - 1) \subseteq hits((i + n) - 1)}
  <1>0. Len(requests) \in Nat /\ i \in Nat /\ j \in Nat /\ j <= Len(requests) /\ 1 <= i
    BY DEF Fates
  <1>1. 0 \in T
    <2>1. (i + 0) - 1 = i - 1 /\ i..i - 1 = {}
      BY <1>0
    <2> QED
      BY <2>1
  <1>2. ASSUME NEW n \in Nat, n \in T PROVE n + 1 \in T
    <2> SUFFICES ASSUME i + (n + 1) <= j + 1 PROVE M((i + (n + 1)) - 1) \subseteq hits((i + (n + 1)) - 1)
      OBVIOUS
    <2> DEFINE k == i + n
    <2>1. /\ k \in 1..Len(requests) /\ k \in i..Len(requests) /\ k \in Nat /\ i <= k
          /\ j \in k..Len(requests) /\ (i + (n + 1)) - 1 = k /\ i + n <= j + 1
      BY <1>0
    <2>2. M(k - 1) \subseteq hits(k - 1)
      BY <1>2, <2>1
    <2> HIDE DEF k
    <2>3. Decided(requests, After(requests, k - 1), After(requests, k), k)
      BY <2>1, GatewayGoesOn
    <2>4. M(k) \subseteq M(k - 1) \cup {k} /\ (After(requests, k).by # "memory" => M(k) \subseteq M(k - 1))
      <3>1. \A x \in i..k : x = k \/ x \in i..k - 1
        BY <1>0, <2>1
      <3> QED
        BY <3>1
    <2>5. ASSUME hits(k) = hits(k - 1), After(requests, k).by # "memory" PROVE M(k) \subseteq hits(k)
      <3> HIDE DEF M, hits
      <3> QED
        BY <2>2, <2>4, <2>5
    <2>6. ASSUME hits(k) = Recent(requests, hits(k - 1), k) \cup {k} PROVE M(k) \subseteq hits(k)
      <3> SUFFICES ASSUME NEW x \in M(k - 1) PROVE x \in Recent(requests, hits(k - 1), k)
        <4> HIDE DEF M, hits
        <4> QED
          BY <2>4, <2>6
      <3>1. x \in hits(k - 1) /\ x \in i..k /\ x \in 1..Len(requests) /\ x \in i..Len(requests)
        BY <1>0, <2>1, <2>2
      <3>2. requests[i].time <= requests[x].time /\ requests[k].time <= requests[j].time
        BY <2>1, <3>1, FatesGrow
      <3>3. /\ requests[i].time \in Nat /\ requests[x].time \in Nat /\ requests[k].time \in Nat
            /\ requests[j].time \in Nat /\ Minute \in Nat
        <4>1. i \in 1..Len(requests) /\ j \in 1..Len(requests)
          OBVIOUS
        <4>2. k \in 1..Len(requests) /\ x \in 1..Len(requests)
          BY <2>1, <3>1
        <4> QED
          BY <4>1, <4>2, FateAt, RatesAssumption
      <3>4. requests[k].time - requests[x].time < Minute
        BY <3>2, <3>3, SpansNest
      <3> QED
        BY <3>1, <3>4 DEF Recent
    <2>7. M(k) \subseteq hits(k)
      <3>1. \/ hits(k) = hits(k - 1) /\ After(requests, k).by # "memory"
            \/ hits(k) = Recent(requests, hits(k - 1), k) \cup {k}
        BY <2>3 DEF Decided
      <3> QED
        BY <2>5, <2>6, <3>1
    <2> QED
      BY <2>1, <2>7
  <1> HIDE DEF T
  <1>3. (j + 1) - i \in T /\ i + ((j + 1) - i) = j + 1 /\ (j + 1) - 1 = j
    <2>1. (j + 1) - i \in Nat /\ i + ((j + 1) - i) = j + 1 /\ (j + 1) - 1 = j
      BY <1>0
    <2> QED
      BY <1>1, <1>2, <2>1, NoFirstFailure
  <1> QED
    BY <1>0, <1>3 DEF T

\* The window has counted no more than came since its begin.
Since(requests, i, ends) == {j \in 1..i : requests[j].time + Minute >= ends}
CountedSince(requests, i) ==
  LET w == After(requests, i).window
  IN  /\ w.count <= Cardinality(Since(requests, i, w.ends))
      /\ i > 0 => w.ends <= requests[i].time + Minute

LEMMA SinceGrows ==
  ASSUME NEW requests, NEW i \in Nat \ {0}, NEW ends
  PROVE  /\ IsFiniteSet(Since(requests, i - 1, ends)) /\ IsFiniteSet(Since(requests, i, ends))
         /\ Cardinality(Since(requests, i - 1, ends)) \in Nat /\ Cardinality(Since(requests, i, ends)) \in Nat
         /\ Cardinality(Since(requests, i - 1, ends)) <= Cardinality(Since(requests, i, ends))
         /\ requests[i].time + Minute >= ends =>
              Cardinality(Since(requests, i, ends)) = Cardinality(Since(requests, i - 1, ends)) + 1
  <1> DEFINE old == Since(requests, i - 1, ends)
             new == Since(requests, i, ends)
  <1>1. old \subseteq 1..i - 1 /\ new \subseteq 1..i /\ old \subseteq new /\ i \notin old
    BY DEF Since
  <1>2. requests[i].time + Minute >= ends => new = old \cup {i}
    BY DEF Since
  <1> HIDE DEF old, new
  <1>3. IsFiniteSet(1..i)
    BY FS_Interval
  <1>4. IsFiniteSet(new) /\ IsFiniteSet(old) /\ Cardinality(old) \in Nat /\ Cardinality(new) \in Nat
        /\ Cardinality(old) <= Cardinality(new)
    BY <1>1, <1>3, FS_Subset, FS_CardinalityType
  <1>5. Cardinality(old \cup {i}) = Cardinality(old) + 1
    BY <1>1, <1>4, FS_AddElement
  <1> QED
    BY <1>2, <1>4, <1>5 DEF old, new

LEMMA CountedSinceStep ==
  ASSUME NEW requests, Fates(requests), NEW i \in 1..Len(requests), CountedSince(requests, i - 1)
  PROVE  CountedSince(requests, i)
  <1> DEFINE w == After(requests, i - 1).window
             v == After(requests, i).window
             u == requests[i].time
             size(k, e) == Cardinality(Since(requests, k, e))
  <1>0. i \in Nat \ {0} /\ u \in Nat /\ Minute \in Nat
    BY FateAt, RatesAssumption DEF Fates
  <1>1. w \in Windows /\ v \in Windows /\ Ticked(w, v, u)
    BY GatewayGoesOn
  <1>2. w.count \in Nat /\ w.ends \in Nat /\ v.count \in Nat /\ v.ends \in Nat
    BY <1>1 DEF Windows
  <1>3. w.count <= size(i - 1, w.ends) /\ (i - 1 > 0 => w.ends <= requests[i - 1].time + Minute)
    BY DEF CountedSince
  <1>4. w.ends <= u + Minute \/ i = 1
    <2>1. i # 1 => requests[i - 1].time <= u /\ requests[i - 1].time \in Nat
      BY FateAt
    <2> QED
      BY <1>0, <1>2, <1>3, <2>1
  <1>5. i = 1 => w.ends = 0
    BY GatewaySteps DEF After, Start
  <1>6. w.ends <= u + Minute
    BY <1>0, <1>4, <1>5
  <1>7. ASSUME NEW e
        PROVE  /\ size(i - 1, e) \in Nat /\ size(i, e) \in Nat /\ size(i - 1, e) <= size(i, e)
               /\ u + Minute >= e => size(i, e) = size(i - 1, e) + 1
    BY <1>0, SinceGrows
  <1> HIDE DEF w, v, u, size
  <1>8. CASE v = w
    <2>1. w.count <= size(i, w.ends)
      BY <1>2, <1>3, <1>7
    <2> QED
      BY <1>6, <1>8, <2>1 DEF CountedSince, v, u, size
  <1>9. CASE v.count = 1 /\ v.ends = u + Minute
    <2>1. 1 <= size(i, v.ends) /\ v.ends <= u + Minute
      BY <1>0, <1>7, <1>9
    <2> QED
      BY <1>9, <2>1 DEF CountedSince, v, u, size
  <1>10. CASE v.count = w.count + 1 /\ v.ends = w.ends
    <2>1. size(i, w.ends) = size(i - 1, w.ends) + 1 /\ size(i - 1, w.ends) \in Nat
      BY <1>0, <1>2, <1>6, <1>7
    <2>2. w.count + 1 <= size(i, w.ends)
      BY <1>2, <1>3, <2>1
    <2> QED
      BY <1>6, <1>10, <2>2 DEF CountedSince, v, u, size
  <1> QED
    BY <1>1, <1>8, <1>9, <1>10 DEF Ticked

LEMMA CountedSinceHolds ==
  ASSUME NEW requests, Fates(requests), NEW i \in 0..Len(requests)
  PROVE  CountedSince(requests, i)
  <1> DEFINE T == {n \in Nat : n <= Len(requests) => CountedSince(requests, n)}
  <1>0. Len(requests) \in Nat
    BY DEF Fates
  <1>1. 0 \in T
    <2>1. After(requests, 0).window.count = 0
      BY GatewaySteps DEF After, Start
    <2>2. Since(requests, 0, After(requests, 0).window.ends) = {}
      BY DEF Since
    <2> QED
      BY <2>1, <2>2, FS_EmptySet DEF CountedSince
  <1>2. ASSUME NEW n \in Nat, n \in T PROVE n + 1 \in T
    <2> SUFFICES ASSUME n + 1 <= Len(requests) PROVE CountedSince(requests, n + 1)
      OBVIOUS
    <2>1. n + 1 \in 1..Len(requests) /\ (n + 1) - 1 = n /\ n <= Len(requests)
      BY <1>0
    <2> QED
      BY <1>2, <2>1, CountedSinceStep
  <1> HIDE DEF T
  <1>3. i \in T
    BY <1>0, <1>1, <1>2, NoFirstFailure
  <1> QED
    BY <1>0, <1>3 DEF T

\* What came in the minute before a request.
Before(requests, i) == {j \in 1..i - 1 : requests[i].time - requests[j].time < Minute}

LEMMA RefusedOften ==
  ASSUME NEW requests, Fates(requests), NEW i \in 1..Len(requests), After(requests, i).by = "none"
  PROVE  Cardinality(Before(requests, i)) >= GatewayLimit
  <1> DEFINE old == After(requests, i - 1)
             new == After(requests, i)
             u == requests[i].time
             recent == Recent(requests, old.hits, i)
  <1>0. i \in Nat \ {0} /\ u \in Nat /\ Minute \in Nat /\ GatewayLimit \in Nat \ {0} /\ Len(requests) \in Nat
    BY FateAt, RatesAssumption DEF Fates
  <1>1. IsFiniteSet(Before(requests, i)) /\ Cardinality(Before(requests, i)) \in Nat
    <2>1. IsFiniteSet(1..i - 1) /\ Before(requests, i) \subseteq 1..i - 1
      <3>1. i - 1 \in Int
        BY <1>0
      <3>2. IsFiniteSet(1..i - 1)
        BY <3>1, FS_Interval
      <3> QED
        BY <3>2 DEF Before
    <2> QED
      BY <2>1, FS_Subset, FS_CardinalityType
  <1>2. \/ Cardinality(recent) >= GatewayLimit
        \/ new.window = Counted(old.window, u) /\ ~(new.window.count <= GatewayLimit)
    BY GatewayGoesOn DEF Decided
  <1>3. CASE Cardinality(recent) >= GatewayLimit
    <2>1. i - 1 \in 0..Len(requests)
      BY <1>0
    <2>2. old.hits \subseteq 1..i - 1
      BY <2>1, HitsHold DEF HitsAre
    <2>3. recent \subseteq Before(requests, i)
      BY <2>2 DEF Recent, Before
    <2>4. Cardinality(recent) <= Cardinality(Before(requests, i)) /\ Cardinality(recent) \in Nat
      <3> HIDE DEF recent
      <3> QED
        BY <1>1, <2>3, FS_Subset, FS_CardinalityType
    <2> DEFINE r == Cardinality(recent)
               n == Cardinality(Before(requests, i))
               l == GatewayLimit
    <2>5. r \in Nat /\ n \in Nat /\ l \in Nat /\ r <= n /\ r >= l
      BY <1>0, <1>1, <1>3, <2>4
    <2> HIDE DEF r, n, l
    <2>6. n >= l
      BY <2>5
    <2> QED
      BY <2>6 DEF n, l
  <1>4. CASE new.window = Counted(old.window, u) /\ ~(new.window.count <= GatewayLimit)
    <2> DEFINE e == new.window.ends
               n == new.window.count
    <2>1. old.window \in Windows /\ new.window \in Windows /\ e \in Nat /\ n \in Nat
      BY GatewayGoesOn DEF Windows
    <2>2. IF u >= old.window.ends THEN n = 1 /\ e = u + Minute ELSE n = old.window.count + 1 /\ e = old.window.ends
      <3> DEFINE w == old.window
                 v == new.window
      <3>1. w \in [count : Nat, ends : Nat] /\ u \in Nat /\ v = Counted(w, u)
        BY <1>0, <1>4, <2>1 DEF Windows
      <3> HIDE DEF u, w, v
      <3>2. IF u >= w.ends THEN v.count = 1 /\ v.ends = u + Minute ELSE v.count = w.count + 1 /\ v.ends = w.ends
        BY <3>1, CountedTicks
      <3> QED
        BY <3>2 DEF w, v
    <2>3. ~(u >= e) /\ n > GatewayLimit
      <3>1. old.window.ends \in Nat
        BY <2>1 DEF Windows
      <3>2. n > GatewayLimit
        BY <1>0, <1>4, <2>1
      <3> QED
        BY <1>0, <2>1, <2>2, <3>1, <3>2
    <2>4. n <= Cardinality(Since(requests, i, e)) /\ e <= u + Minute
      BY <1>0, CountedSinceHolds DEF CountedSince
    <2>5. /\ Cardinality(Since(requests, i, e)) = Cardinality(Since(requests, i - 1, e)) + 1
          /\ Cardinality(Since(requests, i - 1, e)) \in Nat
      BY <1>0, <2>1, <2>4, SinceGrows
    <2>6. Since(requests, i - 1, e) \subseteq Before(requests, i)
      <3> SUFFICES ASSUME NEW j \in 1..i - 1, requests[j].time + Minute >= e
                   PROVE  u - requests[j].time < Minute
        BY DEF Since, Before
      <3>1. requests[j].time \in Nat
        <4>1. j \in 1..Len(requests)
          BY <1>0
        <4> QED
          BY <4>1, FateAt
      <3> HIDE DEF e, u, n
      <3> QED
        BY <1>0, <2>1, <2>3, <3>1
    <2>7. Cardinality(Since(requests, i - 1, e)) <= Cardinality(Before(requests, i))
      BY <1>1, <2>6, FS_Subset
    <2> DEFINE a == Cardinality(Since(requests, i, e))
               b == Cardinality(Since(requests, i - 1, e))
               d == Cardinality(Before(requests, i))
               l == GatewayLimit
    <2>8. /\ n \in Nat /\ b \in Nat /\ d \in Nat /\ l \in Nat
          /\ n > l /\ n <= a /\ a = b + 1 /\ b <= d
      BY <1>0, <1>1, <2>1, <2>3, <2>4, <2>5, <2>7
    <2> HIDE DEF a, b, d, l, n, e
    <2>9. d >= l
      BY <2>8
    <2> QED
      BY <2>9 DEF d, l
  <1> QED
    BY <1>2, <1>3, <1>4

LEMMA GatewayKeepsLimits ==
  ASSUME NEW requests, Fates(requests)
  PROVE  GatewayLimits(requests)
  <1> DEFINE span(i, j) == requests[j].time - requests[i].time
  <1>0. DOMAIN requests = 1..Len(requests) /\ Len(requests) \in Nat
    BY DEF Fates
  <1>1. ASSUME NEW i \in 1..Len(requests), NEW j \in i..Len(requests), span(i, j) < Minute
        PROVE  Cardinality({k \in i..j : Gateway(requests)[k].by = "redis"}) <= 2 * GatewayLimit
    <2>1. SinceAt(Through(requests, i, j, "redis"), After(requests, j).window, requests[i].time)
      BY <1>1, RedisSince
    <2>2. Through(requests, i, j, "redis") \in Nat
      BY <1>0, ThroughCounts
    <2>3. Through(requests, i, j, "redis") <= 2 * GatewayLimit
      BY <2>1, <2>2, RatesAssumption DEF SinceAt
    <2> QED
      BY <2>3 DEF Through, After
  <1>2. ASSUME NEW i \in 1..Len(requests), NEW j \in i..Len(requests), span(i, j) < Minute
        PROVE  Cardinality({k \in i..j : Gateway(requests)[k].by = "memory"}) <= GatewayLimit
    <2> DEFINE M == {k \in i..j : After(requests, k).by = "memory"}
    <2>1. M \subseteq After(requests, j).hits
      BY <1>2, MemoryRemembers
    <2>2. j \in 0..Len(requests)
      BY <1>0
    <2>3. IsFiniteSet(After(requests, j).hits) /\ Cardinality(After(requests, j).hits) <= GatewayLimit
      BY <2>2, HitsHold DEF HitsAre
    <2>4. M = {k \in i..j : Gateway(requests)[k].by = "memory"}
      BY DEF After
    <2> HIDE DEF M
    <2>5. /\ Cardinality(M) <= Cardinality(After(requests, j).hits) /\ Cardinality(M) \in Nat
          /\ Cardinality(After(requests, j).hits) \in Nat
      BY <2>1, <2>3, FS_Subset, FS_CardinalityType
    <2>6. Cardinality(M) <= GatewayLimit
      BY <2>3, <2>5, RatesAssumption
    <2> QED
      BY <2>4, <2>6
  <1>3. ASSUME NEW i \in 1..Len(requests), Gateway(requests)[i].by = "none"
        PROVE  Cardinality({j \in 1..(i - 1) : span(j, i) < Minute}) >= GatewayLimit
    <2>1. Cardinality(Before(requests, i)) >= GatewayLimit
      BY <1>3, RefusedOften DEF After
    <2> QED
      BY <2>1 DEF Before
  <1> QED
    BY <1>0, <1>1, <1>2, <1>3 DEF GatewayLimits

-----------------------------------------------------------------------------
(* The sequences of requests a run goes through are among them.            *)

LEMMA TimesGoOn ==
  ASSUME NEW gaps \in [2..6 -> Nat]
  PROVE  /\ \A i \in 1..6 : Times(gaps)[i] \in Nat
         /\ \A i \in 2..6 : Times(gaps)[i - 1] <= Times(gaps)[i]
  <1> DEFINE Adds(f) == f = [i \in 1..6 |-> IF i = 1 THEN 0 ELSE f[i - 1] + gaps[i]]
             h == [i \in 1..6 |-> IF i = 1 THEN 0 ELSE IF i = 2 THEN 0 + gaps[2]
                                  ELSE IF i = 3 THEN 0 + gaps[2] + gaps[3]
                                  ELSE IF i = 4 THEN 0 + gaps[2] + gaps[3] + gaps[4]
                                  ELSE IF i = 5 THEN 0 + gaps[2] + gaps[3] + gaps[4] + gaps[5]
                                  ELSE 0 + gaps[2] + gaps[3] + gaps[4] + gaps[5] + gaps[6]]
             t == CHOOSE f : Adds(f)
  <1>1. /\ h = [i \in 1..6 |-> h[i]] /\ h[1] = 0 /\ h[2] = h[1] + gaps[2] /\ h[3] = h[2] + gaps[3]
        /\ h[4] = h[3] + gaps[4] /\ h[5] = h[4] + gaps[5] /\ h[6] = h[5] + gaps[6]
    OBVIOUS
  <1> HIDE DEF h
  <1>2. \A i \in 1..6 : h[i] = IF i = 1 THEN 0 ELSE h[i - 1] + gaps[i]
    <2>1. \A i \in 1..6 : i = 1 \/ i = 2 \/ i = 3 \/ i = 4 \/ i = 5 \/ i = 6
      OBVIOUS
    <2> QED
      BY <1>1, <2>1
  <1>3. Adds(h)
    BY <1>1, <1>2
  <1>4. Adds(t)
    BY <1>3
  <1>5. Times(gaps) = t
    BY DEF Times
  <1> HIDE DEF t
  <1>6. \A i \in 1..6 : t[i] = IF i = 1 THEN 0 ELSE t[i - 1] + gaps[i]
    BY <1>4
  <1>7. /\ t[1] = 0 /\ t[2] = t[1] + gaps[2] /\ t[3] = t[2] + gaps[3]
        /\ t[4] = t[3] + gaps[4] /\ t[5] = t[4] + gaps[5] /\ t[6] = t[5] + gaps[6]
    BY <1>6
  <1>8. \A i \in 2..6 : gaps[i] \in Nat
    OBVIOUS
  <1>9. t[1] \in Nat /\ t[2] \in Nat /\ t[3] \in Nat /\ t[4] \in Nat /\ t[5] \in Nat /\ t[6] \in Nat
    BY <1>7, <1>8
  <1>10. \A i \in 1..6 : t[i] \in Nat
    <2>1. \A i \in 1..6 : i = 1 \/ i = 2 \/ i = 3 \/ i = 4 \/ i = 5 \/ i = 6
      OBVIOUS
    <2> QED
      BY <1>9, <2>1
  <1>11. \A i \in 2..6 : t[i - 1] <= t[i]
    <2>1. \A i \in 2..6 : t[i] = t[i - 1] + gaps[i] /\ t[i - 1] \in Nat
      BY <1>6, <1>10
    <2> QED
      BY <1>8, <2>1
  <1> QED
    BY <1>5, <1>10, <1>11

LEMMA IntervalsEnd ==
  ASSUME NEW n \in Nat, NEW m \in Nat, 1..n = 1..m
  PROVE  n = m
  <1>1. n \notin 1..m => n = 0
    OBVIOUS
  <1>2. m \notin 1..n => m = 0
    OBVIOUS
  <1> QED
    BY <1>1, <1>2

LEMMA FunctionsAreSeqs ==
  ASSUME NEW R, NEW n \in Nat, NEW f \in [1..n -> R]
  PROVE  f \in Seq(R) /\ Len(f) = n
  <1>1. f = [i \in 1..n |-> f[i]] /\ \A i \in 1..n : f[i] \in R
    OBVIOUS
  <1>2. [i \in 1..n |-> f[i]] \in Seq(R)
    BY <1>1, IsASeq
  <1>3. Len(f) \in Nat /\ 1..Len(f) = 1..n
    BY <1>1, <1>2, LenProperties
  <1>4. Len(f) = n
    BY <1>3, IntervalsEnd
  <1> QED
    BY <1>1, <1>2, <1>4

LEMMA ReplicasAreSeries ==
  ASSUME NEW requests \in AtReplicas
  PROVE  Series(requests)
  <1>1. PICK gaps \in Pauses, skew \in [1..6 -> {0, MaxSkew}], limits \in Limits :
          requests = [i \in 1..6 |-> [time |-> Times(gaps)[i], clock |-> Times(gaps)[i] + skew[i],
                                     limit |-> limits[i]]]
    BY DEF AtReplicas
  <1>2. gaps \in [2..6 -> Nat] /\ MaxSkew \in Nat
    BY RatesAssumption DEF Pauses
  <1>3. \A i \in 1..6 : limits[i] \in {RateLimit, LoginLimit}
    BY DEF Limits
  <1> DEFINE t(i) == Times(gaps)[i]
  <1>4. (\A i \in 1..6 : t(i) \in Nat) /\ (\A i \in 2..6 : t(i - 1) <= t(i))
    BY <1>2, TimesGoOn
  <1> HIDE DEF t
  <1>5. \A i \in 1..6 : skew[i] \in Nat /\ skew[i] <= MaxSkew
    BY <1>2
  <1>6. requests = [i \in 1..6 |-> [time |-> t(i), clock |-> t(i) + skew[i], limit |-> limits[i]]]
    BY <1>1 DEF t
  <1>7. \A i \in 1..6 : /\ requests[i] \in Arrival
                        /\ requests[i].time = t(i) /\ requests[i].clock = t(i) + skew[i]
    BY <1>3, <1>4, <1>5, <1>6 DEF Arrival
  <1>8. requests \in Seq(Arrival) /\ Len(requests) = 6
    <2>1. requests \in [1..6 -> Arrival]
      BY <1>6, <1>7
    <2> DEFINE six == 6
    <2>2. requests \in [1..six -> Arrival] /\ six \in Nat
      BY <2>1
    <2> HIDE DEF six
    <2>3. requests \in Seq(Arrival) /\ Len(requests) = six
      BY <2>2, FunctionsAreSeqs
    <2> QED
      BY <2>3 DEF six
  <1>9. \A i \in 2..6 : requests[i - 1].time <= requests[i].time
    BY <1>4, <1>7
  <1>10. \A i \in 1..6 : requests[i].time <= requests[i].clock /\ requests[i].clock <= requests[i].time + MaxSkew
    <2>1. \A i \in 1..6 : t(i) <= t(i) + skew[i] /\ t(i) + skew[i] <= t(i) + MaxSkew
      BY <1>2, <1>4, <1>5
    <2> QED
      BY <1>7, <2>1
  <1> QED
    BY <1>8, <1>9, <1>10 DEF Series

LEMMA GatewaysAreFates ==
  ASSUME NEW requests \in AtGateway
  PROVE  Fates(requests)
  <1>1. PICK gaps \in Delays, fate \in [1..5 -> {"ok", "down", "lost"}] :
          requests = [i \in 1..5 |-> [time |-> Times(gaps)[i], redis |-> fate[i]]]
    BY DEF AtGateway
  <1>2. gaps \in [2..6 -> Nat]
    BY DEF Delays
  <1> DEFINE t(i) == Times(gaps)[i]
  <1>3. (\A i \in 1..5 : t(i) \in Nat) /\ (\A i \in 2..5 : t(i - 1) <= t(i))
    <2>1. (\A i \in 1..6 : t(i) \in Nat) /\ (\A i \in 2..6 : t(i - 1) <= t(i))
      BY <1>2, TimesGoOn
    <2> QED
      BY <2>1
  <1> HIDE DEF t
  <1>4. requests = [i \in 1..5 |-> [time |-> t(i), redis |-> fate[i]]]
    BY <1>1 DEF t
  <1>5. \A i \in 1..5 : requests[i] \in [time : Nat, redis : {"ok", "down", "lost"}] /\ requests[i].time = t(i)
    BY <1>3, <1>4
  <1>6. requests \in Seq([time : Nat, redis : {"ok", "down", "lost"}]) /\ Len(requests) = 5
    <2>1. requests \in [1..5 -> [time : Nat, redis : {"ok", "down", "lost"}]]
      BY <1>4, <1>5
    <2> DEFINE R == [time : Nat, redis : {"ok", "down", "lost"}]
    <2> DEFINE five == 5
    <2>2. requests \in [1..five -> R] /\ five \in Nat
      BY <2>1
    <2> HIDE DEF R, five
    <2>3. requests \in Seq(R) /\ Len(requests) = five
      BY <2>2, FunctionsAreSeqs
    <2> QED
      BY <2>3 DEF R, five
  <1>7. \A i \in 2..5 : requests[i - 1].time <= requests[i].time
    BY <1>3, <1>5
  <1> QED
    BY <1>6, <1>7 DEF Fates

\* Whatever the clocks of the replicas show, up to a minute apart, and whichever of the two limiters
\* a call is of, a client gets through the token bucket (RateLimiter, RedisRateLimiter) no oftener than
\* the higher limit of its calls and what comes in, with the skew counted once, and once more at the
\* difference of the limits for every call of the lower one; and it gets through when it waited for a
\* token and as much: every series of calls, and so what the service's requests come through
\* (BucketsLimit).  For a bucket of one limiter, in memory, that is its limit; of the bucket two
\* limiters share in Redis it says nothing about the logins alone, which the code does not limit there.
\* With clocks further apart than a minute it is not so: a bucket dropped after two minutes begins full.
THEOREM BucketsAreLimits ==
  ASSUME MaxSkew <= Minute
  PROVE  (\A requests : Series(requests) => BucketLimits(requests)) /\ (Spec => []BucketsLimit)
  <1>1. \A requests : Series(requests) => BucketLimits(requests)
    BY BucketKeepsLimits
  <1>2. AllBuckets
    BY <1>1, ReplicasAreSeries DEF AllBuckets
  <1>3. BucketsLimit
    BY <1>2 DEF BucketsLimit
  <1> QED
    BY <1>1, <1>3, PTL

\* The gateway lets a client through no more than twice its limit in a minute by Redis and the limit
\* by memory, and refuses only who came that often in the last minute, whichever requests found Redis
\* down or did not hear from it (RATE_LIMIT_SCRIPT, _memory_rate_allow): every sequence of requests,
\* and so what the service's requests come through (GatewayKeeps).
THEOREM GatewaysLimit ==
  (\A requests : Fates(requests) => GatewayLimits(requests)) /\ (Spec => []GatewayKeeps)
  <1>1. \A requests : Fates(requests) => GatewayLimits(requests)
    BY GatewayKeepsLimits
  <1>2. AllGateways
    BY <1>1, GatewaysAreFates DEF AllGateways
  <1>3. GatewayKeeps
    BY <1>2 DEF GatewayKeeps
  <1> QED
    BY <1>1, <1>3, PTL

-----------------------------------------------------------------------------
(* The parameters.  A list of semesters is asked for as it stands, and its *)
(* key is the set of them; what the weeks of a segment are does not depend *)
(* on the segments before it, and none is lost while there is room.        *)

LEMMA AllOfThem ==
  ASSUME NEW R, NEW s \in Seq(R), NEW n \in Nat
  PROVE  /\ UpTo(s, n) \in Seq(R) /\ SetOf(UpTo(s, n)) \subseteq SetOf(s)
         /\ Len(UpTo(s, n)) <= Len(s) /\ Len(UpTo(s, n)) <= n
         /\ Len(s) <= n => UpTo(s, n) = s
  <1> DEFINE m == IF Len(s) < n THEN Len(s) ELSE n
             t == SubSeq(s, 1, m)
  <1>0. Len(s) \in Nat /\ DOMAIN s = 1..Len(s)
    BY LenProperties
  <1>1. m \in Nat /\ m <= Len(s) /\ m <= n /\ (Len(s) <= n => m >= Len(s))
    BY <1>0
  <1>2. UpTo(s, n) = t
    BY DEF UpTo
  <1> HIDE DEF m
  <1>3. t \in Seq(R) /\ Len(t) = m /\ (\A i \in 1..m : t[i] = s[i])
    <2>1. m - 1 + 1 = m /\ (m = 0 \/ 1 <= m) /\ \A i \in 1..m : 1 + i - 1 = i /\ s[i] \in R
      BY <1>0, <1>1
    <2> QED
      BY <1>1, <2>1, SubSeqProperties
  <1> HIDE DEF t
  <1>4. DOMAIN t = 1..m
    BY <1>3, LenProperties
  <1>5. SetOf(t) \subseteq SetOf(s)
    <2>1. \A i \in 1..m : i \in 1..Len(s)
      BY <1>0, <1>1
    <2> QED
      BY <1>0, <1>3, <1>4, <2>1 DEF SetOf
  <1>6. Len(s) <= n => t = s
    <2> SUFFICES ASSUME Len(s) <= n PROVE t = s
      OBVIOUS
    <2> DEFINE l == Len(s)
    <2>0. l \in Nat /\ m \in Nat /\ m <= l /\ m >= l
      BY <1>0, <1>1
    <2> HIDE DEF l
    <2>1. l = m
      BY <2>0
    <2> QED
      BY <1>3, <2>1, SeqEqual DEF l
  <1> QED
    BY <1>1, <1>2, <1>3, <1>5, <1>6

\* The forms of the parameter with one key for one meaning: a list of as many semesters as are
\* admitted; or none, "all" and "recent:n", without a comma.
SemesterLists == [parts : {s \in Seq(Nat \ {0}) : Len(s) > 0 /\ Len(s) <= MaxSemesters}, comma : BOOLEAN]
OtherForms    == [parts : {<<>>} \cup {<<n>> : n \in {x \in Int : x <= 0}}, comma : {FALSE}]

LEMMA ListsAreAsked ==
  ASSUME NEW p \in SemesterLists, NEW current, NEW semesters
  PROVE  /\ AskedSemesters(p, current, semesters) = SetOf(p.parts)
         /\ \E i \in DOMAIN p.parts : p.parts[i] > 0
  <1>1. p.parts \in Seq(Nat \ {0}) /\ Len(p.parts) > 0 /\ Len(p.parts) <= MaxSemesters /\ MaxSemesters \in Nat
    BY WeeksAssumption DEF SemesterLists
  <1>2. p.parts # <<>> /\ 1 \in DOMAIN p.parts /\ p.parts[1] \in Nat \ {0}
    BY <1>1
  <1>3. UpTo(p.parts, MaxSemesters) = p.parts
    BY <1>1, AllOfThem
  <1>4. p.parts[1] # All /\ ~(p.parts[1] < 0) /\ p.parts[1] > 0
    BY <1>2 DEF All
  <1> QED
    BY <1>2, <1>3, <1>4 DEF AskedSemesters

LEMMA FormsShare ==
  ASSUME NEW p \in SemesterLists \cup OtherForms, NEW q \in SemesterLists \cup OtherForms,
         NEW current, NEW semesters
  PROVE  SemestersShared(p, q, current, semesters)
  <1>1. ASSUME NEW r \in OtherForms, NEW i \in DOMAIN r.parts PROVE ~(r.parts[i] > 0)
    BY <1>1 DEF OtherForms
  <1>2. ASSUME NEW r \in SemesterLists, NEW o \in OtherForms PROVE SetOf(r.parts) # SetOf(o.parts)
    BY <1>1, <1>2, ListsAreAsked DEF SetOf
  <1>3. CASE p \in SemesterLists /\ q \in SemesterLists
    BY <1>3, ListsAreAsked DEF SemestersShared, SemestersKey
  <1>4. CASE p \in OtherForms /\ q \in OtherForms
    <2> SUFFICES ASSUME SetOf(p.parts) = SetOf(q.parts) PROVE p = q
      BY DEF SemestersShared, SemestersKey
    <2>1. /\ p = [parts |-> p.parts, comma |-> FALSE] /\ q = [parts |-> q.parts, comma |-> FALSE]
          /\ p.parts = <<>> \/ \E n \in Int : p.parts = <<n>>
          /\ q.parts = <<>> \/ \E n \in Int : q.parts = <<n>>
      BY <1>4 DEF OtherForms
    <2>2. SetOf(<<>>) = {} /\ \A n \in Int : SetOf(<<n>>) = {n}
      BY DEF SetOf
    <2>3. CASE p.parts = <<>>
      <3>1. SetOf(q.parts) = {}
        BY <2>2, <2>3
      <3>2. \A n \in Int : q.parts # <<n>>
        BY <2>2, <3>1
      <3> QED
        BY <2>1, <2>3, <3>2
    <2>4. ASSUME NEW n \in Int, p.parts = <<n>> PROVE p.parts = q.parts
      <3>1. SetOf(q.parts) = {n}
        BY <2>2, <2>4
      <3>2. q.parts # <<>>
        BY <2>2, <3>1
      <3>3. PICK m \in Int : q.parts = <<m>>
        BY <2>1, <3>2
      <3>4. {m} = {n}
        BY <2>2, <3>1, <3>3
      <3>5. m = n
        BY <3>4
      <3> QED
        BY <2>4, <3>3, <3>5
    <2> QED
      BY <2>1, <2>3, <2>4
  <1> QED
    BY <1>2, <1>3, <1>4 DEF SemestersShared, SemestersKey

\* The segments there are, and the weeks one of them names.
Segment == {<<>>} \cup {<<a>> : a \in Int} \cup (Int \X Int)
NamedBy(s) == CASE Len(s) = 0 -> {}
                [] Len(s) = 1 -> {Clamp(s[1])}
                [] OTHER -> {Clamp(n) : n \in s[1]..s[2] \cup s[2]..s[1]}
AllWeeks == 1..WeekMax

LEMMA ClampsTo ==
  /\ WeekMax \in Nat \ {0} /\ (\A n \in Int : Clamp(n) \in AllWeeks) /\ (\A x \in AllWeeks : Clamp(x) = x)
  /\ \A a, b \in Int : a <= b => Clamp(a) <= Clamp(b)
  <1>1. WeekMax \in Nat \ {0}
    BY WeeksAssumption
  <1>2. (\A n \in Int : Clamp(n) \in AllWeeks) /\ (\A x \in AllWeeks : Clamp(x) = x)
    BY <1>1 DEF Clamp, AllWeeks
  <1>3. ASSUME NEW a \in Int, NEW b \in Int, a <= b PROVE Clamp(a) <= Clamp(b)
    BY <1>1, <1>3 DEF Clamp
  <1> QED
    BY <1>1, <1>2, <1>3

LEMMA ClampsBetween ==
  ASSUME NEW a \in Int, NEW b \in Int, a <= b
  PROVE  {Clamp(n) : n \in a..b} = Clamp(a)..Clamp(b)
  <1>1. ASSUME NEW n \in a..b PROVE Clamp(n) \in Clamp(a)..Clamp(b)
    <2>1. Clamp(a) <= Clamp(n) /\ Clamp(n) <= Clamp(b)
      BY ClampsTo
    <2>2. Clamp(a) \in Int /\ Clamp(n) \in Int /\ Clamp(b) \in Int
      BY ClampsTo DEF AllWeeks
    <2> QED
      BY <2>1, <2>2
  <1>2. ASSUME NEW x \in Clamp(a)..Clamp(b) PROVE \E n \in a..b : x = Clamp(n)
    <2>1. Clamp(a) \in AllWeeks /\ Clamp(b) \in AllWeeks /\ x \in AllWeeks
      BY ClampsTo DEF AllWeeks
    <2>2. CASE a <= x /\ x <= b
      <3>1. x \in a..b /\ x = Clamp(x)
        BY <2>1, <2>2, ClampsTo DEF AllWeeks
      <3> QED
        BY <3>1
    <2>3. CASE x < a
      BY <2>1, <2>3, WeeksAssumption DEF Clamp, AllWeeks
    <2>4. CASE b < x
      BY <2>1, <2>4, WeeksAssumption DEF Clamp, AllWeeks
    <2> QED
      BY <2>1, <2>2, <2>3, <2>4 DEF AllWeeks
  <1> QED
    BY <1>1, <1>2

LEMMA RangeIsThere ==
  ASSUME NEW a \in AllWeeks, NEW b \in AllWeeks, a <= b
  PROVE  LET r == RangeAsGiven(a, b)
         IN  r \in Seq(AllWeeks) /\ Len(r) <= WeekMax /\ SetOf(r) = a..b
  <1> DEFINE n == b - a + 1
             r == [i \in 1..n |-> a + i - 1]
  <1>1. n \in Nat /\ n <= WeekMax /\ RangeAsGiven(a, b) = r
    BY WeeksAssumption DEF RangeAsGiven, AllWeeks
  <1>2. \A i \in 1..n : r[i] = a + i - 1 /\ a + i - 1 \in a..b
    BY DEF AllWeeks
  <1>3. \A x \in a..b : x \in AllWeeks /\ x - a + 1 \in 1..n /\ a + (x - a + 1) - 1 = x
    BY WeeksAssumption DEF AllWeeks
  <1>4. DOMAIN r = 1..n
    OBVIOUS
  <1>5. r \in [1..n -> AllWeeks]
    BY <1>2, <1>3
  <1> HIDE DEF r, n
  <1>6. r \in Seq(AllWeeks) /\ Len(r) = n
    BY <1>1, <1>5, FunctionsAreSeqs
  <1>7. SetOf(r) = a..b
    <2>1. ASSUME NEW i \in 1..n PROVE r[i] \in a..b
      BY <1>2
    <2>2. ASSUME NEW x \in a..b PROVE \E i \in 1..n : x = r[i]
      BY <1>2, <1>3
    <2> QED
      BY <1>4, <2>1, <2>2 DEF SetOf
  <1> QED
    BY <1>1, <1>6, <1>7

\* What a segment adds: a week, a range, nothing.
LEMMA SegmentNames ==
  ASSUME NEW s \in Segment
  PROVE  /\ OfSegment(s) \in Seq(AllWeeks) /\ SetOf(OfSegment(s)) = NamedBy(s)
         /\ Len(OfSegment(s)) <= WeekMax /\ (Len(s) <= 1 => Len(OfSegment(s)) <= 1)
  <1>0. WeekMax \in Nat \ {0} /\ \A n \in Int : Clamp(n) \in AllWeeks
    BY ClampsTo
  <1>1. CASE s = <<>>
    <2>1. OfSegment(s) = <<>> /\ NamedBy(s) = {}
      BY <1>1 DEF OfSegment, NamedBy
    <2>2. <<>> \in Seq(AllWeeks) /\ SetOf(<<>>) = {} /\ Len(<<>>) = 0
      BY DEF SetOf
    <2> QED
      BY <1>0, <2>1, <2>2
  <1>2. ASSUME NEW a \in Int, s = <<a>>
        PROVE  /\ OfSegment(s) \in Seq(AllWeeks) /\ SetOf(OfSegment(s)) = NamedBy(s)
               /\ Len(OfSegment(s)) = 1
    <2>1. Len(s) = 1 /\ s # <<>> /\ s[1] = a
      BY <1>2
    <2>2. OfSegment(s) = <<Clamp(a)>> /\ NamedBy(s) = {Clamp(a)}
      BY <2>1 DEF OfSegment, NamedBy
    <2> DEFINE x == Clamp(a)
    <2>3. x \in AllWeeks
      BY <1>0
    <2> HIDE DEF x
    <2>4. <<x>> \in Seq(AllWeeks) /\ SetOf(<<x>>) = {x} /\ Len(<<x>>) = 1
      BY <2>3 DEF SetOf
    <2> QED
      BY <2>2, <2>4 DEF x
  <1>3. ASSUME NEW a \in Int, NEW b \in Int, s = <<a, b>>
        PROVE  /\ OfSegment(s) \in Seq(AllWeeks) /\ SetOf(OfSegment(s)) = NamedBy(s)
               /\ Len(OfSegment(s)) <= WeekMax /\ Len(s) = 2
    <2>1. Len(s) = 2 /\ s # <<>> /\ s[1] = a /\ s[2] = b
      BY <1>3
    <2>2. OfSegment(s) = RangeOf(Clamp(a), Clamp(b)) /\ NamedBy(s) = {Clamp(n) : n \in a..b \cup b..a}
      BY <2>1 DEF OfSegment, NamedBy
    <2>3. Clamp(a) \in AllWeeks /\ Clamp(b) \in AllWeeks
      BY <1>0
    <2> DEFINE x == Clamp(a)
               y == Clamp(b)
               r == OfSegment(s)
    <2>4. x \in Int /\ y \in Int
      BY <2>3 DEF AllWeeks, x, y
    <2>5. CASE a <= b
      <3>1. x <= y
        BY <2>5, ClampsTo
      <3>2. RangeOf(x, y) = RangeAsGiven(x, y)
        BY <2>4, <3>1 DEF RangeOf
      <3>3. r \in Seq(AllWeeks) /\ Len(r) <= WeekMax /\ SetOf(r) = x..y
        BY <2>2, <2>3, <3>1, <3>2, RangeIsThere
      <3>4. {Clamp(n) : n \in a..b} = x..y
        BY <2>5, ClampsBetween
      <3>5. a..b \cup b..a = a..b
        BY <2>5
      <3> QED
        BY <2>1, <2>2, <3>3, <3>4, <3>5
    <2>6. CASE b < a
      <3>1. y <= x
        BY <2>6, ClampsTo
      <3>2. RangeOf(x, y) = RangeAsGiven(y, x)
        <4>1. CASE y < x
          BY <4>1 DEF RangeOf
        <4>2. CASE x = y
          BY <2>4, <4>2 DEF RangeOf
        <4> QED
          BY <2>4, <3>1, <4>1, <4>2
      <3>3. r \in Seq(AllWeeks) /\ Len(r) <= WeekMax /\ SetOf(r) = y..x
        BY <2>2, <2>3, <3>1, <3>2, RangeIsThere
      <3>4. {Clamp(n) : n \in b..a} = y..x
        BY <2>6, ClampsBetween
      <3>5. a..b \cup b..a = b..a
        BY <2>6
      <3> QED
        BY <2>1, <2>2, <3>3, <3>4, <3>5
    <2> QED
      BY <2>5, <2>6
  <1>4. s = <<>> \/ (\E a \in Int : s = <<a>>) \/ (\E a, b \in Int : s = <<a, b>>)
    BY DEF Segment
  <1>5. CASE \E a \in Int : s = <<a>>
    BY <1>0, <1>2, <1>5
  <1>6. CASE \E a, b \in Int : s = <<a, b>>
    BY <1>3, <1>6
  <1> QED
    BY <1>1, <1>4, <1>5, <1>6

LEMMA SetsJoin ==
  ASSUME NEW R, NEW s \in Seq(R), NEW t \in Seq(R)
  PROVE  /\ s \o t \in Seq(R) /\ SetOf(s \o t) = SetOf(s) \cup SetOf(t)
         /\ Len(s) \in Nat /\ Len(t) \in Nat /\ Len(s \o t) = Len(s) + Len(t)
  <1> DEFINE u == s \o t
             n == Len(s)
             m == Len(t)
  <1>1. /\ u \in Seq(R) /\ Len(u) = n + m
        /\ \A i \in 1..(n + m) : u[i] = IF i <= n THEN s[i] ELSE t[i - n]
    BY ConcatProperties
  <1>2. n \in Nat /\ m \in Nat /\ DOMAIN s = 1..n /\ DOMAIN t = 1..m
    BY LenProperties
  <1> HIDE DEF u
  <1>3. DOMAIN u = 1..(n + m)
    BY <1>1, LenProperties
  <1> HIDE DEF n, m
  <1>4. ASSUME NEW i \in 1..(n + m) PROVE u[i] \in SetOf(s) \cup SetOf(t)
    <2>1. CASE i <= n
      <3>1. u[i] = s[i] /\ i \in 1..n
        BY <1>1, <1>2, <2>1
      <3> QED
        BY <1>2, <3>1 DEF SetOf
    <2>2. CASE ~(i <= n)
      <3>1. u[i] = t[i - n] /\ i - n \in 1..m
        BY <1>1, <1>2, <2>2
      <3> QED
        BY <1>2, <3>1 DEF SetOf
    <2> QED
      BY <2>1, <2>2
  <1>5. ASSUME NEW i \in 1..n PROVE s[i] \in SetOf(u)
    <2>1. i \in 1..(n + m) /\ u[i] = s[i]
      BY <1>1, <1>2
    <2> QED
      BY <1>3, <2>1 DEF SetOf
  <1>6. ASSUME NEW i \in 1..m PROVE t[i] \in SetOf(u)
    <2>1. i + n \in 1..(n + m) /\ ~(i + n <= n) /\ (i + n) - n = i
      BY <1>2
    <2>2. u[i + n] = t[i]
      BY <1>1, <2>1
    <2> QED
      BY <1>3, <2>1, <2>2 DEF SetOf
  <1>7. SetOf(u) = SetOf(s) \cup SetOf(t)
    <2>1. SetOf(u) \subseteq SetOf(s) \cup SetOf(t)
      BY <1>3, <1>4 DEF SetOf
    <2>2. SetOf(s) \subseteq SetOf(u) /\ SetOf(t) \subseteq SetOf(u)
      BY <1>2, <1>5, <1>6 DEF SetOf
    <2> QED
      BY <2>1, <2>2
  <1> QED
    BY <1>1, <1>2, <1>7 DEF u, n, m

\* The function that ParsedWeeks defines exists.
ReadFrom(read, f, end) == f = [i \in 0..end |-> IF i = 0 THEN <<>> ELSE f[i - 1] \o OfSegment(read[i])]

LEMMA ReadDefined ==
  ASSUME NEW read, NEW end \in Nat
  PROVE  \E f : ReadFrom(read, f, end)
  <1> DEFINE T == {n \in Nat : \E f : ReadFrom(read, f, n)}
  <1>1. 0 \in T
    <2>1. ReadFrom(read, [i \in 0..0 |-> <<>>], 0)
      BY DEF ReadFrom
    <2> QED
      BY <2>1
  <1>2. ASSUME NEW n \in Nat, n \in T PROVE n + 1 \in T
    <2>1. PICK f : ReadFrom(read, f, n)
      BY <1>2
    <2> DEFINE h == [i \in 0..n + 1 |-> IF i = n + 1 THEN f[n] \o OfSegment(read[n + 1]) ELSE f[i]]
    <2>2. \A i \in 0..n : f[i] = IF i = 0 THEN <<>> ELSE f[i - 1] \o OfSegment(read[i])
      BY <2>1 DEF ReadFrom
    <2>3. \A i \in 0..n + 1 : i # 0 => i - 1 \in 0..n /\ h[i - 1] = f[i - 1]
      OBVIOUS
    <2>4. \A i \in 0..n + 1 : h[i] = IF i = n + 1 THEN f[n] \o OfSegment(read[n + 1]) ELSE f[i]
      OBVIOUS
    <2>5. h = [i \in 0..n + 1 |-> h[i]]
      OBVIOUS
    <2> HIDE DEF h
    <2>6. \A i \in 0..n + 1 : h[i] = IF i = 0 THEN <<>> ELSE h[i - 1] \o OfSegment(read[i])
      BY <2>2, <2>3, <2>4
    <2>7. ReadFrom(read, h, n + 1)
      BY <2>5, <2>6 DEF ReadFrom
    <2> QED
      BY <2>7
  <1> HIDE DEF T
  <1>3. Nat \subseteq T
    BY <1>1, <1>2, NoFirstFailure
  <1> QED
    BY <1>3 DEF T

LEMMA TimesGrowBy ==
  ASSUME NEW m \in Nat, NEW n \in Nat
  PROVE  m * n \in Nat /\ m * (n + 1) = m * n + m /\ m * 0 = 0
  OBVIOUS

\* After n segments there are the weeks they name, m for each at most.
ReadSoFar(read, m, out, n) ==
  /\ out \in Seq(AllWeeks) /\ Len(out) <= m * n
  /\ SetOf(out) = UNION {NamedBy(read[k]) : k \in 1..n}

LEMMA ReadOn ==
  ASSUME NEW read \in Seq(Segment), NEW m \in Nat, \A k \in 1..Len(read) : Len(OfSegment(read[k])) <= m,
         NEW n \in Nat, n + 1 <= Len(read), NEW out, ReadSoFar(read, m, out, n)
  PROVE  ReadSoFar(read, m, out \o OfSegment(read[n + 1]), n + 1)
  <1> DEFINE s == read[n + 1]
             o == OfSegment(s)
             was == UNION {NamedBy(read[k]) : k \in 1..n}
             is == UNION {NamedBy(read[k]) : k \in 1..n + 1}
  <1>1. Len(read) \in Nat /\ n + 1 \in 1..Len(read) /\ s \in Segment
    BY LenProperties
  <1>2. o \in Seq(AllWeeks) /\ SetOf(o) = NamedBy(s) /\ Len(o) <= m
    BY <1>1, SegmentNames
  <1>3. is = was \cup NamedBy(s)
    <2>1. \A k \in 1..n + 1 : k \in 1..n \/ k = n + 1
      OBVIOUS
    <2>2. n + 1 \in 1..n + 1 /\ \A k \in 1..n : k \in 1..n + 1
      OBVIOUS
    <2> QED
      BY <2>1, <2>2
  <1>4. out \in Seq(AllWeeks) /\ Len(out) <= m * n /\ SetOf(out) = was
    BY DEF ReadSoFar
  <1> HIDE DEF o, s, was, is
  <1>5. /\ out \o o \in Seq(AllWeeks) /\ SetOf(out \o o) = was \cup NamedBy(s)
        /\ Len(out) \in Nat /\ Len(o) \in Nat /\ Len(out \o o) = Len(out) + Len(o)
    BY <1>2, <1>4, SetsJoin
  <1>6. Len(out \o o) <= m * (n + 1)
    <2> DEFINE a == Len(out)
               b == Len(o)
               c == m * n
               d == m * (n + 1)
    <2>1. c \in Nat /\ d = c + m /\ a \in Nat /\ b \in Nat /\ a <= c /\ b <= m
      BY <1>2, <1>4, <1>5, TimesGrowBy
    <2> HIDE DEF a, b, c, d
    <2>2. a + b <= d
      BY <2>1
    <2> QED
      BY <1>5, <2>2 DEF a, b, d
  <1> QED
    BY <1>3, <1>5, <1>6 DEF ReadSoFar, o, s, is

\* The weeks of some segments: weeks they name, and all of them while there is room.
LEMMA WeeksAreNamed ==
  ASSUME NEW segments \in Seq(Segment), NEW m \in Nat, m <= WeekMax,
         \A k \in 1..Len(segments) : Len(OfSegment(segments[k])) <= m
  PROVE  LET named == UNION {NamedBy(segments[k]) : k \in 1..Len(segments)}
         IN  /\ ParsedWeeks(segments) \subseteq named /\ ParsedWeeks(segments) \subseteq AllWeeks
             /\ Len(segments) <= MaxSegments /\ m * Len(segments) <= MaxWeeks =>
                  ParsedWeeks(segments) = named
  <1> DEFINE read == UpTo(segments, MaxSegments)
             end == Len(read)
             out == CHOOSE f : ReadFrom(read, f, end)
             named == UNION {NamedBy(segments[k]) : k \in 1..Len(segments)}
             found == UNION {NamedBy(read[k]) : k \in 1..end}
  <1>0. MaxSegments \in Nat /\ MaxWeeks \in Nat /\ Len(segments) \in Nat
    BY WeeksAssumption, LenProperties
  <1>1. /\ read \in Seq(Segment) /\ SetOf(read) \subseteq SetOf(segments) /\ end \in Nat
        /\ Len(segments) <= MaxSegments => read = segments
    BY <1>0, AllOfThem, LenProperties
  <1>2. ParsedWeeks(segments) = SetOf(UpTo(out[end], MaxWeeks))
    BY DEF ParsedWeeks, ReadFrom
  <1>3. ReadFrom(read, out, end)
    BY <1>1, ReadDefined
  <1> HIDE DEF out, read
  <1>4. /\ DOMAIN read = 1..end /\ DOMAIN segments = 1..Len(segments)
        /\ \A k \in 1..end : read[k] \in Segment /\ \E i \in 1..Len(segments) : read[k] = segments[i]
    BY <1>1, LenProperties DEF SetOf
  <1>5. \A k \in 1..end : Len(OfSegment(read[k])) <= m
    BY <1>4
  <1>6. found \subseteq named
    BY <1>4
  <1> DEFINE T == {n \in Nat : n <= end => ReadSoFar(read, m, out[n], n)}
  <1>7. 0 \in T
    <2>1. out[0] = <<>>
      BY <1>1, <1>3 DEF ReadFrom
    <2>2. <<>> \in Seq(AllWeeks) /\ Len(<<>>) = 0 /\ SetOf(<<>>) = {} /\ m * 0 = 0
      BY DEF SetOf
    <2>3. UNION {NamedBy(read[k]) : k \in 1..0} = {}
      OBVIOUS
    <2>4. ReadSoFar(read, m, <<>>, 0)
      BY <2>2, <2>3 DEF ReadSoFar
    <2> QED
      BY <2>1, <2>4
  <1>8. ASSUME NEW n \in Nat, n \in T PROVE n + 1 \in T
    <2> SUFFICES ASSUME n + 1 <= end PROVE ReadSoFar(read, m, out[n + 1], n + 1)
      OBVIOUS
    <2>1. n + 1 \in 0..end /\ n + 1 # 0 /\ (n + 1) - 1 = n /\ n <= end
      BY <1>1
    <2>2. out[n + 1] = out[n] \o OfSegment(read[n + 1])
      BY <1>3, <2>1 DEF ReadFrom
    <2> QED
      BY <1>1, <1>5, <1>8, <2>1, <2>2, ReadOn
  <1> HIDE DEF T
  <1>9. end \in T
    BY <1>1, <1>7, <1>8, NoFirstFailure
  <1> DEFINE o == out[end]
  <1>10. o \in Seq(AllWeeks) /\ Len(o) <= m * end /\ SetOf(o) = found
    BY <1>1, <1>9 DEF T, ReadSoFar
  <1> HIDE DEF o
  <1>11. /\ SetOf(UpTo(o, MaxWeeks)) \subseteq SetOf(o) /\ UpTo(o, MaxWeeks) \in Seq(AllWeeks)
         /\ Len(o) <= MaxWeeks => UpTo(o, MaxWeeks) = o
    BY <1>0, <1>10, AllOfThem
  <1>12. SetOf(UpTo(o, MaxWeeks)) \subseteq AllWeeks
    BY <1>11 DEF SetOf
  <1>13. ASSUME Len(segments) <= MaxSegments, m * Len(segments) <= MaxWeeks
         PROVE  ParsedWeeks(segments) = named
    <2>1. read = segments
      BY <1>1, <1>13
    <2>2. Len(o) <= MaxWeeks
      <3>1. Len(o) \in Nat /\ m * Len(segments) \in Nat /\ Len(o) <= m * Len(segments)
        BY <1>0, <1>10, <2>1, LenProperties, TimesGrowBy
      <3> QED
        BY <1>0, <1>13, <3>1
    <2>3. found = named
      BY <2>1
    <2> QED
      BY <1>2, <1>10, <1>11, <2>2, <2>3 DEF o
  <1>14. ParsedWeeks(segments) \subseteq named /\ ParsedWeeks(segments) \subseteq AllWeeks
    BY <1>2, <1>6, <1>10, <1>11, <1>12 DEF o
  <1> QED
    BY <1>13, <1>14

\* The function that Link defines exists.
FirstOf(S)     == CHOOSE x \in S : \A y \in S : x <= y
ByFirst(f, S)  == IF S = {} THEN <<>> ELSE <<<<FirstOf(S)>>>> \o f[S \ {FirstOf(S)}]
OneFrom(f, D)  == f = [S \in D |-> ByFirst(f, S)]
UpToSize(W, n) == {S \in SUBSET W : Cardinality(S) <= n}

LEMMA FirstIsThere ==
  ASSUME NEW S, S # {}, S \subseteq Nat
  PROVE  FirstOf(S) \in S
  <1> SUFFICES ASSUME \A x \in S : \E y \in S : ~(x <= y) PROVE FALSE
    BY DEF FirstOf
  <1> DEFINE T == {n \in Nat : \A x \in S : n <= x}
  <1>1. 0 \in T
    OBVIOUS
  <1>2. ASSUME NEW n \in Nat, n \in T PROVE n + 1 \in T
    <2>1. n \notin S
      BY <1>2
    <2> QED
      BY <1>2, <2>1
  <1>3. Nat \subseteq T
    <2> HIDE DEF T
    <2> QED
      BY <1>1, <1>2, NoFirstFailure
  <1>4. PICK x \in S : x \in Nat
    OBVIOUS
  <1>5. x + 1 \in T
    BY <1>3, <1>4
  <1> QED
    BY <1>4, <1>5

LEMMA SizesGoDown ==
  ASSUME NEW W, IsFiniteSet(W), W \subseteq Nat, NEW n \in Nat, NEW S \in UpToSize(W, n + 1), S # {}
  PROVE  /\ FirstOf(S) \in S /\ S \ {FirstOf(S)} \in UpToSize(W, n)
         /\ IsFiniteSet(S \ {FirstOf(S)}) /\ Cardinality(S) \in Nat
         /\ Cardinality(S \ {FirstOf(S)}) = Cardinality(S) - 1
  <1>1. S \subseteq W /\ Cardinality(S) <= n + 1
    BY DEF UpToSize
  <1>2. IsFiniteSet(S) /\ Cardinality(S) \in Nat
    BY <1>1, FS_Subset, FS_CardinalityType
  <1>3. FirstOf(S) \in S
    BY <1>1, FirstIsThere
  <1> DEFINE x == FirstOf(S)
             R == S \ {x}
  <1> HIDE DEF x
  <1>4. IsFiniteSet(R) /\ Cardinality(R) = Cardinality(S) - 1
    <2>1. x \in S
      BY <1>3 DEF x
    <2> QED
      BY <1>2, <2>1, FS_RemoveElement
  <1>5. Cardinality(R) <= n /\ R \subseteq W
    <2> DEFINE a == Cardinality(S)
               b == Cardinality(R)
    <2>1. a \in Nat /\ a <= n + 1 /\ b = a - 1
      BY <1>1, <1>2, <1>4
    <2> HIDE DEF a, b
    <2>2. b <= n
      BY <2>1
    <2> QED
      BY <1>1, <2>2 DEF b
  <1>6. R \in UpToSize(W, n)
    BY <1>5 DEF UpToSize
  <1> QED
    BY <1>2, <1>3, <1>4, <1>6 DEF x

LEMMA OneDefined ==
  ASSUME NEW W, IsFiniteSet(W), W \subseteq Nat
  PROVE  \E f : OneFrom(f, SUBSET W)
  <1> DEFINE T == {n \in Nat : \E f : OneFrom(f, UpToSize(W, n))}
             D(n) == UpToSize(W, n)
  <1>1. 0 \in T
    <2>1. \A S \in D(0) : S = {}
      <3> SUFFICES ASSUME NEW S \in D(0) PROVE S = {}
        OBVIOUS
      <3>1. IsFiniteSet(S) /\ Cardinality(S) <= 0
        BY FS_Subset DEF UpToSize
      <3>2. Cardinality(S) = 0
        BY <3>1, FS_CardinalityType
      <3> QED
        BY <3>1, <3>2, FS_EmptySet
    <2> DEFINE f == [S \in D(0) |-> <<>>]
    <2>2. f = [S \in D(0) |-> ByFirst(f, S)]
      BY <2>1 DEF ByFirst
    <2>3. OneFrom(f, D(0))
      BY <2>2 DEF OneFrom
    <2> QED
      BY <2>3
  <1>2. ASSUME NEW n \in Nat, n \in T PROVE n + 1 \in T
    <2>1. PICK f : OneFrom(f, D(n))
      BY <1>2
    <2> DEFINE h == [S \in D(n + 1) |-> IF S \in D(n) THEN f[S] ELSE ByFirst(f, S)]
    <2>2. \A S \in D(n) : f[S] = ByFirst(f, S)
      BY <2>1 DEF OneFrom
    <2>3. D(n) \subseteq D(n + 1)
      <3> SUFFICES ASSUME NEW S \in D(n) PROVE S \in D(n + 1)
        OBVIOUS
      <3>1. S \subseteq W /\ IsFiniteSet(S) /\ Cardinality(S) <= n /\ Cardinality(S) \in Nat
        BY FS_Subset, FS_CardinalityType DEF UpToSize
      <3> QED
        BY <3>1 DEF UpToSize
    <2>4. \A S \in D(n + 1) : h[S] = ByFirst(f, S)
      BY <2>2
    <2>5. \A S \in D(n) : h[S] = f[S]
      BY <2>3
    <2>6. h = [S \in D(n + 1) |-> h[S]]
      OBVIOUS
    <2> HIDE DEF h, D
    <2>7. ASSUME NEW S \in D(n + 1) PROVE h[S] = ByFirst(h, S)
      <3>1. CASE S = {}
        BY <2>4, <3>1 DEF ByFirst
      <3>2. CASE S # {}
        <4>1. S \ {FirstOf(S)} \in D(n)
          BY <3>2, SizesGoDown DEF D
        <4>2. h[S \ {FirstOf(S)}] = f[S \ {FirstOf(S)}]
          BY <2>5, <4>1
        <4> QED
          BY <2>4, <3>2, <4>2 DEF ByFirst
      <3> QED
        BY <3>1, <3>2
    <2>8. OneFrom(h, D(n + 1))
      BY <2>6, <2>7 DEF OneFrom
    <2> QED
      BY <2>8 DEF D
  <1> HIDE DEF T
  <1>3. Cardinality(W) \in T
    <2>1. Cardinality(W) \in Nat
      BY FS_CardinalityType
    <2> QED
      BY <1>1, <1>2, <2>1, NoFirstFailure
  <1>4. D(Cardinality(W)) = SUBSET W
    BY FS_Subset DEF UpToSize
  <1> QED
    BY <1>3, <1>4 DEF T

\* The weeks one by one.
OneByOne(W, S, s) ==
  s \in Seq({<<x>> : x \in W}) /\ Len(s) = Cardinality(S) /\ SetOf(s) = {<<x>> : x \in S}

LEMMA OnesAre ==
  ASSUME NEW W, IsFiniteSet(W), W \subseteq Nat, NEW f, OneFrom(f, SUBSET W)
  PROVE  OneByOne(W, W, f[W])
  <1> DEFINE R == {<<x>> : x \in W}
             T == {n \in Nat : \A S \in UpToSize(W, n) : OneByOne(W, S, f[S])}
  <1>0. \A S \in SUBSET W : f[S] = ByFirst(f, S)
    BY DEF OneFrom
  <1>1. ASSUME NEW S \in SUBSET W, S = {} PROVE OneByOne(W, S, f[S])
    <2>1. f[S] = <<>>
      BY <1>0, <1>1 DEF ByFirst
    <2>2. <<>> \in Seq(R) /\ Len(<<>>) = 0 /\ SetOf(<<>>) = {}
      BY DEF SetOf
    <2>3. Cardinality(S) = 0 /\ {<<x>> : x \in S} = {}
      BY <1>1, FS_EmptySet
    <2> QED
      BY <2>1, <2>2, <2>3 DEF OneByOne
  <1>2. 0 \in T
    <2> SUFFICES ASSUME NEW S \in UpToSize(W, 0) PROVE S = {} /\ S \in SUBSET W
      BY <1>1
    <2>1. IsFiniteSet(S) /\ Cardinality(S) <= 0 /\ S \in SUBSET W
      BY FS_Subset DEF UpToSize
    <2>2. Cardinality(S) = 0
      BY <2>1, FS_CardinalityType
    <2> QED
      BY <2>1, <2>2, FS_EmptySet
  <1>3. ASSUME NEW n \in Nat, n \in T PROVE n + 1 \in T
    <2> SUFFICES ASSUME NEW S \in UpToSize(W, n + 1), S # {} PROVE OneByOne(W, S, f[S])
      BY <1>1 DEF UpToSize
    <2> DEFINE x == FirstOf(S)
               rest == S \ {x}
    <2>1. /\ x \in S /\ rest \in UpToSize(W, n) /\ Cardinality(S) \in Nat
          /\ Cardinality(rest) = Cardinality(S) - 1
      BY SizesGoDown
    <2>2. S \subseteq W /\ x \in W
      BY <2>1 DEF UpToSize
    <2>3. f[S] = <<<<x>>>> \o f[rest]
      BY <1>0, <2>2 DEF ByFirst
    <2>4. OneByOne(W, rest, f[rest])
      BY <1>3, <2>1
    <2>5. S = {x} \cup rest
      BY <2>1
    <2> HIDE DEF x, rest
    <2> DEFINE s == <<<<x>>>>
               t == f[rest]
    <2>6. s \in Seq(R) /\ SetOf(s) = {<<x>>} /\ Len(s) = 1
      <3> DEFINE y == <<x>>
      <3>1. y \in R
        BY <2>2
      <3> HIDE DEF y, R
      <3>2. <<y>> \in Seq(R) /\ Len(<<y>>) = 1 /\ SetOf(<<y>>) = {y}
        BY <3>1 DEF SetOf
      <3> QED
        BY <3>2 DEF y
    <2>7. t \in Seq(R) /\ Len(t) = Cardinality(rest) /\ SetOf(t) = {<<z>> : z \in rest}
      BY <2>4 DEF OneByOne
    <2> HIDE DEF s, t
    <2>8. s \o t \in Seq(R) /\ SetOf(s \o t) = SetOf(s) \cup SetOf(t) /\ Len(s \o t) = Len(s) + Len(t)
      <3> HIDE DEF R
      <3> QED
        BY <2>6, <2>7, SetsJoin
    <2>9. {<<z>> : z \in S} = {<<x>>} \cup {<<z>> : z \in rest}
      BY <2>5
    <2>10. Len(s \o t) = Cardinality(S)
      BY <2>1, <2>6, <2>7, <2>8
    <2>11. SetOf(s \o t) = {<<z>> : z \in S}
      BY <2>6, <2>7, <2>8, <2>9
    <2> QED
      BY <2>3, <2>8, <2>10, <2>11 DEF OneByOne, s, t
  <1> HIDE DEF T
  <1>4. Cardinality(W) \in T
    <2>1. Cardinality(W) \in Nat
      BY FS_CardinalityType
    <2> QED
      BY <1>2, <1>3, <2>1, NoFirstFailure
  <1>5. W \in UpToSize(W, Cardinality(W))
    <2>1. Cardinality(W) \in Nat
      BY FS_CardinalityType
    <2> QED
      BY <2>1 DEF UpToSize
  <1> QED
    BY <1>4, <1>5 DEF T

\* The weeks of a request, and what they are named by.
WeekForms == [given : BOOLEAN, segments : Seq(Segment)]

LEMMA LinksKeepWeeks ==
  ASSUME NEW W, W \subseteq AllWeeks, NEW s, OneByOne(W, W, s)
  PROVE  ParsedWeeks(s) = W
  <1> DEFINE R == {<<x>> : x \in W}
             named == UNION {NamedBy(s[k]) : k \in 1..Len(s)}
  <1>0. WeekMax \in Nat \ {0} /\ MaxSegments \in Nat /\ MaxSegments >= WeekMax /\ MaxWeeks \in Nat /\ MaxWeeks >= WeekMax
    BY WeeksAssumption
  <1>1. s \in Seq(R) /\ Len(s) = Cardinality(W) /\ SetOf(s) = {<<x>> : x \in W}
    BY DEF OneByOne
  <1>2. Cardinality(W) <= WeekMax /\ Cardinality(W) \in Nat
    <2>1. IsFiniteSet(AllWeeks) /\ Cardinality(AllWeeks) = WeekMax
      BY <1>0, FS_Interval DEF AllWeeks
    <2> QED
      BY <2>1, FS_Subset, FS_CardinalityType
  <1>3. \A x \in W : <<x>> \in Segment /\ NamedBy(<<x>>) = {x} /\ Len(<<x>>) = 1
    <2> SUFFICES ASSUME NEW x \in W PROVE <<x>> \in Segment /\ NamedBy(<<x>>) = {x}
      OBVIOUS
    <2>1. x \in Int /\ Clamp(x) = x
      BY ClampsTo DEF AllWeeks
    <2>2. Len(<<x>>) = 1 /\ <<x>>[1] = x
      OBVIOUS
    <2>3. NamedBy(<<x>>) = {x}
      BY <2>1, <2>2 DEF NamedBy
    <2> QED
      BY <2>1, <2>3 DEF Segment
  <1>4. s \in Seq(Segment)
    <2>1. R \subseteq Segment
      BY <1>3
    <2> HIDE DEF R
    <2> QED
      BY <1>1, <2>1, SeqMonotonic
  <1>5. DOMAIN s = 1..Len(s) /\ Len(s) \in Nat
    BY <1>1, LenProperties
  <1>6. \A k \in 1..Len(s) : \E x \in W : s[k] = <<x>>
    <2>1. \A k \in 1..Len(s) : s[k] \in SetOf(s)
      BY <1>5 DEF SetOf
    <2> QED
      BY <1>1, <2>1
  <1>7. \A x \in W : \E k \in 1..Len(s) : s[k] = <<x>>
    <2>1. \A x \in W : <<x>> \in SetOf(s)
      BY <1>1
    <2> QED
      BY <1>5, <2>1 DEF SetOf
  <1>8. \A k \in 1..Len(s) : Len(OfSegment(s[k])) <= 1
    <2> SUFFICES ASSUME NEW k \in 1..Len(s) PROVE Len(OfSegment(s[k])) <= 1
      OBVIOUS
    <2>1. PICK x \in W : s[k] = <<x>>
      BY <1>6
    <2>2. s[k] \in Segment /\ Len(s[k]) <= 1
      BY <1>3, <2>1
    <2> QED
      BY <2>2, SegmentNames
  <1>9. named = W
    <2>1. ASSUME NEW k \in 1..Len(s) PROVE NamedBy(s[k]) \subseteq W
      <3>1. PICK x \in W : s[k] = <<x>>
        BY <1>6
      <3>2. NamedBy(s[k]) = {x}
        BY <1>3, <3>1
      <3> QED
        BY <3>2
    <2>2. ASSUME NEW x \in W PROVE \E k \in 1..Len(s) : x \in NamedBy(s[k])
      <3>1. PICK k \in 1..Len(s) : s[k] = <<x>>
        BY <1>7
      <3>2. NamedBy(s[k]) = {x}
        BY <1>3, <3>1
      <3> QED
        BY <3>2
    <2> QED
      BY <2>1, <2>2
  <1> DEFINE one == 1
             l == Len(s)
  <1>10. l <= MaxSegments /\ one * l <= MaxWeeks /\ one \in Nat /\ one <= WeekMax
    BY <1>0, <1>1, <1>2
  <1>11. \A k \in 1..Len(s) : Len(OfSegment(s[k])) <= one
    BY <1>8
  <1> HIDE DEF one, named
  <1>12. ParsedWeeks(s) = named
    BY <1>4, <1>10, <1>11, WeeksAreNamed DEF named
  <1> QED
    BY <1>9, <1>12

LEMMA FormsKeepWeeks ==
  ASSUME NEW w \in WeekForms
  PROVE  WeeksKept(w)
  <1> DEFINE parsed == ParsedWeeks(w.segments)
             weeks == IF w.given THEN parsed ELSE {}
             one == CHOOSE f : OneFrom(f, SUBSET weeks)
             named == UNION {NamedBy(w.segments[k]) : k \in 1..Len(w.segments)}
             fits == Len(w.segments) <= MaxSegments /\ WeekMax * Len(w.segments) <= MaxWeeks
             all == UNION {NamedBy(s) : s \in SetOf(w.segments)}
  <1>0. w.given \in BOOLEAN /\ w.segments \in Seq(Segment) /\ DOMAIN w.segments = 1..Len(w.segments)
    BY LenProperties DEF WeekForms
  <1>1. parsed \subseteq named /\ parsed \subseteq AllWeeks /\ (fits => parsed = named)
    <2>1. WeekMax \in Nat /\ WeekMax <= WeekMax
      BY WeeksAssumption
    <2>2. \A k \in 1..Len(w.segments) : Len(OfSegment(w.segments[k])) <= WeekMax
      <3>1. \A k \in 1..Len(w.segments) : w.segments[k] \in Segment
        BY <1>0
      <3> QED
        BY <3>1, SegmentNames
    <2> QED
      BY <1>0, <2>1, <2>2, WeeksAreNamed
  <1>2. all = named
    <2>1. SetOf(w.segments) = {w.segments[k] : k \in 1..Len(w.segments)}
      BY <1>0 DEF SetOf
    <2> QED
      BY <2>1
  <1>3. Link(w) = [given |-> weeks # {}, segments |-> one[weeks]]
    BY DEF Link, OneFrom, ByFirst, FirstOf
  <1>4. AskedWeeks(w) = IF weeks = {} THEN 1..DefaultWeeks ELSE weeks
    BY DEF AskedWeeks
  <1> HIDE DEF parsed, named, one
  <1>5. weeks \subseteq AllWeeks
    BY <1>1
  <1> HIDE DEF weeks
  <1>6. ParsedWeeks(one[weeks]) = weeks
    <2>1. IsFiniteSet(AllWeeks) /\ AllWeeks \subseteq Nat
      <3>1. 1 \in Int /\ WeekMax \in Int
        BY WeeksAssumption
      <3>2. IsFiniteSet(1..WeekMax)
        BY <3>1, FS_Interval
      <3> QED
        BY <3>2 DEF AllWeeks
    <2>2. IsFiniteSet(weeks) /\ weeks \subseteq Nat
      BY <1>5, <2>1, FS_Subset
    <2>3. OneFrom(one, SUBSET weeks)
      BY <2>2, OneDefined DEF one
    <2> QED
      BY <1>5, <2>2, <2>3, OnesAre, LinksKeepWeeks
  <1>7. AskedWeeks(Link(w)) = AskedWeeks(w) /\ ~WeeksError(Link(w))
    <2> DEFINE link == [given |-> weeks # {}, segments |-> one[weeks]]
    <2>1. (link.given <=> weeks # {}) /\ link.segments = one[weeks]
      OBVIOUS
    <2> HIDE DEF link
    <2>2. AskedWeeks(link) = IF weeks = {} THEN 1..DefaultWeeks ELSE weeks
      BY <1>6, <2>1 DEF AskedWeeks
    <2>3. ~WeeksError(link)
      BY <1>6, <2>1 DEF WeeksError
    <2> QED
      BY <1>3, <1>4, <2>2, <2>3 DEF link
  <1>8. ASSUME ~WeeksError(w), w.given PROVE AskedWeeks(w) \subseteq all /\ (fits => AskedWeeks(w) = all)
    <2>1. parsed # {}
      BY <1>8 DEF WeeksError, parsed
    <2>2. weeks = parsed
      BY <1>8 DEF weeks
    <2> QED
      BY <1>1, <1>2, <1>4, <2>1, <2>2
  <1> QED
    BY <1>7, <1>8 DEF WeeksKept, NamedBy

LEMMA RunsFormsAreForms ==
  SemesterParams \subseteq SemesterLists \cup OtherForms /\ WeekParams \subseteq WeekForms
  <1>1. Lists \subseteq SemesterLists
    <2> SUFFICES ASSUME NEW p \in Lists PROVE p \in SemesterLists
      OBVIOUS
    <2>1. PICK n \in 1..MaxSemesters : p \in [parts : [1..n -> 1..4], comma : {n > 1, TRUE}]
      BY DEF Lists
    <2>2. p.comma \in BOOLEAN
      <3>1. (n > 1) \in BOOLEAN
        OBVIOUS
      <3>2. p.comma \in {n > 1, TRUE}
        BY <2>1
      <3> QED
        BY <3>1, <3>2, Zenon
    <2> DEFINE R == Nat \ {0}
    <2>3. n \in Nat /\ n > 0 /\ n <= MaxSemesters /\ p.parts \in [1..n -> R]
      BY <2>1, WeeksAssumption
    <2> HIDE DEF R
    <2>4. p.parts \in Seq(R) /\ Len(p.parts) = n
      BY <2>3, FunctionsAreSeqs
    <2>5. p = [parts |-> p.parts, comma |-> p.comma]
      BY <2>1
    <2> QED
      BY <2>2, <2>3, <2>4, <2>5 DEF SemesterLists, R
  <1>2. [parts : {<<>>, <<0>>, <<-1>>, <<-2>>}, comma : {FALSE}] \subseteq OtherForms
    <2>1. {<<>>, <<0>>, <<-1>>, <<-2>>} \subseteq {<<>>} \cup {<<n>> : n \in {x \in Int : x <= 0}}
      OBVIOUS
    <2> QED
      BY <2>1 DEF OtherForms
  <1>3. SemesterParams \subseteq SemesterLists \cup OtherForms
    BY <1>1, <1>2 DEF SemesterParams
  <1>4. Segments \subseteq Segment
    BY DEF Segments, Segment
  <1>5. ASSUME NEW n \in 1..3, NEW s \in [1..n -> Segments] PROVE s \in Seq(Segment)
    <2>1. n \in Nat /\ s \in [1..n -> Segment]
      BY <1>4
    <2> QED
      BY <2>1, FunctionsAreSeqs
  <1>6. <<>> \in Seq(Segment)
    OBVIOUS
  <1>7. WeekParams \subseteq WeekForms
    <2> SUFFICES ASSUME NEW w \in WeekParams PROVE w \in WeekForms
      OBVIOUS
    <2>1. CASE w = [given |-> FALSE, segments |-> <<>>]
      BY <1>6, <2>1 DEF WeekForms
    <2>2. CASE \E s \in UNION {[1..n -> Segments] : n \in 1..3} : w = [given |-> TRUE, segments |-> s]
      <3>1. PICK s \in UNION {[1..n -> Segments] : n \in 1..3} : w = [given |-> TRUE, segments |-> s]
        BY <2>2
      <3>2. PICK n \in 1..3 : s \in [1..n -> Segments]
        OBVIOUS
      <3>3. s \in Seq(Segment)
        BY <1>5, <3>2
      <3> QED
        BY <3>1, <3>3 DEF WeekForms
    <2> QED
      BY <2>1, <2>2 DEF WeekParams
  <1> QED
    BY <1>3, <1>7

\* Two requests with one key of the cache ask for the same semesters (_norm_semesters_key,
\* _parse_semesters); a request has the weeks it names, each one while they fit, and the link to its
\* document leads to the same weeks (_parse_weeks, _schedule_export_suffix): all the forms there
\* are, for every limit, and so those a request of the service may have (ParamsKept).
THEOREM ParamsMeanOneThing ==
  /\ \A p, q \in SemesterLists \cup OtherForms : \A current, semesters :
       SemestersShared(p, q, current, semesters)
  /\ \A w \in WeekForms : WeeksKept(w)
  /\ Spec => []ParamsKept
  <1>1. \A p, q \in SemesterLists \cup OtherForms : \A current, semesters : SemestersShared(p, q, current, semesters)
    BY FormsShare
  <1>2. \A w \in WeekForms : WeeksKept(w)
    BY FormsKeepWeeks
  <1>3. AllParams
    BY <1>1, <1>2, RunsFormsAreForms DEF AllParams
  <1>4. ParamsKept
    BY <1>3 DEF ParamsKept
  <1> QED
    BY <1>1, <1>2, <1>4, PTL
=============================================================================
