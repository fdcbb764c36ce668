---------------------------- MODULE NoticeProofs ----------------------------
(***************************************************************************)
(* Proofs about NoticeStore: types, the limit of active notices, that what *)
(* was written is kept and what is served was written, and that the file   *)
(* is the abstract NoticeBoard.                                            *)
(*                                                                         *)
(* Every map of notices in the system is sound: its records are not newer  *)
(* than the number of changes, its ids were given out, and, unless a       *)
(* restore has met another replica, it keeps to the limit.  A writer's     *)
(* copy differs from the file by one legal change, since the lock keeps    *)
(* the file as it was read.                                                *)
(***************************************************************************)
EXTENDS NoticeStore, FiniteSetTheorems, WellFoundedInduction, TLAPS

\* What a record can be after c changes have been asked for.
Now(c) == [status : {"draft", "active", "archived"}, text : Texts, rev : Nat \ {0}, at : 0..c]

\* R is a map of notices after c changes with ids of b; o: is the limit off?
Sound(R, c, b, o) == /\ R \in [Ids -> Now(c) \cup {None}]
                     /\ Known(R) \subseteq b
                     /\ o \/ Cardinality(Active(R)) <= MaxActive

\* R is K after a legal change that makes n be rec, perhaps with old notices forgotten.
Based(K, R, n, rec) ==
  /\ Board!Changed(n, Plain(K), Plain(R))
  /\ \A m \in Ids : m # n => \/ R[m] = K[m]
                             \/ R[m] = None /\ K[m] # None /\ K[m].status = "archived"
  /\ R[n] = rec \/ (R[n] = None /\ rec # None /\ rec.status = "archived")
  /\ rec # None => /\ Board!Legal(Public(K[n]), Public(rec))
                   /\ K[n] # None => rec.rev > K[n].rev

ScalarsOK ==
  /\ current \in [Replicas -> BOOLEAN] /\ dirty \in [Replicas -> BOOLEAN]
  /\ boot \in [Replicas -> {"down", "check", "fetch", "compact", "mirror", "up"}]
  /\ born \subseteq Ids /\ torn \in BOOLEAN /\ overlap \in BOOLEAN /\ refused \in BOOLEAN
  /\ changes \in 0..MaxChanges /\ mishaps \in 0..MaxMishaps
Ok(R) == Sound(R, changes, born, overlap)
DiskOK ==
  /\ disk \in Files /\ Ok(disk.kept)
  /\ latest \in [Ids -> Records \cup {None, Gone}]
  /\ disk.open => torn
  /\ ~disk.there => disk.kept = Empty /\ latest = Empty /\ ~disk.open
CopiesOK == mem \in [Replicas -> Maps] /\ \A r \in Replicas : Ok(mem[r])
TasksOK ==
  /\ task \in [Tasks -> TaskStates]
  /\ \A t \in Tasks : /\ Ok(task[t].snap) /\ task[t].stamp \in 0..changes
                      /\ task[t].at # "idle" => boot[Home[t]] = "up"
WriterOK ==
  \A t \in Writing :
    /\ Writing = {t} /\ task[t].id \in Ids /\ task[t].rec \in Now(changes) \cup {None}
    /\ ~task[t].compact => task[t].rec # None /\ disk.raw < Longest /\ task[t].id \in born
    /\ ~overlap => Based(disk.kept, mem[Home[t]], task[t].id, task[t].rec)
ServedOK ==
  \A r \in Replicas :
    /\ current[r] /\ ~refused /\ boot[r] \notin {"down", "compact"}
    /\ \A t \in Writing : Home[t] # r
    => mem[r] = Pruned(disk.kept)

Inv == ScalarsOK /\ DiskOK /\ CopiesOK /\ Ok(mirror) /\ TasksOK /\ WriterOK /\ ServedOK /\ WritesKept

-----------------------------------------------------------------------------
(* Maps of notices.                                                        *)

LEMMA Bounds ==
  /\ MaxActive \in Nat \ {0} /\ MaxHistory \in Nat \ {0} /\ MaxChanges \in Nat /\ MaxMishaps \in Nat
  /\ CompactAfter \in Nat /\ CompactAfter >= 2 /\ MaxTexts \in Nat /\ MaxTexts >= 1
  /\ Cardinality(Ids) \in Nat /\ Longest \in Nat
  /\ Longest >= CompactAfter /\ Longest > Cardinality(Ids)
<1>1. Cardinality(Ids) \in Nat
  BY FS_CardinalityType, BoundsAssumption
<1>. QED BY <1>1, BoundsAssumption DEF Longest

LEMMA Counted ==
  ASSUME NEW R
  PROVE  /\ IsFiniteSet(Active(R)) /\ Cardinality(Active(R)) \in Nat
         /\ IsFiniteSet(Known(R)) /\ Cardinality(Known(R)) \in Nat
         /\ Cardinality(Known(R)) <= Cardinality(Ids)
<1>1. Active(R) \subseteq Ids /\ Known(R) \subseteq Ids
  BY DEF Active, Known
<1>. QED BY <1>1, BoundsAssumption, FS_Subset, FS_CardinalityType

LEMMA FewerActive ==
  ASSUME NEW R, NEW S, Active(R) \subseteq Active(S)
  PROVE  Cardinality(Active(R)) <= Cardinality(Active(S))
BY Counted, FS_Subset

\* A sound map stays sound.
LEMMA StillSound ==
  ASSUME NEW R, NEW c \in Nat, NEW d \in Nat, c <= d, NEW b, NEW a, b \subseteq a,
         NEW o \in BOOLEAN, NEW p \in BOOLEAN, o => p, Sound(R, c, b, o)
  PROVE  Sound(R, d, a, p)
<1>1. Now(c) \subseteq Now(d)
  <2>1. 0..c \subseteq 0..d
    OBVIOUS
  <2>. QED BY <2>1 DEF Now
<1>. QED BY <1>1 DEF Sound

LEMMA PrunedFacts ==
  ASSUME NEW R, NEW c \in Nat, NEW b, NEW o, Sound(R, c, b, o)
  PROVE  /\ Sound(Pruned(R), c, b, o)
         /\ Active(Pruned(R)) = Active(R)
         /\ \A n \in Ids : \/ Pruned(R)[n] = R[n]
                           \/ Pruned(R)[n] = None /\ R[n] # None /\ R[n].status = "archived"
<1>1. \A n \in Ids : \/ Pruned(R)[n] = R[n]
                     \/ Pruned(R)[n] = None /\ R[n] # None /\ R[n].status = "archived"
  BY DEF Pruned, Archived
<1>2. Active(Pruned(R)) = Active(R)
  BY <1>1 DEF Active
<1>3. Pruned(R) \in [Ids -> Now(c) \cup {None}] /\ Known(Pruned(R)) \subseteq Known(R)
  <2>1. Pruned(R) = [n \in Ids |-> Pruned(R)[n]]
    BY DEF Pruned
  <2>2. \A n \in Ids : Pruned(R)[n] \in Now(c) \cup {None}
    BY <1>1 DEF Sound
  <2>. QED BY <1>1, <2>1, <2>2 DEF Known
<1>. QED BY <1>1, <1>2, <1>3 DEF Sound

\* One notice is changed, and there is room if that makes it active.
LEMMA ChangedSound ==
  ASSUME NEW F, NEW c \in Nat, NEW b, NEW o \in BOOLEAN, NEW n \in Ids,
         NEW rec \in Now(c) \cup {None}, Sound(F, c, b, o),
         \/ rec = None \/ rec.status # "active" \/ n \in Active(F)
         \/ Cardinality(Active(F)) < MaxActive
  PROVE  Sound([F EXCEPT ![n] = rec], c, b \cup {n}, o)
<1>. DEFINE G == [F EXCEPT ![n] = rec]
<1>2. G \in [Ids -> Now(c) \cup {None}] /\ Known(G) \subseteq b \cup {n}
  BY DEF Sound, Known
<1>3. ASSUME ~o
      PROVE  Cardinality(Active(G)) <= MaxActive
  <2>1. CASE rec = None \/ rec.status # "active" \/ n \in Active(F)
    <3>1. Active(G) \subseteq Active(F)
      BY <2>1 DEF Sound, Active
    <3>2. Cardinality(Active(G)) <= Cardinality(Active(F))
      BY <3>1, FewerActive
    <3>3. Cardinality(Active(F)) <= MaxActive
      BY <1>3 DEF Sound
    <3>4. Cardinality(Active(F)) \in Nat /\ Cardinality(Active(G)) \in Nat
      BY Counted
    <3>. QED BY <3>2, <3>3, <3>4, Bounds
  <2>2. CASE Cardinality(Active(F)) < MaxActive
    <3>1. Active(G) \subseteq Active(F) \cup {n}
      BY DEF Sound, Active
    <3>2. /\ IsFiniteSet(Active(F) \cup {n})
          /\ Cardinality(Active(F) \cup {n}) <= Cardinality(Active(F)) + 1
      <4>1. IsFiniteSet(Active(F)) /\ Cardinality(Active(F)) \in Nat
        BY Counted
      <4>. QED BY <4>1, FS_AddElement
    <3>3. Cardinality(Active(G)) <= Cardinality(Active(F) \cup {n})
      BY <3>1, <3>2, FS_Subset
    <3>4. Cardinality(Active(F) \cup {n}) \in Nat /\ Cardinality(Active(G)) \in Nat
      BY <3>2, FS_CardinalityType, Counted
    <3>. QED BY <2>2, <3>2, <3>3, <3>4, Counted, Bounds
  <2>. QED BY <2>1, <2>2
<1>. QED BY <1>2, <1>3 DEF Sound

LEMMA NowRecords ==
  ASSUME NEW c \in 0..MaxChanges
  PROVE  /\ Now(c) \subseteq Records /\ None \notin Now(c) /\ None \notin Records /\ Gone # None
         /\ \A b, o, R : Sound(R, c, b, o) => R \in Maps
<1>1. 0..c \subseteq 0..MaxChanges
  BY Bounds
<1>. QED BY <1>1, NoneAssumption DEF Now, Records, Sound, Maps

-----------------------------------------------------------------------------
(* The history.                                                            *)

LEMMA Least ==
  ASSUME NEW S \in SUBSET Nat, S # {}
  PROVE  \E m \in S : \A k \in S : m <= k
<1>1. PICK m \in S : \A k \in S : <<k, m>> \notin OpToRel(<, Nat)
  BY NatLessThanWellFounded, WFMin, Zenon
<1>2. \A k \in S : ~(k < m)
  BY <1>1 DEF OpToRel
<1>. QED BY <1>2

\* The archived notices newer than n.
Above(R, n) == {m \in Archived(R) : R[m].at > R[n].at}

LEMMA CountedHistory ==
  ASSUME NEW R, NEW n
  PROVE  /\ IsFiniteSet(Archived(R)) /\ Cardinality(Archived(R)) \in Nat
         /\ IsFiniteSet(Above(R, n)) /\ Cardinality(Above(R, n)) \in Nat
<1>1. Archived(R) \subseteq Ids /\ Above(R, n) \subseteq Ids
  BY DEF Archived, Above
<1>. QED BY <1>1, BoundsAssumption, FS_Subset, FS_CardinalityType

\* What is forgotten has MaxHistory newer archived notices, and as many remain.
LEMMA FullHistory ==
  ASSUME NEW R, NEW c \in Nat, R \in [Ids -> Now(c) \cup {None}], NEW n \in Ids, Pruned(R)[n] # R[n]
  PROVE  /\ Cardinality(Archived(R)) > MaxHistory
         /\ Cardinality(Archived(Pruned(R))) >= MaxHistory
<1>. DEFINE A == Archived(R)
            Old == {m \in A : Cardinality(Above(R, m)) >= MaxHistory}
            Ages == {c - R[m].at : m \in Old}
<1>1. \A m \in A : R[m].at \in 0..c
  BY DEF Archived, Now
<1>2. n \in Old /\ Archived(Pruned(R)) = A \ Old
  BY DEF Pruned, Archived, Above
<1>3. Cardinality(A) > MaxHistory
  <2>1. n \notin Above(R, n) /\ Above(R, n) \cup {n} \subseteq A
    BY <1>1, <1>2 DEF Above
  <2>2. /\ IsFiniteSet(Above(R, n) \cup {n})
        /\ Cardinality(Above(R, n) \cup {n}) = Cardinality(Above(R, n)) + 1
    BY <2>1, CountedHistory, FS_AddElement
  <2>3. Cardinality(Above(R, n) \cup {n}) <= Cardinality(A)
    BY <2>1, <2>2, CountedHistory, FS_Subset
  <2>. QED BY <1>2, <2>2, <2>3, CountedHistory, Bounds
<1>4. Cardinality(A \ Old) >= MaxHistory
  <2>1. Ages \in SUBSET Nat /\ Ages # {}
    BY <1>1, <1>2
  <2>2. PICK m \in Old : \A k \in Old : c - R[m].at <= c - R[k].at
    <3>1. PICK a \in Ages : \A k \in Ages : a <= k
      BY <2>1, Least
    <3>2. PICK m \in Old : a = c - R[m].at
      BY <3>1
    <3>. QED BY <3>1, <3>2
  <2>3. Above(R, m) \subseteq A \ Old
    BY <1>1, <2>2 DEF Above
  <2>4. Cardinality(Above(R, m)) <= Cardinality(A \ Old)
    <3>1. IsFiniteSet(A \ Old)
      BY CountedHistory, FS_Subset
    <3>. QED BY <3>1, <2>3, FS_Subset
  <2>5. Cardinality(A \ Old) \in Nat
    BY <1>2, CountedHistory
  <2>. QED BY <2>2, <2>4, <2>5, CountedHistory, Bounds
<1>. QED BY <1>2, <1>3, <1>4

LEMMA PlainAt ==
  ASSUME NEW R \in Maps, NEW n \in Ids
  PROVE  /\ R[n] = None => Plain(R)[n] = None
         /\ R[n] # None => /\ Plain(R)[n] # None /\ Plain(R)[n].status = R[n].status
                          /\ Plain(R)[n].text = R[n].text /\ Plain(R)[n] \in Board!Shown
<1>1. Plain(R)[n] = Public(R[n])
  BY DEF Plain
<1>2. ASSUME R[n] # None
      PROVE  /\ Public(R[n]) # None /\ Public(R[n]).status = R[n].status
             /\ Public(R[n]).text = R[n].text /\ Public(R[n]) \in Board!Shown
  <2>1. Public(R[n]) = [status |-> R[n].status, text |-> R[n].text]
    BY <1>2 DEF Public
  <2>2. R[n].status \in {"draft", "active", "archived"} /\ R[n].text \in Texts
    BY <1>2 DEF Maps, Records
  <2>. QED BY <2>1, <2>2, NoneAssumption DEF Board!Shown
<1>3. R[n] = None => Public(R[n]) = None
  BY DEF Public
<1>. QED BY <1>1, <1>2, <1>3

LEMMA PlainFacts ==
  ASSUME NEW R \in Maps
  PROVE  /\ Board!Are("active", Plain(R)) = Active(R)
         /\ Board!Are("archived", Plain(R)) = Archived(R)
BY PlainAt DEF Board!Are, Active, Archived

LEMMA SameCount == \A S : Board!Cardinality(S) = Cardinality(S)
BY DEF Board!Cardinality, Cardinality

\* Is the history full before or after, in terms of the maps?
LEMMA PlainFull ==
  ASSUME NEW K \in Maps, NEW R \in Maps
  PROVE  Board!Full(Plain(K), Plain(R)) <=> \/ Cardinality(Archived(K)) > MaxHistory
                                            \/ Cardinality(Archived(R)) >= MaxHistory
BY PlainFacts, SameCount DEF Board!Full

-----------------------------------------------------------------------------
(* What a writer's copy is to the file that it has read.                   *)

\* Every map of notices is sound if the limit does not count.
LEMMA MapSound ==
  ASSUME NEW c \in Nat, NEW R \in [Ids -> Now(c) \cup {None}]
  PROVE  Sound(R, c, Ids, TRUE)
BY DEF Sound, Known

LEMMA PutBased ==
  ASSUME NEW c \in 0..MaxChanges, NEW K \in [Ids -> Now(c) \cup {None}], NEW n \in Ids,
         NEW rec \in Now(c), Board!Legal(Public(K[n]), Public(rec)),
         K[n] # None => rec.rev > K[n].rev
  PROVE  Based(K, Pruned([Pruned(K) EXCEPT ![n] = rec]), n, rec)
<1>. DEFINE F == Pruned(K)  G == [F EXCEPT ![n] = rec]  R == Pruned(G)
<1>1. c \in Nat /\ rec # None /\ rec \in Records
  BY Bounds, NowRecords
<1>2. /\ \A m \in Ids : F[m] = K[m] \/ (F[m] = None /\ K[m] # None /\ K[m].status = "archived")
      /\ F \in [Ids -> Now(c) \cup {None}]
  BY <1>1, MapSound, PrunedFacts DEF Sound
<1>3. G \in [Ids -> Now(c) \cup {None}] /\ G[n] = rec /\ \A m \in Ids : m # n => G[m] = F[m]
  BY <1>2
<1>4. /\ \A m \in Ids : R[m] = G[m] \/ (R[m] = None /\ G[m] # None /\ G[m].status = "archived")
      /\ R \in [Ids -> Now(c) \cup {None}]
  BY <1>1, <1>3, MapSound, PrunedFacts DEF Sound
<1>5. K \in Maps /\ R \in Maps
  BY <1>1, <1>4, MapSound, NowRecords
<1>. HIDE DEF F, G
<1>6. ASSUME NEW m \in Ids, F[m] # K[m] \/ R[m] # G[m]
      PROVE  Board!Full(Plain(K), Plain(R))
  <2>1. CASE F[m] # K[m]
    BY <2>1, <1>1, <1>5, FullHistory, PlainFull DEF F
  <2>2. CASE R[m] # G[m]
    <3>1. Cardinality(Archived(R)) >= MaxHistory
      BY <2>2, <1>1, <1>3, FullHistory
    <3>. QED BY <3>1, <1>5, PlainFull
  <2>. QED BY <1>6, <2>1, <2>2
<1>. HIDE DEF R
<1>7. R[n] = rec \/ (R[n] = None /\ rec.status = "archived")
  BY <1>3, <1>4
<1>8. \A m \in Ids : m # n => \/ R[m] = K[m]
                              \/ /\ R[m] = None /\ K[m] # None /\ K[m].status = "archived"
                                 /\ Board!Full(Plain(K), Plain(R))
  BY <1>2, <1>3, <1>4, <1>6
<1>9. /\ \A m \in Ids : Plain(K)[m] = Public(K[m]) /\ Plain(R)[m] = Public(R[m])
      /\ Public(None) = None
  BY DEF Plain, Public
<1>10. \/ Board!Legal(Plain(K)[n], Plain(R)[n])
       \/ /\ Plain(K)[n] # None /\ Plain(K)[n].status # "draft" /\ Plain(R)[n] = None
          /\ Board!Full(Plain(K), Plain(R))
  <2>1. CASE R[n] = rec
    BY <2>1, <1>9
  <2>2. CASE R[n] # rec
    <3>1. R[n] = None /\ rec.status = "archived" /\ Board!Full(Plain(K), Plain(R))
      BY <2>2, <1>3, <1>6, <1>7
    <3>2. Public(rec).status = "archived" /\ Public(rec) # None
      BY <3>1, <1>1, NoneAssumption DEF Public, Records
    <3>3. Public(K[n]) # None /\ Public(K[n]).status # "draft"
      BY <3>2 DEF Board!Legal
    <3>. QED BY <3>1, <3>3, <1>9
  <2>. QED BY <2>1, <2>2
<1>11. \A m \in Ids \ {n} :
         \/ Plain(R)[m] = Plain(K)[m]
         \/ /\ Plain(K)[m] # None /\ Plain(K)[m].status = "archived" /\ Plain(R)[m] = None
            /\ Board!Full(Plain(K), Plain(R))
  BY <1>5, <1>8, <1>9, PlainAt
<1>12. Board!Changed(n, Plain(K), Plain(R))
  BY <1>10, <1>11 DEF Board!Changed
<1>13. Based(K, R, n, rec)
  BY <1>1, <1>7, <1>8, <1>12 DEF Based
<1>. QED BY <1>13 DEF R, G, F

LEMMA DeleteBased ==
  ASSUME NEW c \in 0..MaxChanges, NEW K \in [Ids -> Now(c) \cup {None}],
         NEW n \in Deletable(Pruned(K))
  PROVE  Based(K, [Pruned(K) EXCEPT ![n] = None], n, None)
<1>. DEFINE F == Pruned(K)  R == [F EXCEPT ![n] = None]
<1>1. c \in Nat /\ n \in Ids /\ F[n] # None /\ F[n].status = "draft"
  BY Bounds DEF Deletable
<1>2. /\ \A m \in Ids : F[m] = K[m] \/ (F[m] = None /\ K[m] # None /\ K[m].status = "archived")
      /\ F \in [Ids -> Now(c) \cup {None}]
  BY <1>1, MapSound, PrunedFacts DEF Sound
<1>3. R \in [Ids -> Now(c) \cup {None}] /\ R[n] = None /\ \A m \in Ids : m # n => R[m] = F[m]
  BY <1>1, <1>2
<1>4. K \in Maps /\ R \in Maps
  BY <1>1, <1>3, MapSound, NowRecords
<1>5. ASSUME NEW m \in Ids, F[m] # K[m]
      PROVE  Board!Full(Plain(K), Plain(R))
  <2>. HIDE DEF R
  <2>. QED BY <1>1, <1>4, <1>5, FullHistory, PlainFull
<1>. HIDE DEF R, F
<1>6. \A m \in Ids : m # n => \/ R[m] = K[m]
                              \/ /\ R[m] = None /\ K[m] # None /\ K[m].status = "archived"
                                 /\ Board!Full(Plain(K), Plain(R))
  BY <1>2, <1>3, <1>5
<1>7. \A m \in Ids \ {n} :
         \/ Plain(R)[m] = Plain(K)[m]
         \/ /\ Plain(K)[m] # None /\ Plain(K)[m].status = "archived" /\ Plain(R)[m] = None
            /\ Board!Full(Plain(K), Plain(R))
  <2>1. /\ \A m \in Ids : Plain(K)[m] = Public(K[m]) /\ Plain(R)[m] = Public(R[m])
        /\ Public(None) = None
    BY DEF Plain, Public
  <2>. QED BY <1>4, <1>6, <2>1, PlainAt
<1>8. Board!Legal(Plain(K)[n], Plain(R)[n])
  <2>1. K[n] # None /\ K[n].status = "draft"
    BY <1>1, <1>2
  <2>2. Plain(K)[n] # None /\ Plain(K)[n].status = "draft"
    BY <2>1, <1>1, <1>4, PlainAt
  <2>3. Plain(R)[n] = None
    BY <1>1, <1>3, <1>4, PlainAt
  <2>. QED BY <2>2, <2>3 DEF Board!Legal
<1>9. Board!Changed(n, Plain(K), Plain(R))
  BY <1>7, <1>8 DEF Board!Changed
<1>10. Based(K, R, n, None)
  BY <1>3, <1>6, <1>9 DEF Based
<1>. QED BY <1>10 DEF R, F

\* What a writer's line or new file does to the file, if no restore has come in between: it is
\* a change of the board, and the limit still holds.
LEMMA LineTells ==
  ASSUME NEW c \in 0..MaxChanges, NEW K \in [Ids -> Now(c) \cup {None}],
         NEW R \in [Ids -> Now(c) \cup {None}], NEW n \in Ids, NEW rec \in Now(c),
         Based(K, R, n, rec)
  PROVE  /\ Newer(K[n], rec) = rec
         /\ Active([K EXCEPT ![n] = rec]) \subseteq Active(R)
         /\ Board!Changed(n, Plain(K), Plain([K EXCEPT ![n] = rec]))
<1>. DEFINE G == [K EXCEPT ![n] = rec]
<1>1. Newer(K[n], rec) = rec
  BY NowRecords DEF Newer, Based
<1>2. ASSUME NEW m \in Active(G)
      PROVE  m \in Active(R)
  <2>1. CASE m = n
    BY <2>1, <1>2 DEF Active, Based
  <2>2. CASE m # n
    BY <2>2, <1>2 DEF Active, Based
  <2>. QED BY <2>1, <2>2
<1>3. Board!Changed(n, Plain(K), Plain(G))
  <2>1. Plain(K)[n] = Public(K[n]) /\ Plain(G)[n] = Public(rec)
    BY DEF Plain
  <2>2. \A m \in Ids \ {n} : Plain(G)[m] = Plain(K)[m]
    BY DEF Plain
  <2>3. Board!Legal(Public(K[n]), Public(rec))
    BY NowRecords DEF Based
  <2>. QED BY <2>1, <2>2, <2>3 DEF Board!Changed
<1>. QED BY <1>1, <1>2, <1>3

-----------------------------------------------------------------------------
(* Changes begin.                                                          *)

\* What every change has seen to when it begins.
BeginsWell(t, n, R, rec, compact) ==
  /\ Begins(t, n, R, rec, compact)
  /\ n \in Ids /\ rec \in Now(changes) \cup {None} /\ (~compact => rec # None /\ n \in born')
  /\ born \subseteq born' /\ born' \subseteq Ids
  /\ Sound(R, changes, born', overlap)
  /\ Based(disk.kept, R, n, rec)

LEMMA FreshFacts ==
  ASSUME Inv
  PROVE  /\ changes \in 0..MaxChanges /\ changes \in Nat /\ overlap \in BOOLEAN /\ born \subseteq Ids
         /\ Sound(Fresh, changes, born, overlap)
         /\ disk.kept \in [Ids -> Now(changes) \cup {None}]
         /\ \A n \in Ids : Fresh[n] # None => Fresh[n] = disk.kept[n]
         /\ \A n \in Ids : Fresh[n] # None \/ disk.kept[n] # None => n \in born
<1>1. /\ changes \in 0..MaxChanges /\ overlap \in BOOLEAN /\ born \subseteq Ids
      /\ Sound(disk.kept, changes, born, overlap)
  BY DEF Inv, ScalarsOK, DiskOK, Ok
<1>2. changes \in Nat
  BY <1>1, Bounds
<1>3. /\ Sound(Fresh, changes, born, overlap)
      /\ \A n \in Ids : \/ Fresh[n] = disk.kept[n]
                        \/ Fresh[n] = None /\ disk.kept[n] # None /\ disk.kept[n].status = "archived"
  BY <1>1, <1>2, PrunedFacts DEF Fresh
<1>. QED BY <1>1, <1>2, <1>3 DEF Sound, Known

LEMMA PutsWell ==
  ASSUME Inv, NEW t \in Tasks, NEW n \in Ids, NEW rec \in Now(changes), Puts(t, n, rec),
         born' = born \cup {n}, Board!Legal(Public(disk.kept[n]), Public(rec)),
         disk.kept[n] # None => rec.rev > disk.kept[n].rev,
         \/ rec.status # "active" \/ n \in Active(Fresh) \/ Room(Fresh)
  PROVE  \E R : BeginsWell(t, n, R, rec, FALSE)
<1>. DEFINE R == Pruned([Fresh EXCEPT ![n] = rec])
<1>1. Sound([Fresh EXCEPT ![n] = rec], changes, born \cup {n}, overlap)
  <2>1. changes \in Nat /\ overlap \in BOOLEAN /\ Sound(Fresh, changes, born, overlap)
    BY FreshFacts
  <2>2. \/ rec = None \/ rec.status # "active" \/ n \in Active(Fresh)
        \/ Cardinality(Active(Fresh)) < MaxActive
    BY DEF Room
  <2>. QED BY <2>1, <2>2, ChangedSound
<1>2. Sound(R, changes, born', overlap)
  BY <1>1, FreshFacts, PrunedFacts
<1>3. Based(disk.kept, R, n, rec)
  BY FreshFacts, PutBased DEF Fresh
<1>4. rec # None
  BY FreshFacts, NowRecords
<1>5. BeginsWell(t, n, R, rec, FALSE)
  BY <1>2, <1>3, <1>4, FreshFacts DEF BeginsWell, Puts
<1>. QED BY <1>5

LEMMA CreateWell ==
  ASSUME Inv, NEW t \in Tasks, NEW n \in Ids, NEW status \in {"draft", "active"},
         Create(t, n, status)
  PROVE  \E R, rec : BeginsWell(t, n, R, rec, FALSE)
<1>. DEFINE rec == [First EXCEPT !.status = status]
<1>1. rec = [status |-> status, text |-> 1, rev |-> 1, at |-> 0]
  BY DEF First
<1>2. rec \in Now(changes) /\ rec.status = status
  <2>1. 1 \in Texts /\ 0 \in 0..changes
    BY Bounds, FreshFacts DEF Texts
  <2>. QED BY <1>1, <2>1 DEF Now
<1>3. disk.kept[n] = None
  BY FreshFacts DEF Create
<1>4. Board!Legal(Public(disk.kept[n]), Public(rec))
  <2>1. Public(None) = None
    BY DEF Public
  <2>2. rec # None /\ rec \in Records
    BY <1>2, FreshFacts, NowRecords
  <2>3. Public(rec) # None /\ Public(rec).status = status
    BY <2>2, <1>2, NoneAssumption DEF Public, Records
  <2>. QED BY <1>3, <2>1, <2>3 DEF Board!Legal
<1>5. Puts(t, n, rec) /\ born' = born \cup {n} /\ (status = "active" => Room(Fresh))
  BY DEF Create
<1>. HIDE DEF rec
<1>. QED BY <1>2, <1>3, <1>4, <1>5, PutsWell

LEMMA UpdateWell ==
  ASSUME Inv, NEW t \in Tasks, NEW n \in Ids, NEW status \in {"draft", "active", "archived"},
         NEW edits \in BOOLEAN, Update(t, n, status, edits)
  PROVE  \E R, rec : BeginsWell(t, n, R, rec, FALSE)
<1>. DEFINE old == Fresh[n]  rec == Updated(old, status, edits, task[t].stamp)
<1>1. /\ old # None /\ old = disk.kept[n] /\ n \in born /\ old \in Now(changes)
      /\ edits => old.status = "draft" /\ old.text < MaxTexts
      /\ <<old.status, status>> \in Allowed
      /\ status = "active" /\ old.status # "active" => Room(Fresh)
      /\ Puts(t, n, rec) /\ born' = born
  BY FreshFacts DEF Update, Known, Sound
<1>2. task[t].stamp \in 0..changes
  BY DEF Inv, TasksOK
<1>. HIDE DEF old
<1>3. rec = [status |-> status, text |-> IF edits THEN old.text + 1 ELSE old.text, rev |-> old.rev + 1,
             at |-> IF status = "archived" THEN task[t].stamp ELSE 0]
  BY DEF Updated
<1>4. rec \in Now(changes) /\ rec.status = status /\ rec.rev > old.rev
  <2>1. old.rev \in Nat \ {0} /\ old.text \in 1..MaxTexts
    BY <1>1 DEF Now, Texts
  <2>2. (IF edits THEN old.text + 1 ELSE old.text) \in Texts /\ old.rev + 1 \in Nat \ {0}
    BY <1>1, <2>1, Bounds DEF Texts
  <2>3. (IF status = "archived" THEN task[t].stamp ELSE 0) \in 0..changes
    BY <1>2, FreshFacts
  <2>4. rec \in Now(changes)
    BY <1>3, <2>2, <2>3 DEF Now
  <2>5. rec.rev = old.rev + 1
    BY <1>3
  <2>. QED BY <1>3, <2>1, <2>4, <2>5
<1>5. Board!Legal(Public(disk.kept[n]), Public(rec))
  <2>1. rec # None /\ rec \in Records /\ old \in Records
    BY <1>1, <1>4, FreshFacts, NowRecords
  <2>2. /\ Public(rec) = [status |-> rec.status, text |-> rec.text] /\ Public(rec) # None
        /\ Public(old) = [status |-> old.status, text |-> old.text] /\ Public(old) # None
    BY <2>1, <1>1, NoneAssumption DEF Public, Records
  <2>3. \/ old.status = "draft" /\ status \in {"draft", "active"}
        \/ old.status # "draft" /\ status # "draft" /\ rec.text = old.text
    BY <1>1, <1>3 DEF Allowed
  <2>4. Board!Legal(Public(old), Public(rec))
    BY <2>2, <2>3, <1>4 DEF Board!Legal, Board!Published
  <2>. QED BY <2>4, <1>1
<1>6. born' = born \cup {n}
  BY <1>1
<1>7. rec.status # "active" \/ n \in Active(Fresh) \/ Room(Fresh)
  BY <1>1, <1>4 DEF Active, old
<1>. HIDE DEF rec
<1>. QED BY <1>1, <1>4, <1>5, <1>6, <1>7, PutsWell

LEMMA DeleteWell ==
  ASSUME Inv, NEW t \in Tasks, NEW n \in Ids, Delete(t, n)
  PROVE  \E R : BeginsWell(t, n, R, None, TRUE)
<1>. DEFINE R == [Fresh EXCEPT ![n] = None]
<1>1. n \in Deletable(Fresh) /\ n \in born /\ Begins(t, n, R, None, TRUE) /\ born' = born
  BY FreshFacts DEF Delete, Deletable
<1>2. Based(disk.kept, R, n, None)
  BY <1>1, FreshFacts, DeleteBased DEF Fresh
<1>3. Sound(R, changes, born \cup {n}, overlap)
  BY FreshFacts, ChangedSound
<1>4. born \cup {n} = born'
  BY <1>1
<1>5. BeginsWell(t, n, R, None, TRUE)
  BY <1>1, <1>2, <1>3, <1>4, FreshFacts DEF BeginsWell
<1>. QED BY <1>5

LEMMA ChangesWell ==
  ASSUME Inv, NEW t \in Tasks, Changes(t)
  PROVE  \E n, R, rec, compact : BeginsWell(t, n, R, rec, compact)
BY CreateWell, UpdateWell, DeleteWell DEF Changes

-----------------------------------------------------------------------------
(* What every step leaves alone.                                           *)

Grows == changes <= changes' /\ born \subseteq born' /\ (overlap => overlap')

\* A case for every action of Next.
LEMMA Steps ==
  ASSUME Next
  PROVE  \/ \E t \in Tasks : \/ Ask(t) \/ Changes(t) \/ Refuse(t) \/ Write(t) \/ WriteFails(t)
                             \/ MirrorAfterWrite(t) \/ Backup(t) \/ Exec(t)
         \/ \E r \in Replicas : \/ Read(r) \/ BootRead(r) \/ BootCheck(r) \/ BootFetch(r)
                                \/ BootCompact(r) \/ BootMirror(r) \/ BootGivesUp(r) \/ Crash(r)
BY DEF Next, Starts

LEMMA FileChangedType ==
  ASSUME FileChanged
  PROVE  current' \in [Replicas -> BOOLEAN]
BY DEF FileChanged

LEMMA ScalarsStep ==
  ASSUME Inv, Next
  PROVE  ScalarsOK' /\ Grows
<1>1. ScalarsOK
  BY DEF Inv
<1>2. changes \in Nat /\ mishaps \in Nat
  BY <1>1, Bounds DEF ScalarsOK
<1>3. Fails => mishaps' \in 0..MaxMishaps
  BY <1>2, Bounds DEF Fails
<1>4. \A r, point : /\ BootGoes(r, point)
                    /\ point \in {"down", "check", "fetch", "compact", "mirror", "up"}
                    => boot' \in [Replicas -> {"down", "check", "fetch", "compact", "mirror", "up"}]
  BY <1>1 DEF BootGoes, ScalarsOK
<1>5. \A r, R : Mirrored(r, R) \/ NotMirrored(r, R) =>
                  dirty' \in [Replicas -> BOOLEAN] /\ mishaps' \in 0..MaxMishaps
  BY <1>1, <1>3 DEF Mirrored, NotMirrored, ScalarsOK
<1>6. \A t : WritesNothing \/ WritesPart(t) \/ WritesWhole(t) =>
               current' \in [Replicas -> BOOLEAN] /\ torn' \in BOOLEAN
  BY <1>1, FileChangedType DEF WritesNothing, WritesPart, WritesWhole, ScalarsOK
<1>0. \A r : current' = [current EXCEPT ![r] = TRUE] => current' \in [Replicas -> BOOLEAN]
  BY <1>1, Zenon DEF ScalarsOK
<1>7. ASSUME NEW t \in Tasks, Ask(t)
      PROVE  ScalarsOK' /\ Grows
  <2>1. changes' \in 0..MaxChanges
    BY <1>2, <1>7, Bounds DEF Ask
  <2>. QED BY <2>1, <1>1, <1>2, <1>7 DEF Ask, ScalarsOK, Grows, memVars, fileVars, mirrorVars
<1>8. ASSUME NEW t \in Tasks, Changes(t)
      PROVE  ScalarsOK' /\ Grows
  <2>1. PICK n, R, rec, compact : BeginsWell(t, n, R, rec, compact)
    BY <1>8, ChangesWell
  <2>2. /\ current' \in [Replicas -> BOOLEAN] /\ born \subseteq born' /\ born' \subseteq Ids
        /\ UNCHANGED <<dirty, boot, torn, overlap, refused, changes, mishaps>>
    BY <2>1, <1>0 DEF BeginsWell, Begins, fileVars, mirrorVars
  <2>. QED BY <2>2, <1>1, <1>2 DEF ScalarsOK, Grows
<1>9. ASSUME NEW t \in Tasks, Refuse(t)
      PROVE  ScalarsOK' /\ Grows
  <2>1. /\ current' \in [Replicas -> BOOLEAN]
        /\ UNCHANGED <<dirty, boot, torn, overlap, refused, born, changes, mishaps>>
    BY <1>0, <1>9 DEF Refuse, Refreshed, fileVars, mirrorVars, countVars
  <2>. QED BY <2>1, <1>1, <1>2 DEF ScalarsOK, Grows
<1>10. ASSUME NEW t \in Tasks, Write(t)
       PROVE  ScalarsOK' /\ Grows
  BY <1>1, <1>2, <1>6, <1>10 DEF Write, ScalarsOK, Grows, mirrorVars, countVars
<1>11. ASSUME NEW t \in Tasks, WriteFails(t)
       PROVE  ScalarsOK' /\ Grows
  BY <1>1, <1>2, <1>3, <1>6, <1>11 DEF WriteFails, ScalarsOK, Grows, mirrorVars
<1>12. ASSUME NEW t \in Tasks, MirrorAfterWrite(t) \/ Backup(t)
       PROVE  ScalarsOK' /\ Grows
  BY <1>1, <1>2, <1>12
     DEF MirrorAfterWrite, Backup, ScalarsOK, Grows, memVars, fileVars, mirrorVars, countVars
<1>13. ASSUME NEW t \in Tasks, Exec(t)
       PROVE  ScalarsOK' /\ Grows
  BY <1>1, <1>2, <1>5, <1>13 DEF Exec, ScalarsOK, Grows, memVars, fileVars
<1>14. ASSUME NEW r \in Replicas, Read(r) \/ BootRead(r)
       PROVE  ScalarsOK' /\ Grows
  <2>1. /\ current' \in [Replicas -> BOOLEAN]
        /\ UNCHANGED <<dirty, torn, overlap, refused, born, changes, mishaps>>
    BY <1>0, <1>14 DEF Read, BootRead, Refreshed, fileVars, mirrorVars, countVars
  <2>2. boot' \in [Replicas -> {"down", "check", "fetch", "compact", "mirror", "up"}]
    BY <1>1, <1>4, <1>14 DEF Read, BootRead, ScalarsOK
  <2>. QED BY <2>1, <2>2, <1>1, <1>2 DEF ScalarsOK, Grows
<1>15. ASSUME NEW r \in Replicas, BootCheck(r)
       PROVE  ScalarsOK' /\ Grows
  BY <1>1, <1>2, <1>4, <1>15
     DEF BootCheck, ScalarsOK, Grows, memVars, fileVars, mirrorVars, countVars
<1>16. ASSUME NEW r \in Replicas, BootFetch(r)
       PROVE  ScalarsOK' /\ Grows
  BY <1>1, <1>2, <1>4, <1>16
     DEF BootFetch, ScalarsOK, Grows, fileVars, mirrorVars, countVars
<1>17. ASSUME NEW r \in Replicas, BootCompact(r)
       PROVE  ScalarsOK' /\ Grows
  BY <1>1, <1>2, <1>4, <1>17, FileChangedType
     DEF BootCompact, ScalarsOK, Grows, mirrorVars, countVars
<1>18. ASSUME NEW r \in Replicas, BootMirror(r)
       PROVE  ScalarsOK' /\ Grows
  BY <1>1, <1>2, <1>4, <1>5, <1>18 DEF BootMirror, ScalarsOK, Grows, memVars, fileVars
<1>19. ASSUME NEW r \in Replicas, BootGivesUp(r)
       PROVE  ScalarsOK' /\ Grows
  BY <1>1, <1>2, <1>3, <1>4, <1>19
     DEF BootGivesUp, ScalarsOK, Grows, memVars, mirrorVars
<1>20. ASSUME NEW r \in Replicas, Crash(r)
       PROVE  ScalarsOK' /\ Grows
  <2>1. current' \in [Replicas -> BOOLEAN] /\ torn' \in BOOLEAN
    BY <1>1, <1>6, <1>20 DEF Crash, ScalarsOK
  <2>2. dirty' \in [Replicas -> BOOLEAN] /\ UNCHANGED <<overlap, refused, born, changes>>
    BY <1>1, <1>20 DEF Crash, ScalarsOK
  <2>. QED BY <2>1, <2>2, <1>1, <1>2, <1>3, <1>4, <1>20 DEF Crash, ScalarsOK, Grows
<1>. QED BY <1>7, <1>8, <1>9, <1>10, <1>11, <1>12, <1>13, <1>14, <1>15, <1>16, <1>17, <1>18,
            <1>19, <1>20, Steps

\* What was sound stays sound.
LEMMA OkStep ==
  ASSUME ScalarsOK, ScalarsOK', Grows, NEW R, Ok(R)
  PROVE  Sound(R, changes', born', overlap')
<1>1. changes \in Nat /\ changes' \in Nat /\ overlap \in BOOLEAN /\ overlap' \in BOOLEAN
  BY Bounds DEF ScalarsOK
<1>. QED BY <1>1, StillSound DEF Grows, Ok

-----------------------------------------------------------------------------
(* The file.                                                               *)

FileStays == UNCHANGED <<disk, latest, torn, overlap>>
FileMoves(t) == /\ t \in Writing /\ (WritesPart(t) \/ WritesWhole(t))
                /\ UNCHANGED <<overlap, born, changes>>
Restores(r) == /\ r \in Replicas /\ disk' = Compacted(mem[r])
               /\ overlap' = (overlap \/ disk.there \/ Writing # {})
               /\ UNCHANGED <<latest, torn, born, changes, task, mem>>

LEMMA FileSteps ==
  ASSUME Inv, Next
  PROVE  FileStays \/ (\E t \in Tasks : FileMoves(t)) \/ (\E r \in Replicas : Restores(r))
<1>1. ASSUME NEW t \in Tasks, Changes(t)
      PROVE  FileStays
  <2>1. PICK n, R, rec, compact : BeginsWell(t, n, R, rec, compact)
    BY <1>1, ChangesWell
  <2>. QED BY <2>1 DEF BeginsWell, Begins, fileVars, FileStays
<1>2. ASSUME NEW t \in Tasks, Write(t) \/ WriteFails(t)
      PROVE  FileStays \/ FileMoves(t)
  BY <1>2 DEF Write, WriteFails, WritesNothing, FileStays, FileMoves, Writing, countVars
<1>3. ASSUME NEW r \in Replicas, Crash(r)
      PROVE  FileStays \/ \E t \in Tasks : FileMoves(t)
  BY <1>3 DEF Crash, FileStays, FileMoves, Writing
<1>4. ASSUME NEW r \in Replicas, BootCompact(r)
      PROVE  Restores(r)
  BY <1>4 DEF BootCompact, Restores, countVars
<1>5. ASSUME NEW t \in Tasks, Ask(t) \/ Refuse(t) \/ MirrorAfterWrite(t) \/ Backup(t) \/ Exec(t)
      PROVE  FileStays
  BY <1>5 DEF Ask, Refuse, MirrorAfterWrite, Backup, Exec, fileVars, FileStays
<1>6. ASSUME NEW r \in Replicas,
             \/ Read(r) \/ BootRead(r) \/ BootCheck(r) \/ BootFetch(r) \/ BootMirror(r)
             \/ BootGivesUp(r)
      PROVE  FileStays
  BY <1>6 DEF Read, BootRead, BootCheck, BootFetch, BootMirror, BootGivesUp, fileVars, FileStays
<1>. QED BY <1>1, <1>2, <1>3, <1>4, <1>5, <1>6, Steps

\* What a writer has prepared.
LEMMA WriterFacts ==
  ASSUME Inv, NEW t \in Writing
  PROVE  /\ t \in Tasks /\ Home[t] \in Replicas /\ task[t].id \in Ids /\ changes \in 0..MaxChanges
         /\ task[t].rec \in Now(changes) \cup {None} /\ Ok(mem[Home[t]]) /\ mem[Home[t]] \in Maps
         /\ disk.kept \in [Ids -> Now(changes) \cup {None}]
         /\ mem[Home[t]] \in [Ids -> Now(changes) \cup {None}]
         /\ ~task[t].compact => /\ task[t].rec # None /\ task[t].rec \in Now(changes)
                                /\ disk.raw < Longest /\ task[t].id \in born
         /\ ~overlap => Based(disk.kept, mem[Home[t]], task[t].id, task[t].rec)
<1>1. t \in Tasks /\ Home[t] \in Replicas /\ changes \in 0..MaxChanges
  BY BoundsAssumption DEF Inv, Writing, ScalarsOK
<1>2. Ok(mem[Home[t]]) /\ Ok(disk.kept)
  BY <1>1 DEF Inv, CopiesOK, DiskOK
<1>. QED BY <1>1, <1>2, NowRecords DEF Inv, WriterOK, Ok, Sound

\* How an appended line changes what the file says.
LEMMA AppendSound ==
  ASSUME Inv, NEW t \in Writing, ~task[t].compact
  PROVE  Ok([disk.kept EXCEPT ![task[t].id] = Newer(@, task[t].rec)])
<1>. DEFINE n == task[t].id  rec == task[t].rec  K == disk.kept  G == [K EXCEPT ![n] = Newer(@, rec)]
<1>1. /\ n \in Ids /\ rec \in Now(changes) /\ n \in born /\ K \in [Ids -> Now(changes) \cup {None}]
      /\ rec # None
  BY WriterFacts
<1>2. Ok(K)
  BY DEF Inv, DiskOK
<1>3. G \in [Ids -> Now(changes) \cup {None}] /\ Known(G) \subseteq born
  <2>1. Newer(K[n], rec) \in Now(changes) \cup {None}
    BY <1>1 DEF Newer
  <2>2. G \in [Ids -> Now(changes) \cup {None}]
    BY <1>1, <2>1
  <2>. QED BY <1>1, <1>2, <2>2 DEF Ok, Sound, Known
<1>4. ASSUME ~overlap
      PROVE  Cardinality(Active(G)) <= MaxActive
  <2>1. Active(G) \subseteq Active(mem[Home[t]])
    <3>1. /\ Newer(K[n], rec) = rec
          /\ Active([K EXCEPT ![n] = rec]) \subseteq Active(mem[Home[t]])
      BY <1>4, WriterFacts, LineTells
    <3>2. G = [K EXCEPT ![n] = rec]
      BY <3>1
    <3>. QED BY <3>1, <3>2
  <2>2. Cardinality(Active(G)) <= Cardinality(Active(mem[Home[t]]))
    BY <2>1, FewerActive
  <2>3. Cardinality(Active(mem[Home[t]])) <= MaxActive
    BY <1>4, WriterFacts DEF Ok, Sound
  <2>4. Cardinality(Active(G)) \in Nat /\ Cardinality(Active(mem[Home[t]])) \in Nat
    BY Counted
  <2>. QED BY <2>2, <2>3, <2>4, Bounds
<1>. QED BY <1>3, <1>4 DEF Ok, Sound

LEMMA CompactedFile ==
  ASSUME NEW R \in Maps
  PROVE  Compacted(R) \in Files
<1>1. Cardinality(Known(R)) \in 0..Longest
  BY Counted, Bounds
<1>. QED BY <1>1 DEF Compacted, Files

LEMMA DiskMoves ==
  ASSUME Inv, NEW t, FileMoves(t)
  PROVE  DiskOK'
<1>. DEFINE n == task[t].id  rec == task[t].rec  R == mem[Home[t]]
<1>1. /\ t \in Writing /\ n \in Ids /\ rec \in Records \cup {None} /\ Ok(R) /\ R \in Maps
      /\ DiskOK
  BY WriterFacts, NowRecords DEF FileMoves, Inv
<1>2. overlap' = overlap /\ born' = born /\ changes' = changes
  BY DEF FileMoves
<1>3. CASE WritesPart(t)
  <2>1. disk.raw < Longest
    BY <1>1, <1>3, WriterFacts DEF WritesPart
  <2>2. disk' \in Files /\ disk'.kept = disk.kept /\ disk'.open /\ disk'.there
    BY <2>1, <1>1, <1>3, Bounds DEF WritesPart, Torn, DiskOK, Files
  <2>. QED BY <2>2, <1>1, <1>2, <1>3 DEF WritesPart, DiskOK, Ok
<1>4. CASE WritesWhole(t)
  <2>1. latest' \in [Ids -> Records \cup {None, Gone}]
    BY <1>1, <1>4 DEF WritesWhole, DiskOK
  <2>2. CASE task[t].compact
    <3>1. disk' = Compacted(R) /\ torn' = torn
      BY <2>2, <1>4 DEF WritesWhole
    <3>2. disk' \in Files
      BY <3>1, <1>1, CompactedFile
    <3>3. disk'.kept = R /\ ~disk'.open /\ disk'.there
      BY <3>1 DEF Compacted
    <3>. QED BY <3>2, <3>3, <2>1, <1>1, <1>2 DEF DiskOK, Ok
  <2>3. CASE ~task[t].compact /\ disk.open
    <3>1. disk' \in Files /\ disk'.kept = disk.kept /\ ~disk'.open /\ disk'.there = disk.there
      BY <2>3, <1>1, <1>4 DEF WritesWhole, Appended, DiskOK, Files
    <3>2. disk.there
      BY <2>3, <1>1 DEF DiskOK
    <3>. QED BY <3>1, <3>2, <2>1, <1>1, <1>2 DEF DiskOK, Ok
  <2>4. CASE ~task[t].compact /\ ~disk.open
    <3>. DEFINE K == [disk.kept EXCEPT ![n] = Newer(@, rec)]
    <3>1. disk.raw < Longest /\ Ok(K) /\ K \in Maps
      BY <2>4, <1>1, AppendSound, WriterFacts, NowRecords DEF Ok
    <3>2. disk' = [there |-> TRUE, kept |-> K, raw |-> disk.raw + 1, open |-> FALSE]
      BY <2>4, <1>4 DEF WritesWhole, Appended
    <3>. HIDE DEF K
    <3>3. disk.raw + 1 \in 0..Longest
      BY <3>1, <1>1, Bounds DEF Files, DiskOK
    <3>4. disk' \in Files /\ disk'.kept = K /\ ~disk'.open /\ disk'.there
      BY <3>1, <3>2, <3>3 DEF Files
    <3>. QED BY <3>1, <3>4, <2>1, <1>1, <1>2 DEF DiskOK, Ok
  <2>. QED BY <2>2, <2>3, <2>4
<1>. QED BY <1>3, <1>4 DEF FileMoves

LEMMA DiskStep ==
  ASSUME Inv, Next
  PROVE  DiskOK'
<1>1. ScalarsOK /\ ScalarsOK' /\ Grows /\ DiskOK
  BY ScalarsStep DEF Inv
<1>2. CASE FileStays
  <2>1. Sound(disk.kept, changes', born', overlap')
    BY <1>1, OkStep DEF DiskOK
  <2>. QED BY <2>1, <1>1, <1>2 DEF FileStays, DiskOK, Ok
<1>3. ASSUME NEW r \in Replicas, Restores(r)
      PROVE  DiskOK'
  <2>1. Ok(mem[r]) /\ mem[r] \in Maps
    BY DEF Inv, CopiesOK
  <2>2. Sound(mem[r], changes', born', overlap')
    BY <2>1, <1>1, OkStep
  <2>3. disk' \in Files
    BY <2>1, <1>3, CompactedFile DEF Restores
  <2>4. disk'.kept = mem[r] /\ ~disk'.open /\ disk'.there
    BY <1>3 DEF Restores, Compacted
  <2>. QED BY <2>2, <2>3, <2>4, <1>1, <1>3 DEF Restores, DiskOK, Ok
<1>. QED BY <1>2, <1>3, FileSteps, DiskMoves

\* The board as a writer or a restore leaves it.
LEMMA BoardMoves ==
  ASSUME Inv, NEW t, FileMoves(t), ~torn', ~overlap'
  PROVE  /\ Board!Changed(task[t].id, Plain(disk.kept), Plain(disk'.kept))
         /\ task[t].rec # None => disk'.kept[task[t].id] = task[t].rec \/
              (disk'.kept[task[t].id] = None /\ task[t].rec.status = "archived")
         /\ task[t].rec = None => disk'.kept[task[t].id] = None
         /\ \A m \in Ids \ {task[t].id} : \/ disk'.kept[m] = disk.kept[m]
                                          \/ /\ disk'.kept[m] = None /\ disk.kept[m] # None
                                             /\ disk.kept[m].status = "archived"
<1>. DEFINE n == task[t].id  rec == task[t].rec  R == mem[Home[t]]
<1>1. t \in Writing /\ ~overlap /\ WritesWhole(t)
  BY DEF FileMoves, WritesPart
<1>2. ~torn /\ ~disk.open
  BY <1>1 DEF WritesWhole, Inv, DiskOK
<1>3. Based(disk.kept, R, n, rec) /\ n \in Ids
  BY <1>1, WriterFacts
<1>4. CASE task[t].compact
  <2>1. disk'.kept = R
    BY <1>1, <1>4 DEF WritesWhole, Compacted
  <2>. QED BY <2>1, <1>3 DEF Based
<1>5. CASE ~task[t].compact
  <2>1. rec \in Now(changes) /\ rec # None
    BY <1>1, <1>5, WriterFacts
  <2>2. /\ Newer(disk.kept[n], rec) = rec
        /\ Board!Changed(n, Plain(disk.kept), Plain([disk.kept EXCEPT ![n] = rec]))
    BY <2>1, <1>1, <1>3, WriterFacts, LineTells
  <2>3. disk'.kept = [disk.kept EXCEPT ![n] = Newer(@, rec)]
    BY <1>1, <1>2, <1>5 DEF WritesWhole, Appended
  <2>4. disk'.kept = [disk.kept EXCEPT ![n] = rec]
    BY <2>2, <2>3
  <2>5. disk.kept \in [Ids -> Now(changes) \cup {None}]
    BY <1>1, WriterFacts
  <2>. QED BY <2>1, <2>2, <2>4, <2>5, <1>3
<1>. QED BY <1>4, <1>5

LEMMA WritesKeptStep ==
  ASSUME Inv, Next
  PROVE  WritesKept'
<1>1. WritesKept /\ DiskOK /\ None # Gone
  BY NoneAssumption DEF Inv
<1>2. CASE FileStays
  BY <1>1, <1>2 DEF FileStays, WritesKept
<1>3. ASSUME NEW t \in Tasks, FileMoves(t), ~torn', ~overlap', NEW n \in Ids, latest'[n] # None
      PROVE  \/ disk'.kept[n] = latest'[n]
             \/ disk'.kept[n] = None /\ (latest'[n] = Gone \/ latest'[n].status = "archived")
  <2>. DEFINE i == task[t].id  rec == task[t].rec
  <2>1. /\ latest' = [latest EXCEPT ![i] = IF rec = None THEN Gone ELSE rec]
        /\ ~torn /\ ~overlap /\ i \in Ids
    BY <1>3, WriterFacts DEF FileMoves, WritesPart, WritesWhole
  <2>2. CASE n = i
    <3>1. latest'[n] = IF rec = None THEN Gone ELSE rec
      BY <2>1, <2>2, <1>1 DEF DiskOK
    <3>. QED BY <3>1, <2>2, <1>3, BoardMoves
  <2>3. CASE n # i
    <3>1. latest'[n] = latest[n]
      BY <2>1, <2>3, <1>1 DEF DiskOK
    <3>2. \/ disk.kept[n] = latest[n]
          \/ disk.kept[n] = None /\ (latest[n] = Gone \/ latest[n].status = "archived")
      BY <3>1, <2>1, <1>1, <1>3 DEF WritesKept
    <3>3. \/ disk'.kept[n] = disk.kept[n]
          \/ /\ disk'.kept[n] = None /\ disk.kept[n] # None
             /\ disk.kept[n].status = "archived"
      BY <2>3, <1>3, BoardMoves
    <3>. QED BY <3>1, <3>2, <3>3
  <2>. QED BY <2>2, <2>3
<1>4. ASSUME NEW r \in Replicas, Restores(r), ~torn', ~overlap'
      PROVE  latest' = Empty
  BY <1>1, <1>4 DEF Restores, DiskOK
<1>5. \A n \in Ids : Empty[n] = None
  BY DEF Empty
<1>6. CASE \E t \in Tasks : FileMoves(t)
  BY <1>3, <1>6 DEF WritesKept
<1>7. CASE \E r \in Replicas : Restores(r)
  BY <1>4, <1>5, <1>7 DEF WritesKept
<1>. QED BY <1>2, <1>6, <1>7, FileSteps

\* While the limit is on, a step is one of the board's or leaves it alone.
LEMMA BoardStep ==
  ASSUME Inv, Next, ~torn', ~overlap'
  PROVE  Board!Next \/ UNCHANGED disk.kept
<1>1. DiskOK' /\ DiskOK
  BY DiskStep DEF Inv
<1>2. disk'.kept \in Maps /\ disk.kept \in Maps
  BY <1>1 DEF DiskOK, Files
<1>3. Cardinality(Active(disk'.kept)) <= MaxActive
  BY <1>1 DEF DiskOK, Ok, Sound
<1>4. Board!Cardinality(Board!Are("active", Plain(disk'.kept))) <= MaxActive
  BY <1>2, <1>3, PlainFacts, SameCount
<1>5. CASE FileStays
  BY <1>5 DEF FileStays
<1>6. ASSUME NEW t \in Tasks, FileMoves(t)
      PROVE  Board!Next
  <2>1. Board!Changed(task[t].id, Plain(disk.kept), Plain(disk'.kept))
    BY <1>6, BoardMoves
  <2>2. task[t].id \in Ids
    BY <1>6, WriterFacts DEF FileMoves
  <2>3. Plain(disk.kept)' = Plain(disk'.kept)
    BY DEF Plain
  <2>. QED BY <2>1, <2>2, <2>3, <1>4 DEF Board!Next, Board!Change
<1>7. ASSUME NEW r \in Replicas, Restores(r)
      PROVE  Board!Next
  <2>1. disk.kept = Empty
    BY <1>1, <1>7 DEF Restores, DiskOK
  <2>2. Plain(disk.kept) = [n \in Ids |-> None]
    BY <2>1 DEF Plain, Public, Empty
  <2>3. Plain(disk'.kept) \in Board!Boards
    <3>1. \A n \in Ids : Plain(disk'.kept)[n] \in Board!Shown \cup {None}
      BY <1>2, PlainAt
    <3>2. Plain(disk'.kept) = [n \in Ids |-> Plain(disk'.kept)[n]]
      BY DEF Plain
    <3>3. Plain(disk'.kept) \in [Ids -> Board!Shown \cup {None}]
      BY <3>1, <3>2
    <3>. QED BY <3>3, <1>4 DEF Board!Boards
  <2>4. Plain(disk.kept)' = Plain(disk'.kept)
    BY DEF Plain
  <2>. QED BY <2>2, <2>3, <2>4 DEF Board!Next, Board!Restore
<1>. QED BY <1>5, <1>6, <1>7, FileSteps

-----------------------------------------------------------------------------
(* The copies and the mirror.                                              *)

CopyBecomes(r, X) == mem' = [mem EXCEPT ![r] = X] /\ Sound(X, changes', born', overlap')

LEMMA EmptySound ==
  \A c, b, o : Sound(Empty, c, b, o)
<1>1. Known(Empty) = {} /\ Active(Empty) = {}
  BY DEF Known, Active, Empty
<1>2. Cardinality({}) = 0
  BY FS_EmptySet
<1>. QED BY <1>1, <1>2, Bounds DEF Sound, Empty

LEMMA CopySteps ==
  ASSUME Inv, Next
  PROVE  mem' = mem \/ \E r \in Replicas : \E X : CopyBecomes(r, X)
<1>1. ScalarsOK /\ ScalarsOK' /\ Grows
  BY ScalarsStep DEF Inv
<1>2. Sound(Pruned(disk.kept), changes', born', overlap')
  BY <1>1, FreshFacts, OkStep DEF Fresh, Ok
<1>3. \A r : Refreshed(r) => CopyBecomes(r, Pruned(disk.kept))
  BY <1>2 DEF Refreshed, CopyBecomes
<1>4. ASSUME NEW t \in Tasks, Changes(t)
      PROVE  \E r \in Replicas : \E X : CopyBecomes(r, X)
  <2>1. PICK n, R, rec, compact : BeginsWell(t, n, R, rec, compact)
    BY <1>4, ChangesWell
  <2>2. Home[t] \in Replicas
    BY BoundsAssumption
  <2>3. CopyBecomes(Home[t], R)
    BY <2>1 DEF BeginsWell, Begins, CopyBecomes, fileVars
  <2>. QED BY <2>2, <2>3
<1>5. ASSUME NEW t \in Tasks, Refuse(t)
      PROVE  \E r \in Replicas : \E X : CopyBecomes(r, X)
  <2>1. Home[t] \in Replicas
    BY BoundsAssumption
  <2>. QED BY <2>1, <1>3, <1>5 DEF Refuse
<1>6. ASSUME NEW r \in Replicas, Read(r) \/ BootRead(r)
      PROVE  \E X : CopyBecomes(r, X)
  BY <1>3, <1>6 DEF Read, BootRead
<1>7. ASSUME NEW r \in Replicas, BootFetch(r)
      PROVE  mem' = mem \/ \E X : CopyBecomes(r, X)
  <2>1. Sound(mirror, changes', born', overlap')
    BY <1>1, OkStep DEF Inv
  <2>. QED BY <2>1, <1>7 DEF BootFetch, CopyBecomes
<1>8. ASSUME NEW r \in Replicas, Crash(r)
      PROVE  \E X : CopyBecomes(r, X)
  BY <1>8, EmptySound DEF Crash, CopyBecomes
<1>9. ASSUME NEW t \in Tasks,
             Ask(t) \/ Write(t) \/ WriteFails(t) \/ MirrorAfterWrite(t) \/ Backup(t) \/ Exec(t)
      PROVE  mem' = mem
  BY <1>9 DEF Ask, Write, WriteFails, MirrorAfterWrite, Backup, Exec, memVars
<1>10. ASSUME NEW r \in Replicas,
              BootCheck(r) \/ BootCompact(r) \/ BootMirror(r) \/ BootGivesUp(r)
       PROVE  mem' = mem
  BY <1>10 DEF BootCheck, BootCompact, BootMirror, BootGivesUp, memVars
<1>. QED BY <1>4, <1>5, <1>6, <1>7, <1>8, <1>9, <1>10, Steps

LEMMA CopiesStep ==
  ASSUME Inv, Next
  PROVE  CopiesOK'
<1>1. ScalarsOK /\ ScalarsOK' /\ Grows /\ CopiesOK
  BY ScalarsStep DEF Inv
<1>2. \A r \in Replicas : Sound(mem[r], changes', born', overlap')
  BY <1>1, OkStep DEF CopiesOK
<1>3. CASE mem' = mem
  BY <1>1, <1>2, <1>3 DEF CopiesOK, Ok
<1>4. ASSUME NEW r \in Replicas, NEW X, CopyBecomes(r, X)
      PROVE  CopiesOK'
  <2>1. X \in Maps
    BY <1>1, <1>4, NowRecords DEF CopyBecomes, ScalarsOK
  <2>2. mem' = [mem EXCEPT ![r] = X] /\ Sound(X, changes', born', overlap')
    BY <1>4 DEF CopyBecomes
  <2>3. mem' \in [Replicas -> Maps]
    BY <2>1, <2>2, <1>1 DEF CopiesOK
  <2>4. \A s \in Replicas : Sound(mem'[s], changes', born', overlap')
    BY <2>2, <1>1, <1>2 DEF CopiesOK
  <2>. QED BY <2>3, <2>4 DEF CopiesOK, Ok
<1>. QED BY <1>3, <1>4, CopySteps

LEMMA MirrorStep ==
  ASSUME Inv, Next
  PROVE  Ok(mirror)'
<1>1. ScalarsOK /\ ScalarsOK' /\ Grows
  BY ScalarsStep DEF Inv
<1>2. \A R : Ok(R) => Sound(R, changes', born', overlap')
  BY <1>1, OkStep
<1>3. /\ Ok(mirror) /\ \A r \in Replicas : Ok(mem[r])
      /\ \A t \in Tasks : Ok(task[t].snap)
  BY DEF Inv, CopiesOK, TasksOK
<1>4. ASSUME NEW t \in Tasks, Exec(t)
      PROVE  Ok(mirror')
  BY <1>3, <1>4 DEF Exec, Mirrored, NotMirrored
<1>5. ASSUME NEW r \in Replicas, BootMirror(r)
      PROVE  Ok(mirror')
  BY <1>3, <1>5 DEF BootMirror, Mirrored, NotMirrored
<1>6. ASSUME NEW r \in Replicas, Crash(r)
      PROVE  Ok(mirror')
  BY <1>3, <1>6 DEF Crash
<1>7. ASSUME NEW t \in Tasks, Changes(t)
      PROVE  mirror' = mirror
  <2>1. PICK n, R, rec, compact : BeginsWell(t, n, R, rec, compact)
    BY <1>7, ChangesWell
  <2>. QED BY <2>1 DEF BeginsWell, Begins, mirrorVars
<1>8. ASSUME NEW t \in Tasks,
             Ask(t) \/ Refuse(t) \/ Write(t) \/ WriteFails(t) \/ MirrorAfterWrite(t) \/ Backup(t)
      PROVE  mirror' = mirror
  BY <1>8 DEF Ask, Refuse, Write, WriteFails, MirrorAfterWrite, Backup, mirrorVars
<1>9. ASSUME NEW r \in Replicas,
             \/ Read(r) \/ BootRead(r) \/ BootCheck(r) \/ BootFetch(r) \/ BootCompact(r)
             \/ BootGivesUp(r)
      PROVE  mirror' = mirror
  BY <1>9 DEF Read, BootRead, BootCheck, BootFetch, BootCompact, BootGivesUp, mirrorVars
<1>10. Ok(mirror')
  BY <1>3, <1>4, <1>5, <1>6, <1>7, <1>8, <1>9, Steps
<1>. QED BY <1>2, <1>10 DEF Ok

-----------------------------------------------------------------------------
(* The tasks.                                                              *)

\* What can become of a task, apart from the end of all of a replica's.
TaskBecomes(t, w) ==
  /\ task' = [task EXCEPT ![t] = w] /\ boot' = boot
  /\ w \in TaskStates /\ Sound(w.snap, changes', born', overlap') /\ w.stamp \in 0..changes'
  /\ w.at # "idle" => boot[Home[t]] = "up"
ReplicaStarts(r) == boot[r] # "up" /\ task' = task /\ \E point : BootGoes(r, point)
ReplicaEnds(r) ==
  BootGoes(r, "down") /\ task' = [t \in Tasks |-> IF Home[t] = r THEN NoTask ELSE task[t]]

LEMMA NoTaskFacts ==
  /\ NoTask \in TaskStates /\ NoTask.at = "idle" /\ NoTask.stamp = 0 /\ NoTask.snap = Empty
  /\ \A c, b, o : Sound(NoTask.snap, c, b, o)
<1>1. Empty \in Maps /\ 0 \in 0..MaxChanges
  BY Bounds DEF Empty, Maps
<1>2. NoTask \in TaskStates
  BY <1>1 DEF NoTask, TaskStates
<1>3. NoTask.snap = Empty
  BY DEF NoTask
<1>. QED BY <1>2, <1>3, EmptySound DEF NoTask

LEMMA TaskSteps ==
  ASSUME Inv, Next
  PROVE  \/ task' = task /\ boot' = boot
         \/ \E t \in Tasks : \E w : TaskBecomes(t, w)
         \/ \E r \in Replicas : ReplicaStarts(r) \/ ReplicaEnds(r)
<1>1. /\ ScalarsOK /\ ScalarsOK' /\ Grows /\ TasksOK
      /\ changes \in 0..MaxChanges /\ changes' \in 0..MaxChanges /\ 0 \in 0..changes'
  <2>1. ScalarsOK /\ ScalarsOK' /\ Grows /\ TasksOK
    BY ScalarsStep DEF Inv
  <2>. QED BY <2>1, Bounds DEF ScalarsOK
<1>2. \A R : Ok(R) => Sound(R, changes', born', overlap')
  BY <1>1, OkStep
<1>3. \A t \in Tasks : Home[t] \in Replicas
  BY BoundsAssumption
<1>4. \A t \in Tasks : task[t] \in TaskStates /\ (task[t].at # "idle" => boot[Home[t]] = "up")
                       /\ Ok(task[t].snap) /\ task[t].stamp \in 0..changes
  BY <1>1 DEF TasksOK
<1>5. ASSUME NEW t \in Tasks, Ask(t)
      PROVE  \E w : TaskBecomes(t, w)
  <2>. DEFINE w == [NoTask EXCEPT !.at = "asked", !.stamp = changes']
  <2>2. w \in TaskStates /\ w.stamp \in 0..changes' /\ w.snap = Empty
    <3>1. changes' \in 0..changes'
      BY <1>1, Bounds
    <3>. QED BY <3>1, <1>1, NoTaskFacts DEF TaskStates
  <2>3. task' = [task EXCEPT ![t] = w] /\ boot' = boot /\ boot[Home[t]] = "up"
    BY <1>5 DEF Ask
  <2>. QED BY <2>2, <2>3, EmptySound DEF TaskBecomes
<1>6. ASSUME NEW t \in Tasks, Changes(t)
      PROVE  \E w : TaskBecomes(t, w)
  <2>1. PICK n, R, rec, compact : BeginsWell(t, n, R, rec, compact)
    BY <1>6, ChangesWell
  <2>. DEFINE b == compact \/ ManyLines(R)
              w == [NoTask EXCEPT !.at = "write", !.id = n, !.rec = rec, !.compact = b]
  <2>2. b \in BOOLEAN
    OBVIOUS
  <2>3. n \in Ids /\ rec \in Records \cup {None}
    BY <2>1, <1>1, NowRecords DEF BeginsWell
  <2>4. w \in TaskStates /\ w.stamp \in 0..changes' /\ w.snap = Empty
    <3>. HIDE DEF b
    <3>. QED BY <2>2, <2>3, <1>1, NoTaskFacts DEF TaskStates
  <2>5. task' = [task EXCEPT ![t] = w] /\ boot' = boot /\ task[t].at = "asked"
    BY <2>1 DEF BeginsWell, Begins, Locked
  <2>6. boot[Home[t]] = "up"
    BY <2>5, <1>4
  <2>. QED BY <2>4, <2>5, <2>6, EmptySound DEF TaskBecomes
<1>7. ASSUME NEW t \in Tasks, Refuse(t) \/ WriteFails(t) \/ Exec(t)
      PROVE  \E w : TaskBecomes(t, w)
  <2>1. task' = [task EXCEPT ![t] = NoTask] /\ boot' = boot
    BY <1>7 DEF Refuse, WriteFails, Exec
  <2>. QED BY <2>1, <1>1, NoTaskFacts DEF TaskBecomes
<1>8. ASSUME NEW t \in Tasks, Write(t)
      PROVE  \E w : TaskBecomes(t, w)
  <2>. DEFINE w == [task[t] EXCEPT !.at = "mirror"]
  <2>1. /\ w \in TaskStates /\ w.stamp = task[t].stamp /\ w.snap = task[t].snap
        /\ Ok(task[t].snap) /\ task[t].stamp \in 0..changes'
    <3>1. 0..changes \subseteq 0..changes'
      BY <1>1, Bounds DEF Grows
    <3>. QED BY <3>1, <1>4 DEF TaskStates
  <2>2. task' = [task EXCEPT ![t] = w] /\ boot' = boot /\ task[t].at = "write"
    BY <1>8 DEF Write
  <2>3. boot[Home[t]] = "up"
    BY <2>2, <1>4
  <2>. QED BY <2>1, <2>2, <2>3, <1>2 DEF TaskBecomes
<1>9. ASSUME NEW t \in Tasks, MirrorAfterWrite(t) \/ Backup(t)
      PROVE  \E w : TaskBecomes(t, w)
  <2>. DEFINE w == [NoTask EXCEPT !.at = "exec", !.snap = mem[Home[t]]]
  <2>2. mem[Home[t]] \in Maps /\ Ok(mem[Home[t]])
    BY <1>3 DEF Inv, CopiesOK
  <2>3. w \in TaskStates /\ w.stamp \in 0..changes' /\ Sound(w.snap, changes', born', overlap')
    BY <2>2, <1>1, <1>2, NoTaskFacts DEF TaskStates
  <2>4. task' = [task EXCEPT ![t] = w] /\ boot' = boot
    BY <1>9 DEF MirrorAfterWrite, Backup, Builds
  <2>5. boot[Home[t]] = "up"
    BY <1>4, <1>9 DEF MirrorAfterWrite, Backup
  <2>. QED BY <2>3, <2>4, <2>5 DEF TaskBecomes
<1>10. ASSUME NEW r \in Replicas,
              \/ BootRead(r) \/ BootCheck(r) \/ BootFetch(r) \/ BootCompact(r)
              \/ BootMirror(r) \/ BootGivesUp(r)
       PROVE  ReplicaStarts(r)
  BY <1>10 DEF BootRead, BootCheck, BootFetch, BootCompact, BootMirror, BootGivesUp, ReplicaStarts
<1>11. ASSUME NEW r \in Replicas, Crash(r)
       PROVE  ReplicaEnds(r)
  BY <1>11 DEF Crash, ReplicaEnds
<1>12. ASSUME NEW r \in Replicas, Read(r)
       PROVE  task' = task /\ boot' = boot
  BY <1>12 DEF Read
<1>. QED BY <1>5, <1>6, <1>7, <1>8, <1>9, <1>10, <1>11, <1>12, Steps

LEMMA TasksStep ==
  ASSUME Inv, Next
  PROVE  TasksOK'
<1>1. ScalarsOK /\ ScalarsOK' /\ Grows /\ TasksOK
  BY ScalarsStep DEF Inv
<1>2. \A t \in Tasks : /\ Sound(task[t].snap, changes', born', overlap') /\ task[t].stamp \in 0..changes'
                       /\ task[t].at # "idle" => boot[Home[t]] = "up"
  <2>1. 0..changes \subseteq 0..changes'
    BY <1>1, Bounds DEF Grows, ScalarsOK
  <2>. QED BY <2>1, <1>1, OkStep DEF TasksOK
<1>3. CASE task' = task /\ boot' = boot
  BY <1>1, <1>2, <1>3 DEF TasksOK, Ok
<1>4. ASSUME NEW t \in Tasks, NEW w, TaskBecomes(t, w)
      PROVE  TasksOK'
  <2>1. task' \in [Tasks -> TaskStates]
    BY <1>1, <1>4 DEF TasksOK, TaskBecomes
  <2>2. \A s \in Tasks : task'[s] = IF s = t THEN w ELSE task[s]
    BY <1>1, <1>4 DEF TasksOK, TaskBecomes
  <2>. QED BY <2>1, <2>2, <1>2, <1>4 DEF TasksOK, TaskBecomes, Ok
<1>5. ASSUME NEW r \in Replicas, ReplicaStarts(r)
      PROVE  TasksOK'
  <2>1. \A t \in Tasks : task[t].at # "idle" => boot'[Home[t]] = "up"
    BY <1>1, <1>2, <1>5 DEF ReplicaStarts, BootGoes, ScalarsOK
  <2>. QED BY <2>1, <1>1, <1>2, <1>5 DEF ReplicaStarts, TasksOK, Ok
<1>6. ASSUME NEW r \in Replicas, ReplicaEnds(r)
      PROVE  TasksOK'
  <2>1. \A t \in Tasks : task'[t] = IF Home[t] = r THEN NoTask ELSE task[t]
    BY <1>6 DEF ReplicaEnds
  <2>2. \A t \in Tasks : task[t].at # "idle" /\ Home[t] # r => boot'[Home[t]] = "up"
    BY <1>1, <1>2, <1>6 DEF ReplicaEnds, BootGoes, ScalarsOK
  <2>3. task' \in [Tasks -> TaskStates]
    BY <1>1, <1>6, NoTaskFacts DEF ReplicaEnds, TasksOK
  <2>4. 0 \in 0..changes'
    BY <1>1, Bounds DEF ScalarsOK
  <2>. QED BY <2>1, <2>2, <2>3, <2>4, <1>2, NoTaskFacts DEF TasksOK, Ok
<1>. QED BY <1>3, <1>4, <1>5, <1>6, TaskSteps

-----------------------------------------------------------------------------
(* The writer.                                                             *)

\* Nobody begins a change; who writes has its copy as it was.
WritersStay ==
  /\ Writing' \subseteq Writing
  /\ \A t \in Writing' : task'[t] = task[t] /\ mem'[Home[t]] = mem[Home[t]]
  /\ UNCHANGED <<disk, overlap>> \/ \E r \in Replicas : Restores(r)

LEMMA WriterSteps ==
  ASSUME Inv, Next
  PROVE  \/ \E t \in Tasks : \E n, R, rec, compact : BeginsWell(t, n, R, rec, compact)
         \/ Writing' = {}
         \/ WritersStay
<1>1. /\ \A t \in Writing : Writing = {t} /\ boot[Home[t]] = "up"
      /\ mem \in [Replicas -> Maps] /\ task \in [Tasks -> TaskStates]
  BY DEF Inv, WriterOK, CopiesOK, TasksOK, Writing
<1>2. \A t, w : task' = [task EXCEPT ![t] = w] /\ w.at # "write" =>
                  /\ Writing' \subseteq Writing \ {t}
                  /\ \A s \in Writing' : task'[s] = task[s]
  BY <1>1 DEF Writing
<1>3. NoTask.at # "write" /\ \A t \in Writing : [task[t] EXCEPT !.at = "mirror"].at # "write"
  BY <1>1, NoTaskFacts DEF Writing, TaskStates
<1>4. ASSUME NEW t \in Tasks, Ask(t)
      PROVE  WritersStay
  <2>1. [NoTask EXCEPT !.at = "asked", !.stamp = changes'].at = "asked"
    BY DEF NoTask
  <2>2. UNCHANGED <<mem, disk, overlap>>
    BY <1>4 DEF Ask, memVars, fileVars
  <2>. QED BY <2>1, <2>2, <1>2, <1>4 DEF Ask, WritersStay
<1>5. ASSUME NEW t \in Tasks, Changes(t)
      PROVE  \E n, R, rec, compact : BeginsWell(t, n, R, rec, compact)
  BY <1>5, ChangesWell
<1>6. ASSUME NEW t \in Tasks, Refuse(t)
      PROVE  Writing' = {}
  BY <1>2, <1>3, <1>6 DEF Refuse, Locked
<1>7. ASSUME NEW t \in Tasks, Write(t) \/ WriteFails(t)
      PROVE  Writing' = {}
  <2>1. t \in Writing /\ Writing = {t}
    BY <1>1, <1>7 DEF Write, WriteFails, Writing
  <2>2. Writing' \subseteq Writing \ {t}
    <3>1. CASE Write(t)
      <4>. DEFINE w == [task[t] EXCEPT !.at = "mirror"]
      <4>1. task' = [task EXCEPT ![t] = w]
        BY <3>1 DEF Write
      <4>. QED BY <4>1, <2>1, <1>2, <1>3
    <3>2. CASE WriteFails(t)
      BY <3>2, <1>2, <1>3 DEF WriteFails
    <3>. QED BY <3>1, <3>2, <1>7
  <2>. QED BY <2>1, <2>2
<1>8. ASSUME NEW t \in Tasks, MirrorAfterWrite(t) \/ Backup(t)
      PROVE  WritersStay
  <2>. DEFINE w == [NoTask EXCEPT !.at = "exec", !.snap = mem[Home[t]]]
  <2>1. w.at # "write"
    BY DEF NoTask
  <2>2. UNCHANGED <<mem, disk, overlap>> /\ task' = [task EXCEPT ![t] = w]
    BY <1>8 DEF MirrorAfterWrite, Backup, Builds, memVars, fileVars
  <2>. HIDE DEF w
  <2>. QED BY <2>1, <2>2, <1>2 DEF WritersStay
<1>9. ASSUME NEW t \in Tasks, Exec(t)
      PROVE  WritersStay
  <2>1. UNCHANGED <<mem, disk, overlap>> /\ task' = [task EXCEPT ![t] = NoTask]
    BY <1>9 DEF Exec, memVars, fileVars
  <2>. QED BY <2>1, <1>2, <1>3 DEF WritersStay
<1>10. ASSUME NEW r \in Replicas, Read(r) \/ BootRead(r)
       PROVE  Writing' = {}
  BY <1>10 DEF Read, BootRead, Writing
<1>11. ASSUME NEW r \in Replicas, BootCheck(r) \/ BootMirror(r) \/ BootGivesUp(r)
       PROVE  WritersStay
  <2>1. UNCHANGED <<mem, disk, overlap, task>>
    BY <1>11 DEF BootCheck, BootMirror, BootGivesUp, memVars, fileVars
  <2>. QED BY <2>1 DEF WritersStay, Writing
<1>12. ASSUME NEW r \in Replicas, BootFetch(r)
       PROVE  WritersStay
  <2>1. /\ UNCHANGED <<disk, overlap, task>> /\ boot[r] = "fetch"
        /\ \A s \in Replicas : s # r => mem'[s] = mem[s]
    BY <1>1, <1>12 DEF BootFetch, fileVars
  <2>2. Writing' = Writing
    BY <2>1 DEF Writing
  <2>3. \A t \in Writing : Home[t] # r /\ Home[t] \in Replicas
    BY <2>1, <1>1, BoundsAssumption DEF Writing
  <2>. QED BY <2>1, <2>2, <2>3 DEF WritersStay
<1>13. ASSUME NEW r \in Replicas, BootCompact(r)
       PROVE  WritersStay
  <2>1. Restores(r) /\ UNCHANGED <<mem, task>>
    BY <1>13 DEF BootCompact, Restores, countVars
  <2>. QED BY <2>1 DEF WritersStay, Writing
<1>14. ASSUME NEW r \in Replicas, Crash(r)
       PROVE  Writing' = {} \/ WritersStay
  <2>1. /\ \A t \in Tasks : task'[t] = IF Home[t] = r THEN NoTask ELSE task[t]
        /\ \A s \in Replicas : s # r => mem'[s] = mem[s]
        /\ overlap' = overlap
    BY <1>1, <1>14 DEF Crash
  <2>2. \A t \in Tasks : task'[t].at = "write" => Home[t] # r /\ task'[t] = task[t]
    BY <2>1, <1>3
  <2>3. Writing' \subseteq Writing /\ \A t \in Writing' : Home[t] # r /\ task'[t] = task[t]
    BY <2>2 DEF Writing
  <2>4. CASE \E t \in Writing : Home[t] = r
    BY <2>3, <2>4, <1>1
  <2>5. CASE \A t \in Writing : Home[t] # r
    <3>1. disk' = disk
      BY <2>5, <1>14 DEF Crash, Writing
    <3>2. \A t \in Writing' : mem'[Home[t]] = mem[Home[t]]
      BY <2>1, <2>3, BoundsAssumption DEF Writing
    <3>. QED BY <3>1, <3>2, <2>1, <2>3 DEF WritersStay
  <2>. QED BY <2>4, <2>5
<1>. QED BY <1>4, <1>5, <1>6, <1>7, <1>8, <1>9, <1>10, <1>11, <1>12, <1>13, <1>14, Steps

LEMMA WriterStep ==
  ASSUME Inv, Next
  PROVE  WriterOK'
<1>1. /\ ScalarsOK /\ ScalarsOK' /\ Grows /\ mem \in [Replicas -> Maps]
      /\ task \in [Tasks -> TaskStates] /\ disk \in Files
  BY ScalarsStep DEF Inv, CopiesOK, TasksOK, DiskOK
<1>2. ASSUME NEW t \in Tasks, NEW n, NEW R, NEW rec, NEW compact, BeginsWell(t, n, R, rec, compact)
      PROVE  WriterOK'
  <2>. DEFINE b == compact \/ ManyLines(R)
              w == [NoTask EXCEPT !.at = "write", !.id = n, !.rec = rec, !.compact = b]
  <2>1. w.at = "write" /\ w.id = n /\ w.rec = rec /\ (w.compact <=> b)
    BY DEF NoTask
  <2>2. task' = [task EXCEPT ![t] = w] /\ Writing = {} /\ mem' = [mem EXCEPT ![Home[t]] = R]
        /\ UNCHANGED <<disk, overlap, changes>>
    BY <1>2 DEF BeginsWell, Begins, Locked, fileVars
  <2>3. Writing' = {t} /\ task'[t] = w
    BY <2>1, <2>2, <1>1 DEF Writing
  <2>4. mem'[Home[t]] = R
    BY <2>2, <1>1, BoundsAssumption
  <2>5. ~b => ~compact /\ disk.raw < Longest
    BY <1>1, Bounds DEF ManyLines, Files
  <2>. HIDE DEF w, b
  <2>6. /\ n \in Ids /\ rec \in Now(changes) \cup {None} /\ (~compact => rec # None /\ n \in born')
        /\ Based(disk.kept, R, n, rec)
    BY <1>2 DEF BeginsWell
  <2>. QED BY <2>1, <2>2, <2>3, <2>4, <2>5, <2>6 DEF WriterOK
<1>3. CASE Writing' = {}
  BY <1>3 DEF WriterOK
<1>4. CASE WritersStay
  <2>1. Now(changes) \subseteq Now(changes')
    <3>1. 0..changes \subseteq 0..changes'
      BY <1>1, Bounds DEF ScalarsOK, Grows
    <3>. QED BY <3>1 DEF Now
  <2>2. ASSUME NEW t \in Writing'
        PROVE  /\ Writing' = {t} /\ task'[t].id \in Ids /\ task'[t].rec \in Now(changes') \cup {None}
               /\ ~task'[t].compact => task'[t].rec # None /\ task'[t].id \in born'
    <3>1. t \in Writing /\ task'[t] = task[t] /\ Writing' \subseteq Writing
      BY <1>4 DEF WritersStay
    <3>2. /\ Writing = {t} /\ task[t].id \in Ids /\ task[t].rec \in Now(changes) \cup {None}
          /\ ~task[t].compact => task[t].rec # None /\ task[t].id \in born
      BY <3>1 DEF Inv, WriterOK
    <3>. QED BY <3>1, <3>2, <2>1, <1>1 DEF Grows
  <2>3. ASSUME NEW t \in Writing'
        PROVE  /\ ~task'[t].compact => disk'.raw < Longest
               /\ ~overlap' => Based(disk'.kept, mem'[Home[t]], task'[t].id, task'[t].rec)
    <3>1. t \in Writing /\ task'[t] = task[t] /\ mem'[Home[t]] = mem[Home[t]]
      BY <1>4 DEF WritersStay
    <3>2. /\ ~task[t].compact => disk.raw < Longest
          /\ ~overlap => Based(disk.kept, mem[Home[t]], task[t].id, task[t].rec)
      BY <3>1 DEF Inv, WriterOK
    <3>3. CASE UNCHANGED <<disk, overlap>>
      BY <3>1, <3>2, <3>3
    <3>4. ASSUME NEW r \in Replicas, Restores(r)
          PROVE  overlap' /\ disk'.raw < Longest
      <4>1. disk'.raw = Cardinality(Known(mem[r])) /\ overlap'
        BY <3>1, <3>4 DEF Restores, Compacted
      <4>. QED BY <4>1, Counted, Bounds
    <3>. QED BY <3>1, <3>2, <3>3, <3>4, <1>4 DEF WritersStay
  <2>. QED BY <2>2, <2>3 DEF WriterOK
<1>. QED BY <1>2, <1>3, <1>4, WriterSteps

-----------------------------------------------------------------------------
(* The copies that are served.                                             *)

\* Nothing that concerns the copy of r changes for the worse.
CopyStays(r) ==
  /\ mem'[r] = mem[r] /\ disk' = disk /\ (refused => refused') /\ (current'[r] => current[r])
  /\ boot'[r] \notin {"down", "compact"} => boot[r] \notin {"down", "compact"}
  /\ \A t \in Writing : Home[t] = r => t \in Writing'
CopyIsNew(r) == mem'[r] = Pruned(disk'.kept)
CopyUnserved(r) ==
  \/ ~current'[r] \/ refused' \/ boot'[r] \in {"down", "compact"}
  \/ \E t \in Writing' : Home[t] = r

LEMMA ServedSteps ==
  ASSUME Inv, Next, NEW r \in Replicas
  PROVE  CopyStays(r) \/ CopyIsNew(r) \/ CopyUnserved(r)
<1>1. /\ mem \in [Replicas -> Maps] /\ task \in [Tasks -> TaskStates]
      /\ current \in [Replicas -> BOOLEAN]
      /\ boot \in [Replicas -> {"down", "check", "fetch", "compact", "mirror", "up"}]
      /\ \A t \in Tasks : Home[t] \in Replicas
  BY BoundsAssumption DEF Inv, CopiesOK, TasksOK, ScalarsOK
<1>2. \A t, w : /\ task' = [task EXCEPT ![t] = w] /\ t \notin Writing
                => \A s \in Writing : s \in Writing'
  BY <1>1 DEF Writing
<1>3. FileChanged => CopyUnserved(r)
  BY DEF FileChanged, CopyUnserved
<1>4. ASSUME NEW s \in Replicas, Refreshed(s), Writing = {}, disk' = disk, refused' = refused,
             boot' = boot \/ (BootRead(s) /\ boot' = [boot EXCEPT ![s] = "check"])
      PROVE  CopyStays(r) \/ CopyIsNew(r)
  <2>1. CASE r = s
    BY <2>1, <1>1, <1>4 DEF Refreshed, CopyIsNew
  <2>2. CASE r # s
    <3>1. mem'[r] = mem[r] /\ current'[r] = current[r] /\ boot'[r] = boot[r]
      BY <2>2, <1>1, <1>4 DEF Refreshed
    <3>. QED BY <3>1, <1>4 DEF CopyStays
  <2>. QED BY <2>1, <2>2
<1>5. ASSUME NEW t \in Tasks, Ask(t) \/ MirrorAfterWrite(t) \/ Backup(t) \/ Exec(t)
      PROVE  CopyStays(r)
  <2>1. UNCHANGED <<mem, current, disk, refused, boot>> /\ t \notin Writing
    BY <1>5 DEF Ask, MirrorAfterWrite, Backup, Exec, memVars, fileVars, Writing
  <2>2. \E w : task' = [task EXCEPT ![t] = w]
    BY <1>5 DEF Ask, MirrorAfterWrite, Backup, Builds, Exec
  <2>. QED BY <2>1, <2>2, <1>2 DEF CopyStays
<1>6. ASSUME NEW t \in Tasks, Changes(t)
      PROVE  CopyStays(r) \/ CopyUnserved(r)
  <2>1. PICK n, R, rec, compact : BeginsWell(t, n, R, rec, compact)
    BY <1>6, ChangesWell
  <2>. DEFINE w == [NoTask EXCEPT !.at = "write", !.id = n, !.rec = rec,
                                  !.compact = compact \/ ManyLines(R)]
  <2>2. /\ task' = [task EXCEPT ![t] = w] /\ Writing = {} /\ mem' = [mem EXCEPT ![Home[t]] = R]
        /\ current' = [current EXCEPT ![Home[t]] = TRUE] /\ UNCHANGED <<disk, boot, refused>>
    BY <2>1 DEF BeginsWell, Begins, Locked, fileVars
  <2>3. w.at = "write"
    BY DEF NoTask
  <2>4. CASE r = Home[t]
    <3>1. t \in Writing'
      <4>. HIDE DEF w
      <4>. QED BY <2>2, <2>3, <1>1 DEF Writing
    <3>. QED BY <3>1, <2>4 DEF CopyUnserved
  <2>5. CASE r # Home[t]
    BY <2>2, <2>5, <1>1 DEF CopyStays
  <2>. QED BY <2>4, <2>5
<1>7. ASSUME NEW t \in Tasks, Refuse(t)
      PROVE  CopyStays(r) \/ CopyIsNew(r)
  <2>1. Refreshed(Home[t]) /\ Writing = {} /\ UNCHANGED <<disk, refused, boot>>
    BY <1>7 DEF Refuse, Locked, fileVars
  <2>. QED BY <2>1, <1>1, <1>4
<1>8. ASSUME NEW t \in Tasks, Write(t) \/ WriteFails(t)
      PROVE  CopyUnserved(r)
  BY <1>3, <1>8 DEF Write, WriteFails, WritesWhole, CopyUnserved
<1>9. ASSUME NEW s \in Replicas, Read(s) \/ BootRead(s)
      PROVE  CopyStays(r) \/ CopyIsNew(r)
  <2>1. Refreshed(s) /\ Writing = {} /\ UNCHANGED <<disk, refused>>
    BY <1>9 DEF Read, BootRead, fileVars
  <2>2. boot' = boot \/ (BootRead(s) /\ boot' = [boot EXCEPT ![s] = "check"])
    BY <1>9 DEF Read, BootRead, BootGoes
  <2>. QED BY <2>1, <2>2, <1>4
<1>10. ASSUME NEW s \in Replicas, BootCheck(s) \/ BootMirror(s)
       PROVE  CopyStays(r)
  <2>1. UNCHANGED <<mem, current, disk, refused, task>>
    BY <1>10 DEF BootCheck, BootMirror, memVars, fileVars
  <2>2. boot'[r] = boot[r] \/ boot[r] \in {"check", "mirror"}
    BY <1>1, <1>10 DEF BootCheck, BootMirror, BootGoes
  <2>. QED BY <2>1, <2>2 DEF CopyStays, Writing
<1>11. ASSUME NEW s \in Replicas, BootFetch(s)
       PROVE  CopyStays(r) \/ CopyUnserved(r)
  <2>1. UNCHANGED <<current, disk, refused, task>> /\ boot[s] = "fetch"
    BY <1>11 DEF BootFetch, fileVars
  <2>2. CASE r # s
    <3>1. mem'[r] = mem[r] /\ boot'[r] = boot[r]
      BY <2>2, <1>1, <1>11 DEF BootFetch, BootGoes
    <3>. QED BY <3>1, <2>1 DEF CopyStays, Writing
  <2>3. CASE r = s
    <3>1. (mem' = mem) \/ boot'[r] = "compact"
      BY <2>3, <1>1, <1>11 DEF BootFetch, BootGoes
    <3>. QED BY <3>1, <2>1, <2>3 DEF CopyStays, CopyUnserved, Writing
  <2>. QED BY <2>2, <2>3
<1>12. ASSUME NEW s \in Replicas, BootCompact(s) \/ BootGivesUp(s)
       PROVE  CopyUnserved(r)
  BY <1>3, <1>12 DEF BootCompact, BootGivesUp, CopyUnserved
<1>13. ASSUME NEW s \in Replicas, Crash(s)
       PROVE  CopyStays(r) \/ CopyUnserved(r)
  <2>1. /\ \A t \in Tasks : task'[t] = IF Home[t] = s THEN NoTask ELSE task[t]
        /\ \A q \in Replicas : q # s => mem'[q] = mem[q] /\ boot'[q] = boot[q]
        /\ boot'[s] = "down" /\ refused' = refused
    BY <1>1, <1>13 DEF Crash, BootGoes
  <2>2. CASE r = s
    BY <2>1, <2>2 DEF CopyUnserved
  <2>3. CASE r # s
    <3>1. FileChanged \/ (disk' = disk /\ current' = [current EXCEPT ![s] = FALSE])
      BY <1>13 DEF Crash, WritesPart, WritesWhole
    <3>2. \A t \in Writing : Home[t] = r => t \in Writing'
      BY <2>1, <2>3 DEF Writing
    <3>. QED BY <3>1, <3>2, <2>1, <2>3, <1>1, <1>3 DEF CopyStays
  <2>. QED BY <2>2, <2>3
<1>. QED BY <1>5, <1>6, <1>7, <1>8, <1>9, <1>10, <1>11, <1>12, <1>13, Steps

LEMMA ServedStep ==
  ASSUME Inv, Next
  PROVE  ServedOK'
<1>. SUFFICES ASSUME NEW r \in Replicas, ~CopyUnserved(r)
              PROVE  CopyIsNew(r)
  BY DEF ServedOK, CopyUnserved, CopyIsNew
<1>1. CASE CopyStays(r)
  <2>1. /\ current[r] /\ ~refused /\ boot[r] \notin {"down", "compact"}
        /\ \A t \in Writing : Home[t] # r
    BY <1>1 DEF CopyStays, CopyUnserved
  <2>2. mem[r] = Pruned(disk.kept)
    BY <2>1 DEF Inv, ServedOK
  <2>. QED BY <2>2, <1>1 DEF CopyStays, CopyIsNew
<1>. QED BY <1>1, ServedSteps

-----------------------------------------------------------------------------
(* The invariant and the theorems.                                         *)

LEMMA InitInv ==
  ASSUME Init
  PROVE  Inv
<1>1. PICK left \in SUBSET Ids :
        /\ Cardinality(left) <= 1 /\ born = left
        /\ mirror = [n \in Ids |-> IF n \in left THEN First ELSE None]
  BY DEF Init
<1>2. /\ changes = 0 /\ mishaps = 0 /\ overlap = FALSE /\ refused = FALSE /\ torn = FALSE
      /\ disk = [there |-> FALSE, kept |-> Empty, raw |-> 0, open |-> FALSE] /\ latest = Empty
      /\ mem = [r \in Replicas |-> Empty] /\ task = [t \in Tasks |-> NoTask]
      /\ current = [r \in Replicas |-> FALSE] /\ dirty = [r \in Replicas |-> TRUE]
      /\ boot = [r \in Replicas |-> "down"]
  BY DEF Init
<1>3. ScalarsOK
  <2>1. current \in [Replicas -> BOOLEAN] /\ dirty \in [Replicas -> BOOLEAN]
    BY <1>2, Zenon
  <2>2. boot \in [Replicas -> {"down", "check", "fetch", "compact", "mirror", "up"}]
    BY <1>2
  <2>3. changes \in 0..MaxChanges /\ mishaps \in 0..MaxMishaps
    BY <1>2, Bounds
  <2>4. born \subseteq Ids /\ torn \in BOOLEAN /\ overlap \in BOOLEAN /\ refused \in BOOLEAN
    BY <1>1, <1>2
  <2>. QED BY <2>1, <2>2, <2>3, <2>4 DEF ScalarsOK
<1>4. Empty \in Maps /\ 0 \in 0..Longest /\ 0 \in 0..changes
  BY <1>2, Bounds DEF Empty, Maps
<1>5. DiskOK
  <2>1. disk \in Files
    BY <1>2, <1>4 DEF Files
  <2>2. latest \in [Ids -> Records \cup {None, Gone}]
    BY <1>2 DEF Empty
  <2>3. disk.kept = Empty /\ ~disk.open /\ ~disk.there
    BY <1>2
  <2>. QED BY <2>1, <2>2, <2>3, <1>2, EmptySound DEF DiskOK, Ok
<1>6. CopiesOK
  BY <1>2, <1>4, EmptySound DEF CopiesOK, Ok
<1>7. Ok(mirror)
  <2>1. First \in Now(changes) /\ First # None
    <3>1. 1 \in Texts
      BY Bounds DEF Texts
    <3>2. First \in Now(changes)
      BY <3>1, <1>4 DEF First, Now
    <3>. QED BY <3>2, <1>3, NowRecords DEF ScalarsOK
  <2>2. mirror \in [Ids -> Now(changes) \cup {None}] /\ Known(mirror) \subseteq born
    BY <2>1, <1>1 DEF Known
  <2>3. Cardinality(Active(mirror)) <= MaxActive
    <3>1. Active(mirror) \subseteq left
      BY <1>1 DEF Active
    <3>2. IsFiniteSet(left)
      BY BoundsAssumption, FS_Subset
    <3>3. Cardinality(Active(mirror)) <= Cardinality(left) /\ Cardinality(left) \in Nat
      BY <3>1, <3>2, FS_Subset, FS_CardinalityType
    <3>. QED BY <3>3, <1>1, Counted, Bounds
  <2>. QED BY <2>2, <2>3 DEF Ok, Sound
<1>8. Writing = {}
  BY <1>2, NoTaskFacts DEF Writing
<1>9. TasksOK
  BY <1>2, <1>4, NoTaskFacts DEF TasksOK, Ok
<1>10. WriterOK /\ ServedOK
  BY <1>2, <1>8 DEF WriterOK, ServedOK
<1>11. WritesKept
  BY <1>2 DEF WritesKept, Empty
<1>. QED BY <1>3, <1>5, <1>6, <1>7, <1>9, <1>10, <1>11 DEF Inv

LEMMA InvStep ==
  ASSUME Inv, [Next]_vars
  PROVE  Inv'
<1>1. CASE Next
  BY <1>1, ScalarsStep, DiskStep, CopiesStep, MirrorStep, TasksStep, WriterStep, ServedStep,
     WritesKeptStep DEF Inv
<1>2. CASE UNCHANGED vars
  BY <1>2 DEF vars, memVars, fileVars, mirrorVars, countVars, Inv, ScalarsOK, DiskOK, CopiesOK,
              TasksOK, WriterOK, ServedOK, WritesKept, Writing, Ok
<1>. QED BY <1>1, <1>2

LEMMA Invariance == Spec => []Inv
BY InitInv, InvStep, PTL DEF Spec

\* The variables keep their types: no record is newer than the changes, and the file never has
\* more lines than the bound for compaction lets through.
THEOREM TypeCorrect == Spec => []TypeOK
<1>1. Inv => TypeOK
  <2>. SUFFICES ASSUME Inv PROVE TypeOK
    OBVIOUS
  <2>1. ScalarsOK /\ DiskOK /\ CopiesOK /\ TasksOK /\ mirror \in Maps
    BY NowRecords DEF Inv, ScalarsOK, Ok
  <2>. QED BY <2>1 DEF TypeOK, ScalarsOK, DiskOK, CopiesOK, TasksOK
<1>. QED BY <1>1, Invariance, PTL

\* At most notice_active_max notices are active in the file, in every copy and in the mirror, in
\* every execution in which no restore meets another replica.
THEOREM LimitHolds == Spec => []ActiveLimit
<1>1. Inv => ActiveLimit
  BY DEF Inv, DiskOK, CopiesOK, Ok, Sound, ActiveLimit
<1>. QED BY <1>1, Invariance, PTL

\* What the last whole write said of a notice stays in the file, and what was deleted stays away.
THEOREM WritesAreKept == Spec => []WritesKept
<1>1. Inv => WritesKept
  BY DEF Inv
<1>. QED BY <1>1, Invariance, PTL

\* A copy that is served without a reading agrees with the file.
THEOREM ServedIsFile == Spec => []ServedIsWritten
<1>1. Inv => ServedIsWritten
  BY DEF Inv, ServedOK, Served, ServedIsWritten
<1>. QED BY <1>1, Invariance, PTL

\* Every step of the replicas is, for who reads the file, one of the board's or none.
THEOREM FileIsBoard == Spec => KeepsBoard
<1>1. Inv /\ [Next]_vars => [~torn' /\ ~overlap' => Board!Next \/ UNCHANGED disk.kept]_vars
  BY BoardStep
<1>. QED BY <1>1, Invariance, PTL DEF Spec, KeepsBoard
=============================================================================
