--------------------------- MODULE WorkflowProofs ---------------------------
(***************************************************************************)
(* Proofs about a query of app/main.py and its log.  Workflow: the retry   *)
(* after a refused session is made with another one, and each permit is    *)
(* free or held where it is needed.  QueryHistory, which the end of every  *)
(* query writes: the shared history keeps the newest entries, and the      *)
(* replicas' flags tell the truth about it.                                *)
(*                                                                         *)
(* Sessions are numbered in the order of their logins, so that a login     *)
(* gives either a session of the store, which lost the refused one when it *)
(* was refused and never gets it back, or one newer than all.              *)
(***************************************************************************)
EXTENDS Workflow, QueryHistory, FiniteSetTheorems, SequenceTheorems, WellFoundedInduction, TLAPS

StoreOK == logins \in 0..MaxLogins /\ store \subseteq 1..logins
SessOK ==
  /\ at \in [Requests -> Points]
  /\ sess \in [Requests -> 0..logins] /\ refused \in [Requests -> 0..logins]
\* A request that logs in again was refused with a session the service has dropped.
Dropped == \A r \in Requests : at[r] = "relogin" => refused[r] \notin store
Inv == StoreOK /\ SessOK /\ Dropped /\ RetryIsFresh

-----------------------------------------------------------------------------
(* The newest session of the store.                                        *)

LEMMA Least ==
  ASSUME NEW S \in SUBSET Nat, S # {}
  PROVE  \E m \in S : \A k \in S : m <= k
<1>1. PICK m \in S : \A k \in S : <<k, m>> \notin OpToRel(<, Nat)
  BY NatLessThanWellFounded, WFMin, Zenon
<1>2. \A k \in S : ~(k < m)
  BY <1>1 DEF OpToRel
<1>. QED BY <1>2

LEMMA NewestIsStored ==
  ASSUME StoreOK
  PROVE  Newest \in store \cup {0}
<1>. DEFINE Ages == {logins - s : s \in store \cup {0}}
<1>1. store \cup {0} \subseteq 0..logins /\ logins \in Nat
  BY BoundsAssumption DEF StoreOK
<1>2. Ages \in SUBSET Nat /\ Ages # {}
  BY <1>1
<1>3. PICK a \in Ages : \A k \in Ages : a <= k
  BY <1>2, Least
<1>4. PICK s \in store \cup {0} : a = logins - s
  BY <1>3
<1>5. \A t \in store : t <= s
  <2>. SUFFICES ASSUME NEW t \in store PROVE t <= s
    OBVIOUS
  <2>1. logins - t \in Ages
    OBVIOUS
  <2>2. logins - s <= logins - t
    BY <1>3, <1>4, <2>1
  <2>. QED BY <1>1, <2>2
<1>6. \E n \in store \cup {0} : \A t \in store : t <= n
  BY <1>5
<1>. QED BY <1>6, Zenon DEF Newest

-----------------------------------------------------------------------------
(* One request moves from one point to another.                            *)

\* The request r is at p, and no session of another request changes.
Moves(r, p) ==
  /\ at' = [at EXCEPT ![r] = p] /\ p \in Points
  /\ \A q \in Requests \ {r} : sess'[q] = sess[q] /\ refused'[q] = refused[q]

\* What a step makes of the store: sessions go, and those that come are new.
StoreGrows ==
  /\ logins' \in logins..MaxLogins
  /\ store' \subseteq store \cup (logins + 1)..logins'

LEMMA Grown ==
  ASSUME Inv, StoreGrows
  PROVE  /\ StoreOK' /\ logins' \in Int /\ 0..logins \subseteq 0..logins'
         /\ \A n \in 0..logins : n \notin store => n \notin store'
  BY BoundsAssumption DEF Inv, StoreOK, StoreGrows

\* A move keeps the invariant if it does so at the request that moves.
LEMMA MoveKeeps ==
  ASSUME Inv, StoreGrows, NEW r \in Requests, NEW p, Moves(r, p),
         sess' \in [Requests -> 0..logins'], refused' \in [Requests -> 0..logins'],
         p = "relogin" => refused'[r] \notin store',
         p = "requery" => sess'[r] # refused'[r]
  PROVE  Inv'
<1>1. StoreOK' /\ \A n \in 0..logins : n \notin store => n \notin store'
  BY Grown
<1>2. SessOK'
  BY DEF Inv, SessOK, Moves
<1>3. at'[r] = p /\ \A q \in Requests \ {r} : at'[q] = at[q]
  BY DEF Inv, SessOK, Moves
<1>4. Dropped'
  <2>. SUFFICES ASSUME NEW q \in Requests, at'[q] = "relogin"
                PROVE  refused'[q] \notin store'
    BY DEF Dropped
  <2>1. CASE q = r
    BY <2>1, <1>3
  <2>2. CASE q # r
    BY <2>2, <1>1, <1>3 DEF Inv, SessOK, Dropped, Moves
  <2>. QED BY <2>1, <2>2
<1>5. RetryIsFresh'
  <2>. SUFFICES ASSUME NEW q \in Requests, at'[q] = "requery"
                PROVE  sess'[q] # refused'[q]
    BY DEF RetryIsFresh
  <2>1. CASE q = r
    BY <2>1, <1>3
  <2>2. CASE q # r
    BY <2>2, <1>3 DEF Inv, RetryIsFresh, Moves
  <2>. QED BY <2>1, <2>2
<1>. QED BY <1>1, <1>2, <1>4, <1>5 DEF Inv

\* Moves that give no session, to a point that is not about a refused one.
LEMMA PlainMove ==
  ASSUME Inv, StoreGrows, NEW r \in Requests, NEW p \in Points \ {"relogin", "requery"},
         at' = [at EXCEPT ![r] = p], UNCHANGED <<sess, refused>>
  PROVE  Inv'
<1>1. sess' \in [Requests -> 0..logins'] /\ refused' \in [Requests -> 0..logins']
  BY Grown DEF Inv, SessOK
<1>2. Moves(r, p)
  BY DEF Moves
<1>. QED BY <1>1, <1>2, MoveKeeps

LEMMA StoreStays ==
  ASSUME Inv, logins' = logins, store' \subseteq store
  PROVE  StoreGrows
  BY BoundsAssumption DEF StoreGrows, Inv, StoreOK

LEMMA RefusalStays ==
  ASSUME Inv, NEW s, Refuses(s)
  PROVE  StoreGrows /\ s \notin store'
  BY StoreStays DEF Refuses, Invalidated

\* A login gives a session of the store or one newer than all there were.
LEMMA LoginGives ==
  ASSUME Inv, NEW r \in Requests, Login(r)
  PROVE  /\ StoreGrows
         /\ \E n \in 0..logins' : sess' = [sess EXCEPT ![r] = n] /\ (n \in store \/ n = logins + 1)
<1>1. StoreOK /\ Newest \in store \cup {0}
  BY NewestIsStored DEF Inv
<1>2. CASE Newest # 0 /\ Newest = school /\ sess' = [sess EXCEPT ![r] = Newest] /\ UNCHANGED proxyVars
  <2>1. StoreGrows
    BY <1>2, StoreStays DEF proxyVars
  <2>2. Newest \in 0..logins'
    BY <1>1, <1>2 DEF StoreOK, proxyVars
  <2>. QED BY <1>1, <1>2, <2>1, <2>2
<1>3. CASE /\ logins < MaxLogins /\ logins' = logins + 1
           /\ school' = logins + 1 /\ store' = (store \ {Newest}) \cup {logins + 1}
           /\ sess' = [sess EXCEPT ![r] = logins + 1]
  <2>1. StoreGrows
    BY <1>1, <1>3, BoundsAssumption DEF StoreGrows, StoreOK
  <2>2. logins + 1 \in 0..logins'
    BY <1>1, <1>3 DEF StoreOK
  <2>. QED BY <1>3, <2>1, <2>2
<1>. QED BY <1>2, <1>3 DEF Login

LEMMA LoginMove ==
  ASSUME Inv, NEW r \in Requests, Login(r), NEW p \in Points \ {"relogin"},
         at' = [at EXCEPT ![r] = p], UNCHANGED refused,
         p = "requery" => at[r] = "relogin"
  PROVE  Inv'
<1>1. StoreGrows
  BY LoginGives
<1>2. PICK n \in 0..logins' : sess' = [sess EXCEPT ![r] = n] /\ (n \in store \/ n = logins + 1)
  BY LoginGives
<1>3. sess' \in [Requests -> 0..logins'] /\ refused' \in [Requests -> 0..logins'] /\ sess'[r] = n
  BY <1>1, <1>2, Grown DEF Inv, SessOK
<1>4. ASSUME p = "requery" PROVE sess'[r] # refused'[r]
  <2>1. refused[r] \notin store /\ refused[r] \in 0..logins
    BY <1>4 DEF Inv, Dropped, SessOK
  <2>2. refused[r] # logins + 1
    BY <2>1 DEF Inv, StoreOK
  <2>. QED BY <1>2, <1>3, <2>1, <2>2
<1>5. Moves(r, p)
  BY <1>2 DEF Inv, SessOK, Moves
<1>. QED BY <1>1, <1>3, <1>4, <1>5, MoveKeeps

-----------------------------------------------------------------------------
(* The steps.                                                              *)

LEMMA PointNames ==
  /\ {"idle", "enter", "slot", "log", "done", "submit", "login", "query", "jump",
      "llm", "analyse", "pdf", "draw"} \subseteq Points \ {"relogin", "requery"}
  /\ {"relogin", "requery"} \subseteq Points
  BY DEF Points, InLogin, InPipeline

LEMMA JobsAndRuns == Runs \subseteq Requests /\ Jobs \subseteq Requests
  BY DEF Requests

LEMMA QueryKeeps ==
  ASSUME Inv, NEW r \in Requests, Query(r)
  PROVE  Inv'
<1>1. CASE UNCHANGED <<proxyVars, sess, refused>> /\ \E p \in {"jump", "log"} : at' = [at EXCEPT ![r] = p]
  BY <1>1, PlainMove, StoreStays, PointNames DEF proxyVars
<1>2. CASE Refuses(sess[r]) /\ at' = [at EXCEPT ![r] = "log"] /\ UNCHANGED <<sess, refused>>
  BY <1>2, PlainMove, RefusalStays, PointNames
<1>3. CASE /\ Refuses(sess[r]) /\ at' = [at EXCEPT ![r] = "relogin"] /\ UNCHANGED sess
           /\ refused' = [refused EXCEPT ![r] = sess[r]]
  <2>1. StoreGrows /\ sess[r] \notin store'
    BY <1>3, RefusalStays
  <2>2. sess' \in [Requests -> 0..logins'] /\ refused' \in [Requests -> 0..logins']
    BY <1>3, <2>1, Grown DEF Inv, SessOK
  <2>3. Moves(r, "relogin") /\ refused'[r] = sess[r]
    BY <1>3, PointNames DEF Inv, SessOK, Moves
  <2>. QED BY <2>1, <2>2, <2>3, MoveKeeps
<1>. QED BY <1>1, <1>2, <1>3 DEF Query, Goes, Ends

LEMMA LogKeeps ==
  ASSUME Inv, NEW r \in Requests, Log(r)
  PROVE  Inv'
<1>1. StoreGrows /\ logins' = logins
  BY StoreStays DEF Log, proxyVars
<1>2. sess' \in [Requests -> 0..logins'] /\ refused' \in [Requests -> 0..logins']
  BY <1>1 DEF Log, Inv, SessOK, StoreOK
<1>3. Moves(r, "done")
  BY PointNames DEF Log, Goes, Moves, Inv, SessOK
<1>. QED BY <1>1, <1>2, <1>3, MoveKeeps

LEMMA PipelineKeeps ==
  ASSUME Inv, NEW r \in Requests, Pipeline(r)
  PROVE  Inv'
<1>1. CASE Query(r) BY <1>1, QueryKeeps
<1>2. CASE Log(r) BY <1>2, LogKeeps
<1>3. CASE Jump(r)
  <2>1. StoreGrows
    BY <1>3, RefusalStays, StoreStays DEF Jump, proxyVars
  <2>2. \E p \in {"llm", "pdf", "log"} : at' = [at EXCEPT ![r] = p]
    BY <1>3 DEF Jump, Goes, Ends
  <2>. QED BY <1>3, <2>1, <2>2, PlainMove, PointNames DEF Jump
<1>4. CASE EnterLlm(r) \/ Analyse(r) \/ EnterPdf(r) \/ TimesOut(r)
  <2>1. \E p \in {"analyse", "pdf", "draw", "log"} : at' = [at EXCEPT ![r] = p]
    BY <1>4 DEF EnterLlm, Analyse, EnterPdf, TimesOut, Goes
  <2>2. UNCHANGED <<proxyVars, sess, refused>>
    BY <1>4 DEF EnterLlm, Analyse, EnterPdf, TimesOut
  <2>. QED BY <2>1, <2>2, PlainMove, StoreStays, PointNames DEF proxyVars
<1>5. CASE Drawn(r)
  <2>1. at' = [at EXCEPT ![r] = "log"] \/ UNCHANGED at
    BY <1>5 DEF Drawn, Goes
  <2>2. UNCHANGED <<proxyVars, sess, refused>>
    BY <1>5 DEF Drawn
  <2>3. CASE at' = [at EXCEPT ![r] = "log"]
    BY <2>2, <2>3, PlainMove, StoreStays, PointNames DEF proxyVars
  <2>4. CASE UNCHANGED at
    BY <2>2, <2>4 DEF proxyVars, Inv, StoreOK, SessOK, Dropped, RetryIsFresh
  <2>. QED BY <2>1, <2>3, <2>4
<1>. QED BY <1>1, <1>2, <1>3, <1>4, <1>5 DEF Pipeline

LEMMA LoginsKeep ==
  ASSUME Inv, NEW r \in Requests, JobLogin(r) \/ RunLogin(r) \/ Relogin(r)
  PROVE  Inv'
<1>1. UNCHANGED refused
  BY DEF JobLogin, RunLogin, Relogin
<1>2. CASE UNCHANGED <<proxyVars, sess>> /\ at' = [at EXCEPT ![r] = "log"]
  BY <1>1, <1>2, PlainMove, StoreStays, PointNames DEF proxyVars
<1>3. CASE Login(r) /\ \E p \in {"slot", "query"} : at' = [at EXCEPT ![r] = p]
  BY <1>1, <1>3, LoginMove, PointNames
<1>4. CASE Login(r) /\ at[r] = "relogin" /\ at' = [at EXCEPT ![r] = "requery"]
  BY <1>1, <1>4, LoginMove, PointNames
<1>. QED BY <1>2, <1>3, <1>4 DEF JobLogin, RunLogin, Relogin, LoginFails, Goes, Ends

LEMMA RequeryKeeps ==
  ASSUME Inv, NEW r \in Requests, Requery(r)
  PROVE  Inv'
<1>1. StoreGrows
  BY RefusalStays, StoreStays DEF Requery, proxyVars
<1>2. \E p \in {"jump", "log"} : at' = [at EXCEPT ![r] = p]
  BY DEF Requery, Goes, Ends
<1>. QED BY <1>1, <1>2, PlainMove, PointNames DEF Requery

LEMMA EntersKeep ==
  ASSUME Inv, NEW r \in Requests,
         Arrive(r) \/ Submit(r) \/ EnterLogin(r) \/ EnterSlot(r) \/ Busy(r)
  PROVE  Inv'
<1>1. \E p \in {"slot", "enter", "submit", "query", "login", "done"} : at' = [at EXCEPT ![r] = p]
  BY DEF Arrive, Submit, EnterLogin, EnterSlot, Busy, Goes
<1>2. UNCHANGED <<proxyVars, sess, refused>>
  BY DEF Arrive, Submit, EnterLogin, EnterSlot, Busy
<1>. QED BY <1>1, <1>2, PlainMove, StoreStays, PointNames DEF proxyVars

LEMMA ForgetsKeeps ==
  ASSUME Inv, logins' = logins, store' \subseteq store, UNCHANGED <<at, sess, refused>>
  PROVE  Inv'
  BY DEF Inv, StoreOK, SessOK, Dropped, RetryIsFresh

LEMMA InitInv == Init => Inv
<1>. SUFFICES ASSUME Init PROVE Inv
  OBVIOUS
<1>1. StoreOK /\ SessOK
  BY PointNames, BoundsAssumption DEF Init, StoreOK, SessOK
<1>2. Dropped /\ RetryIsFresh
  BY DEF Init, Dropped, RetryIsFresh
<1>. QED BY <1>1, <1>2 DEF Inv

LEMMA NextInv == Inv /\ [Next]_vars => Inv'
<1>. SUFFICES ASSUME Inv, [Next]_vars PROVE Inv'
  OBVIOUS
<1>1. CASE \E r \in Runs : Arrive(r) \/ EnterSlot(r) \/ RunStep(r)
  BY <1>1, JobsAndRuns, EntersKeep, LoginsKeep, RequeryKeeps, PipelineKeeps DEF RunStep
<1>2. CASE \E j \in Jobs : Submit(j) \/ EnterLogin(j) \/ EnterSlot(j) \/ JobStep(j)
  BY <1>2, JobsAndRuns, EntersKeep, LoginsKeep, PipelineKeeps DEF JobStep
<1>3. CASE SchoolForgets \/ \E s \in Sids : Expire(s)
  <2>1. logins' = logins /\ store' \subseteq store /\ UNCHANGED <<at, sess, refused>>
    BY <1>3 DEF SchoolForgets, Expire
  <2>. QED BY <2>1, ForgetsKeeps
<1>4. CASE UNCHANGED vars
  <2>1. logins' = logins /\ store' \subseteq store /\ UNCHANGED <<at, sess, refused>>
    BY <1>4 DEF vars, proxyVars
  <2>. QED BY <2>1, ForgetsKeeps
<1>. QED BY <1>1, <1>2, <1>3, <1>4 DEF Next

\* _post_with_session_recovery: the query is not sent again with the session it was refused
\* with, for any number of queries of the student and any limits.
THEOREM RetryFresh == Spec => []RetryIsFresh
<1>1. Inv => RetryIsFresh
  BY DEF Inv
<1>. QED BY <1>1, InitInv, NextInv, PTL DEF Spec

-----------------------------------------------------------------------------
(* The books of the semaphores.                                            *)

\* What a request holds of a semaphore when it is at p.
Held(r, p, s) ==
  IF \/ s = "query" /\ (p \in InPipeline \/ (r \in Runs /\ p = "log"))
     \/ s = "login" /\ p = "submit"
     \/ s = "llm" /\ p = "analyse"
     \/ s = "pdf" /\ p = "draw"
  THEN 1 ELSE 0
Holders(s) == {r \in Requests : Holds(r, s)}
PermitsOK == free \in [Semaphores -> Nat]
Books == \A s \in Semaphores : free[s] + Cardinality(Holders(s)) = Permits(s)
ThreadsOK == threads \subseteq Requests /\ school \in Sids
\* One step of r from where it is to p pays for what it holds then.
Pays(r, p) == \A s \in Semaphores : free'[s] + Held(r, p, s) = free[s] + Held(r, at[r], s)
AllInv == Inv /\ PermitsOK /\ Books /\ ThreadsOK

LEMMA HeldIsHolds ==
  ASSUME NEW r \in Requests, NEW s \in Semaphores
  PROVE  /\ Holds(r, s) <=> Held(r, at[r], s) = 1
         /\ Holds(r, s)' <=> Held(r, at'[r], s) = 1
         /\ \A p : Held(r, p, s) \in {0, 1}
<1>1. CASE s = "query" BY <1>1 DEF Holds, Held
<1>2. CASE s = "login" BY <1>2 DEF Holds, Held, InLogin
<1>3. CASE s = "llm" BY <1>3 DEF Holds, Held
<1>4. CASE s = "pdf" BY <1>4 DEF Holds, Held
<1>. QED BY <1>1, <1>2, <1>3, <1>4 DEF Semaphores

\* What is held at the points.
LEMMA HeldAt ==
  ASSUME NEW r \in Requests, NEW s \in Semaphores
  PROVE  /\ \A p \in {"idle", "enter", "slot", "done"} : Held(r, p, s) = 0
         /\ Held(r, "submit", s) = IF s = "login" THEN 1 ELSE 0
         /\ \A p \in InPipeline \ {"analyse", "draw"} : Held(r, p, s) = IF s = "query" THEN 1 ELSE 0
         /\ Held(r, "analyse", s) = IF s \in {"query", "llm"} THEN 1 ELSE 0
         /\ Held(r, "draw", s) = IF s \in {"query", "pdf"} THEN 1 ELSE 0
         /\ r \in Runs => Held(r, "log", s) = IF s = "query" THEN 1 ELSE 0
         /\ r \notin Runs => Held(r, "log", s) = 0
         /\ InPipeline \ {"analyse", "draw"}
              = {"login", "query", "relogin", "requery", "jump", "llm", "pdf"}
  BY DEF Held, InPipeline, Semaphores

LEMMA FiniteHolders ==
  /\ IsFiniteSet(Requests)
  /\ \A H \in SUBSET Requests : IsFiniteSet(H) /\ Cardinality(H) \in Nat
  BY BoundsAssumption, FS_Union, FS_Subset, FS_CardinalityType DEF Requests

LEMMA MoveBooks ==
  ASSUME SessOK, PermitsOK, Books, NEW r \in Requests, NEW p \in Points,
         at' = [at EXCEPT ![r] = p], PermitsOK', Pays(r, p)
  PROVE  Books'
<1>. SUFFICES ASSUME NEW s \in Semaphores
              PROVE  free'[s] + Cardinality(Holders(s)') = Permits(s)
  BY DEF Books
<1>. DEFINE H == Holders(s)
            G == {q \in Requests : Held(q, at'[q], s) = 1}
<1>1. H = {q \in Requests : Held(q, at[q], s) = 1} /\ Holders(s)' = G
  BY HeldIsHolds DEF Holders
<1>2. at'[r] = p /\ \A q \in Requests \ {r} : at'[q] = at[q]
  BY DEF SessOK
<1>3. free[s] \in Nat /\ free'[s] \in Nat /\ free[s] + Cardinality(H) = Permits(s)
  BY DEF PermitsOK, Books
<1>4. free'[s] + Held(r, p, s) = free[s] + Held(r, at[r], s)
  BY DEF Pays
<1>5. IsFiniteSet(H) /\ IsFiniteSet(G) /\ Cardinality(H) \in Nat /\ Cardinality(G) \in Nat
  BY <1>1, FiniteHolders
<1>6. Held(r, p, s) \in {0, 1} /\ Held(r, at[r], s) \in {0, 1}
  BY HeldIsHolds
<1>. HIDE DEF H, G
<1>7. CASE Held(r, p, s) = Held(r, at[r], s)
  <2>1. G = H
    BY <1>1, <1>2, <1>7 DEF G
  <2>2. free'[s] = free[s]
    BY <1>3, <1>4, <1>6, <1>7
  <2>. QED BY <1>1, <1>3, <2>1, <2>2
<1>8. CASE Held(r, p, s) = 1 /\ Held(r, at[r], s) = 0
  <2>1. G = H \cup {r} /\ r \notin H
    BY <1>1, <1>2, <1>8 DEF G
  <2>2. Cardinality(G) = Cardinality(H) + 1
    BY <2>1, <1>5, FS_AddElement
  <2>. QED BY <1>1, <1>3, <1>4, <1>5, <1>8, <2>2
<1>9. CASE Held(r, p, s) = 0 /\ Held(r, at[r], s) = 1
  <2>1. H = G \cup {r} /\ r \notin G
    BY <1>1, <1>2, <1>9 DEF G
  <2>2. Cardinality(H) = Cardinality(G) + 1
    BY <2>1, <1>5, FS_AddElement
  <2>. QED BY <1>1, <1>3, <1>4, <1>5, <1>9, <2>2
<1>. QED BY <1>6, <1>7, <1>8, <1>9

LEMMA PaidMove ==
  ASSUME AllInv, NEW r \in Requests, NEW p \in Points, at' = [at EXCEPT ![r] = p],
         PermitsOK', Pays(r, p)
  PROVE  (PermitsOK /\ Books)'
  BY MoveBooks DEF AllInv, Inv

\* No semaphore is between the two points.
LEMMA FreeMove ==
  ASSUME AllInv, NEW r \in Requests, NEW p \in Points, at' = [at EXCEPT ![r] = p], UNCHANGED free,
         \A s \in Semaphores : Held(r, p, s) = Held(r, at[r], s)
  PROVE  (PermitsOK /\ Books)'
<1>1. PermitsOK' /\ Pays(r, p)
  BY DEF AllInv, PermitsOK, Pays
<1>. QED BY <1>1, PaidMove

LEMMA TakingMove ==
  ASSUME AllInv, NEW r \in Requests, NEW p \in Points, at' = [at EXCEPT ![r] = p],
         NEW t \in Semaphores, Takes(t), Held(r, at[r], t) = 0, Held(r, p, t) = 1,
         \A s \in Semaphores \ {t} : Held(r, p, s) = Held(r, at[r], s)
  PROVE  (PermitsOK /\ Books)'
<1>1. PermitsOK'
  BY DEF AllInv, PermitsOK, Takes
<1>2. Pays(r, p)
  BY HeldIsHolds DEF AllInv, PermitsOK, Takes, Pays
<1>. QED BY <1>1, <1>2, PaidMove

LEMMA GivingMove ==
  ASSUME AllInv, NEW r \in Requests, NEW p \in Points, at' = [at EXCEPT ![r] = p],
         NEW t \in Semaphores, Gives(t), Held(r, at[r], t) = 1, Held(r, p, t) = 0,
         \A s \in Semaphores \ {t} : Held(r, p, s) = Held(r, at[r], s)
  PROVE  (PermitsOK /\ Books)'
<1>1. PermitsOK'
  BY DEF AllInv, PermitsOK, Gives
<1>2. Pays(r, p)
  BY HeldIsHolds DEF AllInv, PermitsOK, Gives, Pays
<1>. QED BY <1>1, <1>2, PaidMove

\* Leaving the pipeline from a point where a request holds nothing but its slot.
LEMMA EndingMove ==
  ASSUME AllInv, NEW r \in Requests, NEW p \in {"login", "query", "relogin", "requery", "jump"},
         Ends(r, p)
  PROVE  (PermitsOK /\ Books)'
<1>1. at[r] = p /\ at' = [at EXCEPT ![r] = "log"] /\ "log" \in Points
  BY PointNames DEF Ends, Goes
<1>2. /\ \A t \in Semaphores : Held(r, at[r], t) = IF t = "query" THEN 1 ELSE 0
      /\ "query" \in Semaphores
  BY <1>1, HeldAt DEF Semaphores
<1>3. CASE r \in Jobs
  <2>1. Gives("query") /\ \A t \in Semaphores : Held(r, "log", t) = 0
    BY <1>3, HeldAt, BoundsAssumption DEF Ends, Leaves
  <2>. QED BY <1>1, <1>2, <2>1, GivingMove
<1>4. CASE r \notin Jobs
  <2>1. UNCHANGED free /\ \A t \in Semaphores : Held(r, "log", t) = Held(r, at[r], t)
    BY <1>2, <1>4, HeldAt DEF Ends, Leaves, Requests
  <2>. QED BY <1>1, <2>1, FreeMove
<1>. QED BY <1>3, <1>4

LEMMA StillBooks ==
  ASSUME AllInv, UNCHANGED <<at, free>>
  PROVE  (PermitsOK /\ Books)'
  BY DEF AllInv, PermitsOK, Books, Holders, Holds

LEMMA SemaphoreNames == {"query", "login", "llm", "pdf"} \subseteq Semaphores
  BY DEF Semaphores

LEMMA EnterBooks ==
  ASSUME AllInv, NEW r \in Requests,
         Arrive(r) \/ Submit(r) \/ EnterLogin(r) \/ EnterSlot(r) \/ Busy(r)
  PROVE  (PermitsOK /\ Books)'
<1>1. CASE Arrive(r) \/ Submit(r) \/ Busy(r)
  <2>1. PICK p, q \in {"idle", "enter", "slot", "done"} :
               at[r] = p /\ at' = [at EXCEPT ![r] = q] /\ UNCHANGED free
    BY <1>1 DEF Arrive, Submit, Busy, Goes
  <2>2. q \in Points /\ \A s \in Semaphores : Held(r, q, s) = Held(r, at[r], s)
    BY <2>1, HeldAt, PointNames
  <2>. QED BY <2>1, <2>2, FreeMove
<1>2. CASE EnterLogin(r)
  <2>1. at[r] = "enter" /\ at' = [at EXCEPT ![r] = "submit"] /\ Takes("login")
    BY <1>2 DEF EnterLogin, Goes
  <2>2. \A s \in Semaphores : Held(r, at[r], s) = 0 /\ Held(r, "submit", s) = IF s = "login" THEN 1 ELSE 0
    BY <2>1, HeldAt
  <2>. QED BY <2>1, <2>2, TakingMove, PointNames, SemaphoreNames
<1>3. CASE EnterSlot(r)
  <2>1. PICK p \in {"query", "login"} : at[r] = "slot" /\ at' = [at EXCEPT ![r] = p] /\ Takes("query")
    BY <1>3 DEF EnterSlot, Goes
  <2>2. \A s \in Semaphores : Held(r, at[r], s) = 0 /\ Held(r, p, s) = IF s = "query" THEN 1 ELSE 0
    BY <2>1, HeldAt
  <2>. QED BY <2>1, <2>2, TakingMove, PointNames, SemaphoreNames
<1>. QED BY <1>1, <1>2, <1>3

LEMMA LoginBooks ==
  ASSUME AllInv, NEW r \in Requests,
         (r \in Jobs /\ JobLogin(r)) \/ RunLogin(r) \/ Query(r) \/ Relogin(r) \/ Requery(r) \/ Jump(r)
  PROVE  (PermitsOK /\ Books)'
<1>1. CASE r \in Jobs /\ JobLogin(r)
  <2>1. PICK p \in {"slot", "log"} : at[r] = "submit" /\ at' = [at EXCEPT ![r] = p] /\ Gives("login")
    BY <1>1 DEF JobLogin, LeavesLogin, Goes
  <2>2. \A s \in Semaphores : Held(r, at[r], s) = (IF s = "login" THEN 1 ELSE 0) /\ Held(r, p, s) = 0
    BY <1>1, <2>1, HeldAt, BoundsAssumption
  <2>3. p \in Points
    BY PointNames
  <2>4. "login" \in Semaphores /\ Held(r, at[r], "login") = 1 /\ Held(r, p, "login") = 0
    BY <2>2, SemaphoreNames
  <2>5. \A s \in Semaphores \ {"login"} : Held(r, p, s) = Held(r, at[r], s)
    BY <2>2
  <2>. QED BY <2>1, <2>3, <2>4, <2>5, GivingMove
<1>2. CASE \E p \in {"login", "query", "relogin", "requery", "jump"} : Ends(r, p)
  BY <1>2, EndingMove
<1>3. CASE UNCHANGED free /\ \E p, q \in InPipeline \ {"analyse", "draw"} : Goes(r, p, q)
  <2>1. PICK p, q \in InPipeline \ {"analyse", "draw"} : at[r] = p /\ at' = [at EXCEPT ![r] = q]
    BY <1>3 DEF Goes
  <2>2. q \in Points /\ \A s \in Semaphores : Held(r, q, s) = Held(r, at[r], s)
    BY <2>1, HeldAt DEF Points
  <2>. QED BY <1>3, <2>1, <2>2, FreeMove
<1>. QED BY <1>1, <1>2, <1>3 DEF RunLogin, Query, Relogin, Requery, Jump, InPipeline

LEMMA DrawBooks ==
  ASSUME AllInv, NEW r \in Requests,
         EnterLlm(r) \/ Analyse(r) \/ EnterPdf(r) \/ Drawn(r)
  PROVE  (PermitsOK /\ Books)'
<1>1. CASE EnterLlm(r)
  <2>1. at[r] = "llm" /\ at' = [at EXCEPT ![r] = "analyse"] /\ Takes("llm")
    BY <1>1 DEF EnterLlm, Goes
  <2>2. \A s \in Semaphores : /\ Held(r, at[r], s) = IF s = "query" THEN 1 ELSE 0
                              /\ Held(r, "analyse", s) = IF s \in {"query", "llm"} THEN 1 ELSE 0
    BY <2>1, HeldAt
  <2>. QED BY <2>1, <2>2, TakingMove, PointNames, SemaphoreNames
<1>2. CASE EnterPdf(r)
  <2>1. at[r] = "pdf" /\ at' = [at EXCEPT ![r] = "draw"] /\ Takes("pdf")
    BY <1>2 DEF EnterPdf, Goes
  <2>2. \A s \in Semaphores : /\ Held(r, at[r], s) = IF s = "query" THEN 1 ELSE 0
                              /\ Held(r, "draw", s) = IF s \in {"query", "pdf"} THEN 1 ELSE 0
    BY <2>1, HeldAt
  <2>. QED BY <2>1, <2>2, TakingMove, PointNames, SemaphoreNames
<1>3. CASE Goes(r, "analyse", "pdf") /\ Gives("llm")
  <2>1. at[r] = "analyse" /\ at' = [at EXCEPT ![r] = "pdf"]
    BY <1>3 DEF Goes
  <2>2. \A s \in Semaphores : /\ Held(r, at[r], s) = IF s \in {"query", "llm"} THEN 1 ELSE 0
                              /\ Held(r, "pdf", s) = IF s = "query" THEN 1 ELSE 0
    BY <2>1, HeldAt
  <2>. QED BY <1>3, <2>1, <2>2, GivingMove, PointNames, SemaphoreNames
<1>4. ASSUME NEW p \in {"analyse", "draw"}, NEW t \in Semaphores,
             t = IF p = "analyse" THEN "llm" ELSE "pdf", Goes(r, p, "log"),
             free' = [free EXCEPT ![t] = @ + 1, !["query"] = @ + IF r \in Jobs THEN 1 ELSE 0]
      PROVE  (PermitsOK /\ Books)'
  <2>1. at[r] = p /\ at' = [at EXCEPT ![r] = "log"] /\ "log" \in Points
    BY <1>4, PointNames DEF Goes
  <2>2. PermitsOK'
    BY <1>4 DEF AllInv, PermitsOK, Semaphores
  <2>3. Pays(r, "log")
    BY <1>4, <2>1, BoundsAssumption DEF AllInv, PermitsOK, Pays, Held, InPipeline, Semaphores, Requests
  <2>. QED BY <2>1, <2>2, <2>3, PaidMove
<1>5. CASE Analyse(r)
  BY <1>3, <1>4, <1>5, SemaphoreNames DEF Analyse
<1>6. CASE Drawn(r)
  BY <1>4, <1>6, StillBooks, SemaphoreNames DEF Drawn
<1>. QED BY <1>1, <1>2, <1>5, <1>6

LEMMA EndBooks ==
  ASSUME AllInv, NEW r \in Requests, TimesOut(r) \/ Log(r)
  PROVE  (PermitsOK /\ Books)'
<1>1. CASE TimesOut(r)
  <2>1. \A s \in Semaphores : GivenBack(r, s) \in {0, 1} /\ free'[s] = free[s] + GivenBack(r, s)
    BY <1>1 DEF TimesOut, GivenBack
  <2>2. PermitsOK'
    BY <1>1, <2>1 DEF TimesOut, AllInv, PermitsOK
  <2>3. ASSUME NEW s \in Semaphores
        PROVE  GivenBack(r, s) + Held(r, "log", s) = Held(r, at[r], s)
    <3>1. at[r] \in InPipeline
      BY <1>1 DEF TimesOut
    <3>2. s = "query" => Held(r, at[r], s) = 1
      BY <3>1 DEF Held
    <3>3. Held(r, "log", s) = IF s = "query" /\ r \notin Jobs THEN 1 ELSE 0
      <4>1. r \in Runs <=> r \notin Jobs
        BY BoundsAssumption DEF Requests
      <4>. QED BY <4>1, HeldAt
    <3>4. (Holds(r, s) <=> Held(r, at[r], s) = 1) /\ Held(r, at[r], s) \in {0, 1}
      BY HeldIsHolds
    <3>. QED BY <3>2, <3>3, <3>4 DEF GivenBack
  <2>4. Pays(r, "log")
    BY <2>1, <2>3, HeldIsHolds DEF Pays, AllInv, PermitsOK
  <2>. QED BY <1>1, <2>2, <2>4, PaidMove, PointNames DEF TimesOut
<1>2. CASE Log(r)
  <2>1. at[r] = "log" /\ at' = [at EXCEPT ![r] = "done"] /\ "done" \in Points
    BY <1>2, PointNames DEF Log, Goes
  <2>2. \A s \in Semaphores : /\ Held(r, "done", s) = 0
                              /\ Held(r, at[r], s) = IF s = "query" /\ r \in Runs THEN 1 ELSE 0
    BY <2>1, HeldAt
  <2>3. CASE r \in Runs
    <3>1. Gives("query")
      BY <1>2, <2>3 DEF Log
    <3>2. Held(r, at[r], "query") = 1 /\ \A s \in Semaphores \ {"query"} : Held(r, "done", s) = Held(r, at[r], s)
      BY <2>2, <2>3, SemaphoreNames
    <3>. QED BY <2>1, <2>2, <3>1, <3>2, GivingMove, SemaphoreNames
  <2>4. CASE r \notin Runs
    BY <1>2, <2>1, <2>2, <2>4, FreeMove DEF Log
  <2>. QED BY <2>3, <2>4
<1>. QED BY <1>1, <1>2

LEMMA StepBooks ==
  ASSUME AllInv, [Next]_vars
  PROVE  (PermitsOK /\ Books)'
<1>1. ASSUME NEW r \in Requests, Pipeline(r) PROVE (PermitsOK /\ Books)'
  BY <1>1, LoginBooks, DrawBooks, EndBooks DEF Pipeline
<1>2. CASE \E r \in Runs : Arrive(r) \/ EnterSlot(r) \/ RunStep(r)
  BY <1>1, <1>2, JobsAndRuns, EnterBooks, LoginBooks DEF RunStep
<1>3. CASE \E j \in Jobs : Submit(j) \/ EnterLogin(j) \/ EnterSlot(j) \/ JobStep(j)
  BY <1>1, <1>3, JobsAndRuns, EnterBooks, LoginBooks DEF JobStep
<1>4. CASE SchoolForgets \/ (\E s \in Sids : Expire(s)) \/ UNCHANGED vars
  BY <1>4, StillBooks DEF SchoolForgets, Expire, vars
<1>. QED BY <1>2, <1>3, <1>4 DEF Next

LEMMA StepThreads ==
  ASSUME AllInv, [Next]_vars
  PROVE  ThreadsOK'
<1>1. threads' \subseteq Requests
  BY JobsAndRuns DEF AllInv, ThreadsOK, Next, RunStep, JobStep, Pipeline, vars,
     Arrive, Submit, EnterLogin, EnterSlot, Busy, JobLogin, RunLogin, Query, Relogin, Requery, Jump,
     EnterLlm, Analyse, EnterPdf, Drawn, TimesOut, Log, SchoolForgets, Expire
<1>2. school' = school \/ school' = 0 \/ (school' = logins + 1 /\ logins < MaxLogins)
  BY DEF Next, RunStep, JobStep, Pipeline, vars, proxyVars, Login, LoginFails, Refuses,
     Arrive, Submit, EnterLogin, EnterSlot, Busy, JobLogin, RunLogin, Query, Relogin, Requery, Jump,
     EnterLlm, Analyse, EnterPdf, Drawn, TimesOut, Log, SchoolForgets, Expire
<1>3. school' \in Sids
  BY <1>2, BoundsAssumption DEF AllInv, ThreadsOK, Inv, StoreOK, Sids
<1>. QED BY <1>1, <1>3 DEF ThreadsOK

LEMMA InitAll == Init => AllInv
<1>. SUFFICES ASSUME Init PROVE AllInv
  OBVIOUS
<1>1. PermitsOK /\ ThreadsOK
  BY BoundsAssumption DEF Init, PermitsOK, ThreadsOK, Semaphores, Permits, Sids
<1>2. Books
  <2>1. \A s \in Semaphores : Holders(s) = {}
    BY DEF Init, Holders, Holds, Semaphores, InPipeline, InLogin
  <2>2. \A s \in Semaphores : free[s] = Permits(s) /\ Permits(s) \in Nat
    BY BoundsAssumption DEF Init, Semaphores, Permits
  <2>. QED BY <2>1, <2>2, FS_EmptySet DEF Books
<1>. QED BY <1>1, <1>2, InitInv DEF AllInv

LEMMA AllTypes == AllInv => TypeOK
  BY BoundsAssumption
  DEF AllInv, Inv, StoreOK, SessOK, PermitsOK, Books, Holders, ThreadsOK, TypeOK, Sids

\* The types, and the books of query_slots, login_slots, llm_semaphore and pdf_semaphore:
\* whichever way requests leave the pipeline by, and however many there are of them.
THEOREM Permitted == Spec => []TypeOK
<1>1. AllInv /\ [Next]_vars => AllInv'
  BY NextInv, StepBooks, StepThreads DEF AllInv
<1>. QED BY <1>1, InitAll, AllTypes, PTL DEF Spec

-----------------------------------------------------------------------------
(* The history of the queries.  A trim gives up an entry for Limit newer   *)
(* ones only, and what a replica's flag says of the newest lines of its    *)
(* file holds through the failures: a line whose writing is over is in the *)
(* shared history, or a replay that is yet to write will bring it.         *)

LEMMA Upwards ==
  ASSUME NEW T, 0 \in T, \A n \in Nat : n \in T => n + 1 \in T
  PROVE  Nat \subseteq T
  <1> SUFFICES ASSUME Nat \ T # {} PROVE FALSE
    OBVIOUS
  <1>1. PICK m \in Nat \ T : \A k \in Nat \ T : m <= k
    BY Least
  <1>2. m # 0 /\ m - 1 \in Nat /\ (m - 1) + 1 = m
    BY <1>1
  <1>3. m - 1 \in T
    BY <1>1, <1>2
  <1> QED
    BY <1>1, <1>2, <1>3

LEMMA EntriesAre ==
  /\ IsFiniteSet(Entries) /\ Entries \subseteq Nat /\ 0 \notin Entries
  /\ \A S \in SUBSET Entries : IsFiniteSet(S) /\ Cardinality(S) \in Nat
  <1>1. MaxEntries \in Nat
    BY HistoryBounds
  <1>2. IsFiniteSet(1..MaxEntries)
    <2>1. 1 \in Int /\ MaxEntries \in Int
      BY <1>1
    <2> QED
      BY <2>1, FS_Interval
  <1>3. \A S \in SUBSET Entries : IsFiniteSet(S) /\ Cardinality(S) \in Nat
    BY <1>2, FS_Subset, FS_CardinalityType DEF Entries
  <1> QED
    BY <1>1, <1>2, <1>3 DEF Entries

LEMMA GreatestOf ==
  ASSUME NEW S \in SUBSET Entries, S # {}
  PROVE  \E m \in S : \A k \in S : k <= m
  <1> DEFINE D == {MaxEntries - x : x \in S}
  <1>0. MaxEntries \in Nat /\ \A x \in S : x \in Nat /\ x <= MaxEntries
    BY HistoryBounds DEF Entries
  <1>1. D \in SUBSET Nat /\ D # {}
    BY <1>0
  <1>2. PICK d \in D : \A k \in D : d <= k
    BY <1>1, Least
  <1>3. PICK m \in S : d = MaxEntries - m
    BY <1>2
  <1>4. \A k \in S : k <= m
    <2> SUFFICES ASSUME NEW k \in S PROVE k <= m
      OBVIOUS
    <2>1. MaxEntries - k \in D
      OBVIOUS
    <2>2. d <= MaxEntries - k
      BY <1>2, <2>1
    <2> HIDE DEF D
    <2> QED
      BY <1>0, <1>3, <2>2
  <1> QED
    BY <1>4

\* An entry is kept, or Limit newer ones are.
Kept(S, e) == e \in S \/ Cardinality(Newer(S, e)) >= Limit

LEMMA NewerOnes ==
  ASSUME NEW S \in SUBSET Entries, NEW e
  PROVE  /\ Newer(S, e) \in SUBSET Entries /\ IsFiniteSet(Newer(S, e)) /\ Cardinality(Newer(S, e)) \in Nat
         /\ \A T \in SUBSET Newer(S, e) : Cardinality(T) <= Cardinality(Newer(S, e)) /\ Cardinality(T) \in Nat
  <1>1. Newer(S, e) \in SUBSET Entries
    BY DEF Newer
  <1>2. IsFiniteSet(Newer(S, e)) /\ Cardinality(Newer(S, e)) \in Nat
    BY <1>1, EntriesAre
  <1>3. \A T \in SUBSET Newer(S, e) : Cardinality(T) <= Cardinality(Newer(S, e)) /\ Cardinality(T) \in Nat
    BY <1>2, FS_Subset, FS_CardinalityType
  <1> QED
    BY <1>1, <1>2, <1>3

\* The greatest of the newer ones that were cut off would have fewer than Limit above it.
LEMMA TrimKeepsNewest ==
  ASSUME NEW U \in SUBSET Entries, NEW e \in Entries, Cardinality(Newer(U, e)) >= Limit
  PROVE  Cardinality(Newer(Trimmed(U), e)) >= Limit
  <1> DEFINE T == Trimmed(U)
             N == Newer(U, e)
             cut == N \ T
             left == Cardinality(Newer(T, e))
  <1>0. Limit \in Nat /\ T \in SUBSET U /\ T \in SUBSET Entries /\ N \in SUBSET Entries
    BY HistoryBounds DEF Trimmed, Newer
  <1>1. left \in Nat
    BY <1>0, NewerOnes
  <1> SUFFICES ASSUME left < Limit PROVE FALSE
    BY <1>0, <1>1
  <1>2. CASE cut = {}
    <2>1. Newer(T, e) = N
      BY <1>0, <1>2 DEF Newer
    <2> QED
      BY <1>0, <1>1, <2>1
  <1>3. CASE cut # {}
    <2>1. PICK x \in cut : \A y \in cut : y <= x
      <3>1. cut \in SUBSET Entries
        BY <1>0
      <3> QED
        BY <1>3, <3>1, GreatestOf
    <2>2. x \in U /\ x > e /\ x \in Nat /\ e \in Nat
      BY EntriesAre DEF Newer
    <2>3. Newer(U, x) \subseteq Newer(T, e)
      <3> SUFFICES ASSUME NEW y \in U, y > x PROVE y \in T /\ y > e
        BY DEF Newer
      <3>1. y \in Nat
        BY EntriesAre
      <3>2. y > e
        BY <2>2, <3>1
      <3>3. y \in N /\ ~(y <= x)
        BY <2>2, <3>1, <3>2 DEF Newer
      <3> QED
        BY <2>1, <3>2, <3>3
    <2>4. Cardinality(Newer(U, x)) <= left /\ Cardinality(Newer(U, x)) \in Nat
      BY <1>0, <2>3, NewerOnes
    <2> HIDE DEF left
    <2>5. Cardinality(Newer(U, x)) < Limit
      BY <1>0, <1>1, <2>4
    <2>6. x \in T
      BY <2>2, <2>5 DEF Trimmed
    <2> QED
      BY <2>6
  <1> QED
    BY <1>2, <1>3

LEMMA TrimKeeps ==
  ASSUME NEW U \in SUBSET Entries, NEW e \in Entries, Kept(U, e)
  PROVE  Kept(Trimmed(U), e)
  <1>1. Limit \in Nat /\ Cardinality(Newer(U, e)) \in Nat
    BY HistoryBounds, NewerOnes
  <1>2. CASE Cardinality(Newer(U, e)) >= Limit
    BY <1>2, TrimKeepsNewest DEF Kept
  <1>3. CASE ~(Cardinality(Newer(U, e)) >= Limit)
    <2>1. Cardinality(Newer(U, e)) < Limit
      BY <1>1, <1>3
    <2> QED
      BY <1>3, <2>1 DEF Kept, Trimmed
  <1> QED
    BY <1>2, <1>3

LEMMA MoreKeep ==
  ASSUME NEW S \in SUBSET Entries, NEW U \in SUBSET Entries, S \subseteq U, NEW e \in Entries, Kept(S, e)
  PROVE  Kept(U, e)
  <1>1. CASE e \in S
    BY <1>1 DEF Kept
  <1>2. CASE Cardinality(Newer(S, e)) >= Limit
    <2>1. Newer(S, e) \subseteq Newer(U, e)
      BY DEF Newer
    <2> DEFINE a == Cardinality(Newer(S, e))
               b == Cardinality(Newer(U, e))
    <2>2. a \in Nat /\ b \in Nat /\ a <= b /\ a >= Limit /\ Limit \in Nat
      BY <1>2, <2>1, NewerOnes, HistoryBounds
    <2> HIDE DEF a, b
    <2>3. b >= Limit
      BY <2>2
    <2> QED
      BY <2>3 DEF Kept, b
  <1> QED
    BY <1>1, <1>2 DEF Kept

\* A write of more entries: those it brings are kept, and those that were.
LEMMA WritesKeep ==
  ASSUME NEW S \in SUBSET Entries, NEW N \in SUBSET Entries
  PROVE  /\ Trimmed(S \cup N) \in SUBSET Entries
         /\ \A e \in Entries : Kept(S, e) \/ e \in N => Kept(Trimmed(S \cup N), e)
  <1>1. S \cup N \in SUBSET Entries
    OBVIOUS
  <1>2. ASSUME NEW e \in Entries, Kept(S, e) \/ e \in N PROVE Kept(Trimmed(S \cup N), e)
    <2>1. Kept(S \cup N, e)
      <3>1. CASE Kept(S, e)
        BY <1>1, <3>1, MoreKeep
      <3>2. CASE e \in N
        BY <3>2 DEF Kept
      <3> QED
        BY <1>2, <3>1, <3>2
    <2> QED
      BY <1>1, <2>1, TrimKeeps
  <1> QED
    BY <1>1, <1>2 DEF Trimmed

LEMMA MaybeWritten ==
  ASSUME NEW S \in SUBSET Entries, NEW N \in SUBSET Entries, NEW T \in {S, Trimmed(S \cup N)}
  PROVE  T \in SUBSET Entries /\ \A e \in Entries : Kept(S, e) => Kept(T, e)
  <1>1. CASE T = S
    BY <1>1
  <1>2. CASE T = Trimmed(S \cup N)
    BY <1>2, WritesKeep
  <1> QED
    BY <1>1, <1>2

\* The lines of a file, read from its end.
LEMMA ASeqOf ==
  ASSUME NEW R, NEW n \in Nat, NEW f \in [1..n -> R]
  PROVE  f \in Seq(R) /\ Len(f) = n
  <1>1. f = [i \in 1..n |-> f[i]] /\ \A i \in 1..n : f[i] \in R
    OBVIOUS
  <1>2. [i \in 1..n |-> f[i]] \in Seq(R)
    BY <1>1, IsASeq
  <1>3. Len(f) \in Nat /\ 1..Len(f) = 1..n
    BY <1>1, <1>2, LenProperties
  <1>4. (n \notin 1..Len(f) => n = 0) /\ (Len(f) \notin 1..n => Len(f) = 0)
    BY <1>3
  <1>5. Len(f) = n
    BY <1>3, <1>4
  <1> QED
    BY <1>1, <1>2, <1>5

LEMMA FromTheEnd ==
  ASSUME NEW R, NEW f \in Seq(R)
  PROVE  /\ Reverse(f) \in Seq(R) /\ Len(Reverse(f)) = Len(f) /\ Len(f) \in Nat
         /\ \A i \in 1..Len(f) : Reverse(f)[i] = f[Len(f) - i + 1] /\ Len(f) - i + 1 \in 1..Len(f)
  <1> DEFINE n == Len(f)
             r == [i \in 1..n |-> f[n - i + 1]]
  <1>1. n \in Nat /\ DOMAIN f = 1..n /\ \A i \in 1..n : f[i] \in R
    BY LenProperties
  <1>2. Reverse(f) = r
    BY DEF Reverse
  <1>3. \A i \in 1..n : r[i] = f[n - i + 1] /\ n - i + 1 \in 1..n
    BY <1>1
  <1>4. r \in [1..n -> R]
    BY <1>1, <1>3
  <1> HIDE DEF r
  <1>5. r \in Seq(R) /\ Len(r) = n
    BY <1>1, <1>4, ASeqOf
  <1> QED
    BY <1>1, <1>2, <1>3, <1>5

LEMMA TakenFirst ==
  ASSUME NEW R, NEW s \in Seq(R), NEW n \in Nat
  PROVE  /\ Take(s, n) \in Seq(R)
         /\ \A x : x \in ToSet(Take(s, n)) <=> \E i \in 1..Len(s) : i <= n /\ x = s[i]
  <1> DEFINE m == IF n < Len(s) THEN n ELSE Len(s)
             t == SubSeq(s, 1, m)
  <1>0. Len(s) \in Nat /\ \A i \in 1..Len(s) : s[i] \in R
    BY LenProperties
  <1>1. m \in Nat /\ m <= Len(s) /\ m <= n /\ (\A i \in 1..Len(s) : i <= n <=> i <= m)
    BY <1>0
  <1>2. Take(s, n) = t
    BY DEF Take
  <1> HIDE DEF m
  <1>3. t \in Seq(R) /\ Len(t) = m /\ (\A i \in 1..m : t[i] = s[i])
    <2>1. m - 1 + 1 = m /\ (m = 0 \/ 1 <= m) /\ \A i \in 1..m : 1 + i - 1 = i /\ s[i] \in R
      BY <1>0, <1>1
    <2> QED
      BY <1>1, <2>1, SubSeqProperties
  <1> HIDE DEF t
  <1>4. DOMAIN t = 1..m
    BY <1>3, LenProperties
  <1>5. ASSUME NEW x PROVE x \in ToSet(t) <=> \E i \in 1..Len(s) : i <= n /\ x = s[i]
    <2>1. x \in ToSet(t) <=> \E i \in 1..m : x = s[i]
      BY <1>3, <1>4 DEF ToSet
    <2>2. \A i : i \in 1..m <=> i \in 1..Len(s) /\ i <= n
      BY <1>0, <1>1
    <2> QED
      BY <2>1, <2>2
  <1> QED
    BY <1>2, <1>3, <1>5

\* The function that FlattenSeq defines exists.
FlatFrom(ss, f, end) == f = [i \in 1..end |-> IF i = 1 THEN ss[i] ELSE f[i - 1] \o ss[i]]

LEMMA FlatDefined ==
  ASSUME NEW ss, NEW n \in Nat
  PROVE  \E f : FlatFrom(ss, f, n)
  <1> DEFINE T == {m \in Nat : \E f : FlatFrom(ss, f, m)}
  <1>1. 0 \in T
    <2>1. FlatFrom(ss, <<>>, 0)
      BY DEF FlatFrom
    <2> QED
      BY <2>1
  <1>2. ASSUME NEW m \in Nat, m \in T PROVE m + 1 \in T
    <2>1. PICK f : FlatFrom(ss, f, m)
      BY <1>2
    <2> DEFINE new == IF m + 1 = 1 THEN ss[m + 1] ELSE f[m] \o ss[m + 1]
               h == [i \in 1..m + 1 |-> IF i = m + 1 THEN new ELSE f[i]]
    <2>2. \A i \in 1..m : f[i] = IF i = 1 THEN ss[i] ELSE f[i - 1] \o ss[i]
      BY <2>1 DEF FlatFrom
    <2>3. \A i \in 1..m + 1 : i # 1 => i - 1 \in 1..m /\ h[i - 1] = f[i - 1]
      OBVIOUS
    <2>4. \A i \in 1..m + 1 : h[i] = IF i = m + 1 THEN new ELSE f[i]
      OBVIOUS
    <2>5. h = [i \in 1..m + 1 |-> h[i]]
      OBVIOUS
    <2> HIDE DEF h
    <2>6. \A i \in 1..m + 1 : h[i] = IF i = 1 THEN ss[i] ELSE h[i - 1] \o ss[i]
      <3> SUFFICES ASSUME NEW i \in 1..m + 1 PROVE h[i] = IF i = 1 THEN ss[i] ELSE h[i - 1] \o ss[i]
        OBVIOUS
      <3>1. CASE i = m + 1
        <4>1. h[i] = IF i = 1 THEN ss[i] ELSE f[m] \o ss[i]
          BY <2>4, <3>1
        <4>2. i # 1 => h[i - 1] = f[m]
          BY <2>3, <3>1
        <4> QED
          BY <4>1, <4>2
      <3>2. CASE i # m + 1
        <4>1. i \in 1..m /\ h[i] = f[i]
          BY <2>4, <3>2
        <4> QED
          BY <2>2, <2>3, <4>1
      <3> QED
        BY <3>1, <3>2
    <2>7. FlatFrom(ss, h, m + 1)
      BY <2>5, <2>6 DEF FlatFrom
    <2> QED
      BY <2>7
  <1> HIDE DEF T
  <1>3. Nat \subseteq T
    BY <1>1, <1>2, Upwards
  <1> QED
    BY <1>3 DEF T

LEMMA Flattened ==
  ASSUME NEW R, NEW ss \in Seq(Seq(R)), Len(ss) >= 1
  PROVE  FlattenSeq(ss) \in Seq(R)
  <1> DEFINE n == Len(ss)
             f == CHOOSE f : FlatFrom(ss, f, n)
             T == {m \in Nat : m + 1 <= n => f[m + 1] \in Seq(R)}
  <1>0. n \in Nat /\ n >= 1 /\ n # 0 /\ \A i \in 1..n : ss[i] \in Seq(R)
    BY LenProperties
  <1>1. FlatFrom(ss, f, n)
    BY <1>0, FlatDefined
  <1>2. FlattenSeq(ss) = f[n]
    BY <1>0 DEF FlattenSeq, FlatFrom
  <1> HIDE DEF f, n
  <1>3. \A i \in 1..n : f[i] = IF i = 1 THEN ss[i] ELSE f[i - 1] \o ss[i]
    BY <1>1 DEF FlatFrom
  <1>4. 1 \in 1..n /\ f[1] = ss[1]
    BY <1>0, <1>3
  <1>5. 0 \in T
    BY <1>0, <1>4
  <1>6. ASSUME NEW m \in Nat, m \in T PROVE m + 1 \in T
    <2> SUFFICES ASSUME (m + 1) + 1 <= n PROVE f[(m + 1) + 1] \in Seq(R)
      OBVIOUS
    <2> DEFINE k == (m + 1) + 1
    <2>1. k \in 1..n /\ k # 1 /\ k - 1 = m + 1 /\ m + 1 <= n
      BY <1>0
    <2>2. f[m + 1] \in Seq(R)
      BY <1>6, <2>1
    <2> HIDE DEF k
    <2>3. f[k] = f[m + 1] \o ss[k] /\ ss[k] \in Seq(R)
      BY <1>0, <1>3, <2>1
    <2>4. f[k] \in Seq(R)
      BY <2>2, <2>3, ConcatProperties
    <2> QED
      BY <2>4 DEF k
  <1> HIDE DEF T
  <1>7. n - 1 \in T /\ (n - 1) + 1 = n
    <2>1. n - 1 \in Nat /\ (n - 1) + 1 = n
      BY <1>0
    <2> QED
      BY <1>5, <1>6, <2>1, Upwards
  <1>8. f[n] \in Seq(R)
    BY <1>0, <1>7 DEF T
  <1> QED
    BY <1>2, <1>4, <1>8 DEF n

\* What a replay reads is entries, whatever the files are.
LEMMA ReadBackIs ==
  ASSUME NEW fs \in Seq(Seq(Entries)), Len(fs) >= 1
  PROVE  ReadBack(fs) \in Seq(Entries) /\ ToSet(ReadBack(fs)) \in SUBSET Entries
  <1> DEFINE n == Len(fs)
             ss == [i \in 1..n |-> Reverse(Reverse(fs)[i])]
             lines == Lines(fs)
  <1>0. n \in Nat /\ n >= 1 /\ Limit \in Nat /\ \A i \in 1..n : fs[i] \in Seq(Entries)
    BY HistoryBounds, LenProperties
  <1>1. \A i \in 1..n : Reverse(fs)[i] = fs[n - i + 1] /\ n - i + 1 \in 1..n
    BY FromTheEnd
  <1>2. \A i \in 1..n : ss[i] = Reverse(Reverse(fs)[i]) /\ ss[i] \in Seq(Entries)
    BY <1>0, <1>1, FromTheEnd
  <1>3. ss \in [1..n -> Seq(Entries)]
    BY <1>2
  <1>4. lines = FlattenSeq(ss)
    BY DEF Lines
  <1> HIDE DEF ss, lines
  <1>5. ss \in Seq(Seq(Entries)) /\ Len(ss) = n
    <2> DEFINE R == Seq(Entries)
    <2>1. ss \in [1..n -> R]
      BY <1>3
    <2> HIDE DEF R, n
    <2> QED
      BY <1>0, <2>1, ASeqOf DEF R
  <1>6. lines \in Seq(Entries)
    BY <1>0, <1>4, <1>5, Flattened
  <1>7. ReadBack(fs) = Take(lines, Limit)
    BY DEF ReadBack, lines
  <1>8. /\ ReadBack(fs) \in Seq(Entries)
        /\ \A x : x \in ToSet(ReadBack(fs)) <=> \E i \in 1..Len(lines) : i <= Limit /\ x = lines[i]
    <2>1. Limit \in Nat /\ lines \in Seq(Entries)
      BY <1>0, <1>6
    <2>2. /\ Take(lines, Limit) \in Seq(Entries)
          /\ \A x : x \in ToSet(Take(lines, Limit)) <=> \E i \in 1..Len(lines) : i <= Limit /\ x = lines[i]
      BY <2>1, TakenFirst
    <2> QED
      BY <1>7, <2>2
  <1>9. ToSet(ReadBack(fs)) \in SUBSET Entries
    BY <1>8, LenProperties DEF ToSet
  <1> QED
    BY <1>8, <1>9

\* A line more: the files are as before but for the end of the first, or each has moved on by one
\* and the first has this line only.
LEMMA WrittenIs ==
  ASSUME NEW fs \in Seq(Seq(Entries)), Len(fs) \in 1..Backups + 1, NEW e \in Entries
  PROVE  LET new == Written(fs, e)
         IN  /\ new \in Seq(Seq(Entries)) /\ Len(new) \in 1..Backups + 1
             /\ \/ /\ Len(new) = Len(fs) /\ new[1] = Append(fs[1], e)
                   /\ \A i \in 2..Len(new) : new[i] = fs[i]
                \/ /\ Len(new) <= Len(fs) + 1 /\ new[1] = Append(<<>>, e)
                   /\ \A i \in 2..Len(new) : new[i] = fs[i - 1]
  <1> DEFINE R == Seq(Entries)
             rotated == Rotated(fs)
             f == fs[1]
             g == rotated[1]
             new == Written(fs, e)
             nil == <<>>
  <1>0. /\ Backups \in Nat /\ Limit \in Nat \ {0} /\ Len(fs) \in Nat /\ Len(fs) >= 1 /\ Len(fs) <= Backups + 1
        /\ f \in R /\ nil \in R /\ fs \in Seq(R)
    BY HistoryBounds, LenProperties
  <1>1. \/ rotated = fs
        \/ /\ rotated \in Seq(R) /\ rotated[1] = nil /\ Len(rotated) \in 1..Backups + 1
           /\ Len(rotated) <= Len(fs) + 1 /\ \A i \in 2..Len(rotated) : rotated[i] = fs[i - 1]
    <2>1. CASE Len(fs[1]) < MaxLines
      BY <2>1 DEF Rotated
    <2>2. CASE ~(Len(fs[1]) < MaxLines)
      <3> DEFINE one == <<nil>>
                 more == one \o fs
                 n == Backups + 1
                 l == IF n < Len(more) THEN n ELSE Len(more)
      <3>1. rotated = SubSeq(more, 1, l)
        BY <2>2 DEF Rotated, Take
      <3> HIDE DEF nil, R
      <3>2. one \in Seq(R) /\ Len(one) = 1 /\ one[1] = nil
        BY <1>0
      <3> HIDE DEF one
      <3>3. /\ more \in Seq(R) /\ Len(more) = 1 + Len(fs)
            /\ \A i \in 1..1 + Len(fs) : more[i] = IF i <= 1 THEN one[i] ELSE fs[i - 1]
        <4>1. /\ one \o fs \in Seq(R) /\ Len(one \o fs) = Len(one) + Len(fs)
              /\ \A i \in 1..Len(one) + Len(fs) : (one \o fs)[i] = IF i <= Len(one) THEN one[i] ELSE fs[i - Len(one)]
          BY <1>0, <3>2, ConcatProperties
        <4> QED
          BY <3>2, <4>1
      <3> HIDE DEF more
      <3>4. l \in Nat /\ l >= 1 /\ l <= n /\ l <= 1 + Len(fs)
        BY <1>0, <3>3
      <3>5. \A i \in 1..Len(more) : more[i] \in R
        BY <3>3, LenProperties
      <3> HIDE DEF l
      <3>6. /\ rotated \in Seq(R) /\ Len(rotated) = l
            /\ \A i \in 1..l : rotated[i] = more[i]
        <4>1. /\ l - 1 + 1 = l /\ 1 <= l /\ (\A i \in 1..l : 1 + i - 1 = i)
              /\ \A i \in 1..l : more[i] \in R
          BY <1>0, <3>3, <3>4, <3>5
        <4>2. /\ SubSeq(more, 1, l) \in Seq(R) /\ Len(SubSeq(more, 1, l)) = l
              /\ \A i \in 1..l : SubSeq(more, 1, l)[i] = more[1 + i - 1]
          BY <3>4, <4>1, SubSeqProperties
        <4> QED
          BY <3>1, <4>1, <4>2
      <3> HIDE DEF rotated
      <3>7. 1 \in 1..l /\ 1 \in 1..1 + Len(fs) /\ \A i \in 2..l : i \in 1..l /\ i \in 1..1 + Len(fs) /\ ~(i <= 1)
        BY <1>0, <3>4
      <3>8. rotated[1] = nil /\ \A i \in 2..l : rotated[i] = fs[i - 1]
        BY <3>2, <3>3, <3>6, <3>7
      <3>9. l \in 1..Backups + 1 /\ l <= Len(fs) + 1
        BY <1>0, <3>4
      <3> QED
        BY <3>6, <3>8, <3>9
    <2> QED
      BY <2>1, <2>2
  <1>2. rotated \in Seq(R) /\ Len(rotated) \in 1..Backups + 1 /\ Len(rotated) \in Nat /\ 1 \in 1..Len(rotated)
    <2> HIDE DEF R, rotated, nil
    <2> QED
      BY <1>0, <1>1
  <1>3. new = [rotated EXCEPT ![1] = Append(g, e)]
    BY DEF Written
  <1>4. g \in R /\ Append(g, e) \in R
    <2>1. g \in R
      BY <1>2, LenProperties
    <2> QED
      BY <2>1
  <1> DEFINE a == Append(g, e)
  <1> HIDE DEF new, rotated, a, g, R
  <1>5. /\ new \in Seq(R) /\ Len(new) = Len(rotated) /\ new[1] = a
        /\ \A i \in 2..Len(new) : new[i] = rotated[i]
    <2>1. a \in R
      BY <1>4 DEF a
    <2>2. \A i \in 2..Len(rotated) : i \in 1..Len(rotated) /\ i # 1
      BY <1>2
    <2> QED
      BY <1>2, <1>3, <2>1, <2>2, ExceptSeq DEF a
  <1>6. CASE rotated = fs
    BY <1>2, <1>5, <1>6 DEF new, a, g, R
  <1>7. CASE rotated # fs
    BY <1>1, <1>2, <1>5, <1>7 DEF new, a, g, R
  <1> QED
    BY <1>6, <1>7

\* The places of lines: a pair of numbers each, and finitely many.
LEMMA PlacesAre ==
  ASSUME NEW fs \in Seq(Seq(Entries))
  PROVE  /\ IsFiniteSet(Places(fs)) /\ Len(fs) \in Nat
         /\ \A i \in 1..Len(fs) : fs[i] \in Seq(Entries) /\ Len(fs[i]) \in Nat
         /\ \A p : p \in Places(fs) <=> \E i \in 1..Len(fs) : \E j \in 1..Len(fs[i]) : p = <<i, j>>
  <1> DEFINE n == Len(fs)
             f == [i \in 1..n |-> {i} \X DOMAIN fs[i]]
             S == {{i} \X DOMAIN fs[i] : i \in 1..n}
  <1>1. n \in Nat /\ DOMAIN fs = 1..n /\ \A i \in 1..n : fs[i] \in Seq(Entries)
    BY LenProperties
  <1>2. \A i \in 1..n : Len(fs[i]) \in Nat /\ DOMAIN fs[i] = 1..Len(fs[i])
    BY <1>1, LenProperties
  <1>3. Places(fs) = UNION S
    BY <1>1 DEF Places
  <1>4. \A p : p \in Places(fs) <=> \E i \in 1..n : \E j \in 1..Len(fs[i]) : p = <<i, j>>
    BY <1>1, <1>2 DEF Places
  <1>5. IsFiniteSet(S)
    <2>1. f \in Surjection(1..n, S)
      BY DEF Surjection
    <2>2. IsFiniteSet(1..n)
      BY <1>1, FS_Interval
    <2> HIDE DEF f, S
    <2> QED
      BY <2>1, <2>2, FS_Surjection
  <1>6. \A T \in S : IsFiniteSet(T)
    <2> SUFFICES ASSUME NEW i \in 1..n PROVE IsFiniteSet({i} \X DOMAIN fs[i])
      OBVIOUS
    <2>1. IsFiniteSet(DOMAIN fs[i])
      <3>1. 1 \in Int /\ Len(fs[i]) \in Int
        BY <1>2
      <3> QED
        BY <1>2, <3>1, FS_Interval
    <2>2. IsFiniteSet({i})
      BY FS_Singleton
    <2> QED
      BY <2>1, <2>2, FS_Product
  <1>7. IsFiniteSet(Places(fs))
    <2> HIDE DEF S
    <2> QED
      BY <1>3, <1>5, <1>6, FS_UNION
  <1> QED
    BY <1>1, <1>2, <1>4, <1>7

\* The newest lines are entries.
LEMMA NewestAre ==
  ASSUME NEW fs \in Seq(Seq(Entries))
  PROVE  NewestLines(fs) \subseteq Entries
  <1> SUFFICES ASSUME NEW p \in Places(fs) PROVE fs[p[1]][p[2]] \in Entries
    BY DEF NewestLines
  <1> PICK i \in 1..Len(fs) : \E j \in 1..Len(fs[i]) : p = <<i, j>>
    BY PlacesAre
  <1>1. PICK j \in 1..Len(fs[i]) : p = <<i, j>>
    OBVIOUS
  <1>2. fs[i] \in Seq(Entries) /\ p[1] = i /\ p[2] = j
    BY <1>1, PlacesAre
  <1>3. fs[i][j] \in Entries
    BY <1>2, LenProperties
  <1> QED
    BY <1>2, <1>3

\* A place that as many lines come after as before, or fewer, stays among the newest.
LEMMA StaysNewest ==
  ASSUME NEW fs \in Seq(Seq(Entries)), NEW p \in Places(fs), NEW T, IsFiniteSet(T), Cardinality(T) < Limit,
         NEW g \in Injection(Later(fs, p), T)
  PROVE  fs[p[1]][p[2]] \in NewestLines(fs)
  <1>1. Cardinality(Later(fs, p)) <= Cardinality(T) /\ IsFiniteSet(Later(fs, p))
    BY FS_Injection
  <1>2. Cardinality(Later(fs, p)) \in Nat /\ Cardinality(T) \in Nat /\ Limit \in Nat
    BY <1>1, FS_CardinalityType, HistoryBounds
  <1>3. Cardinality(Later(fs, p)) < Limit
    BY <1>1, <1>2
  <1> QED
    BY <1>3 DEF NewestLines

\* A line more comes to the newest, of which one may fall out; a rotation changes no order.
LEMMA NewestMore ==
  ASSUME NEW fs \in Seq(Seq(Entries)), Len(fs) \in 1..Backups + 1, NEW e \in Entries
  PROVE  NewestLines(Written(fs, e)) \subseteq NewestLines(fs) \cup {e}
  <1> DEFINE new == Written(fs, e)
             n == Len(fs)
             m == Len(new)
  <1>1. /\ new \in Seq(Seq(Entries)) /\ m \in Nat /\ n \in Nat /\ m >= 1 /\ n >= 1
        /\ \/ /\ m = n /\ new[1] = Append(fs[1], e) /\ \A i \in 2..m : new[i] = fs[i]
           \/ /\ m <= n + 1 /\ new[1] = Append(<<>>, e) /\ \A i \in 2..m : new[i] = fs[i - 1]
    <2>1. Backups \in Nat
      BY HistoryBounds
    <2>2. /\ new \in Seq(Seq(Entries)) /\ m \in 1..Backups + 1
          /\ \/ /\ m = n /\ new[1] = Append(fs[1], e) /\ \A i \in 2..m : new[i] = fs[i]
             \/ /\ m <= n + 1 /\ new[1] = Append(<<>>, e) /\ \A i \in 2..m : new[i] = fs[i - 1]
      BY WrittenIs
    <2> HIDE DEF new, n, m
    <2>3. n \in 1..Backups + 1
      BY DEF n
    <2>4. m \in Nat /\ n \in Nat /\ m >= 1 /\ n >= 1
      <3>1. m \in 1..Backups + 1
        BY <2>2
      <3> QED
        BY <2>1, <2>3, <3>1
    <2>5. new \in Seq(Seq(Entries))
      BY <2>2
    <2>6. \/ /\ m = n /\ new[1] = Append(fs[1], e) /\ \A i \in 2..m : new[i] = fs[i]
          \/ /\ m <= n + 1 /\ new[1] = Append(<<>>, e) /\ \A i \in 2..m : new[i] = fs[i - 1]
      BY <2>2
    <2> QED
      BY <2>4, <2>5, <2>6
  <1> HIDE DEF new, n, m
  <1>2. fs[1] \in Seq(Entries) /\ Len(fs[1]) \in Nat
    BY <1>1, LenProperties DEF n
  <1> SUFFICES ASSUME NEW q \in Places(new), Cardinality(Later(new, q)) < Limit, new[q[1]][q[2]] # e
               PROVE  new[q[1]][q[2]] \in NewestLines(fs)
    BY DEF NewestLines, new
  <1> PICK i \in 1..m : \E j \in 1..Len(new[i]) : q = <<i, j>>
    BY <1>1, PlacesAre DEF m
  <1>3. PICK j \in 1..Len(new[i]) : q = <<i, j>>
    OBVIOUS
  <1>4. q[1] = i /\ q[2] = j /\ i \in Nat /\ i >= 1
    BY <1>1, <1>3
  <1>5. IsFiniteSet(Later(new, q))
    BY <1>1, PlacesAre, FS_Subset DEF Later
  <1>6. CASE m = n /\ new[1] = Append(fs[1], e) /\ \A k \in 2..m : new[k] = fs[k]
    <2>1. \A k \in 1..n : \A l \in 1..Len(fs[k]) : l \in 1..Len(new[k]) /\ new[k][l] = fs[k][l]
      <3> SUFFICES ASSUME NEW k \in 1..n, NEW l \in 1..Len(fs[k]) PROVE l \in 1..Len(new[k]) /\ new[k][l] = fs[k][l]
        OBVIOUS
      <3>1. CASE k = 1
        <4> DEFINE h == fs[1]
        <4>1. h \in Seq(Entries) /\ l \in 1..Len(h) /\ new[k] = Append(h, e)
          BY <1>2, <1>6, <3>1
        <4> HIDE DEF h
        <4>2. l \in 1..Len(Append(h, e)) /\ Append(h, e)[l] = h[l]
          BY <4>1
        <4> QED
          BY <3>1, <4>1, <4>2 DEF h
      <3>2. CASE k # 1
        <4>1. k \in 2..m
          BY <1>1, <1>6, <3>2
        <4> QED
          BY <1>6, <4>1
      <3> QED
        BY <3>1, <3>2
    <2>2. i \in 1..n /\ j \in 1..Len(fs[i])
      <3>1. CASE i = 1
        <4>1. Len(new[1]) = Len(fs[1]) + 1 /\ new[1][Len(fs[1]) + 1] = e
          BY <1>2, <1>6
        <4>2. j # Len(fs[1]) + 1
          BY <1>4, <3>1, <4>1
        <4> QED
          BY <1>1, <1>2, <3>1, <4>1, <4>2
      <3>2. CASE i # 1
        <4>1. i \in 2..m /\ i \in 1..n
          BY <1>1, <1>4, <1>6, <3>2
        <4> QED
          BY <1>6, <4>1
      <3> QED
        BY <3>1, <3>2
    <2>3. q \in Places(fs) /\ fs[i][j] = new[i][j]
      BY <1>3, <2>1, <2>2, PlacesAre DEF n
    <2>4. Places(fs) \subseteq Places(new)
      BY <1>1, <1>6, <2>1, PlacesAre DEF n, m
    <2>5. Later(fs, q) \subseteq Later(new, q)
      BY <2>4 DEF Later
    <2> DEFINE g == [x \in Later(fs, q) |-> x]
    <2>6. g \in Injection(Later(fs, q), Later(new, q))
      BY <2>5 DEF Injection, IsInjective
    <2> HIDE DEF g
    <2> QED
      BY <1>4, <1>5, <2>3, <2>6, StaysNewest
  <1>7. CASE m <= n + 1 /\ new[1] = Append(<<>>, e) /\ \A k \in 2..m : new[k] = fs[k - 1]
    <2> DEFINE p == <<i - 1, j>>
    <2>1. i # 1
      <3> SUFFICES ASSUME i = 1 PROVE FALSE
        OBVIOUS
      <3>1. Len(new[1]) = 1 /\ new[1][1] = e
        BY <1>7
      <3> QED
        BY <1>3, <1>4, <3>1
    <2>2. i \in 2..m /\ i - 1 \in 1..n /\ new[i] = fs[i - 1]
      BY <1>1, <1>4, <1>7, <2>1
    <2>3. p \in Places(fs) /\ p[1] = i - 1 /\ p[2] = j
      BY <2>2, PlacesAre DEF n
    <2> HIDE DEF p
    <2>4. ASSUME NEW x \in Later(fs, p) PROVE /\ x = <<x[1], x[2]>> /\ x[1] \in Int /\ x[2] \in Int
                                              /\ <<x[1] + 1, x[2]>> \in Later(new, q)
      <3>1. x \in Places(fs) /\ (x[1] < i - 1 \/ (x[1] = i - 1 /\ x[2] > j))
        BY <2>3 DEF Later
      <3> PICK k \in 1..n : \E l \in 1..Len(fs[k]) : x = <<k, l>>
        BY <3>1, PlacesAre DEF n
      <3>2. PICK l \in 1..Len(fs[k]) : x = <<k, l>>
        OBVIOUS
      <3>3. x[1] = k /\ x[2] = l /\ k \in Int /\ l \in Int
        BY <3>2
      <3>4. k + 1 \in 2..m /\ (k + 1) - 1 = k /\ k + 1 \in 1..m
        BY <1>1, <1>4, <2>2, <3>1, <3>3
      <3>5. new[k + 1] = fs[k]
        BY <1>7, <3>4
      <3>6. <<k + 1, l>> \in Places(new)
        BY <1>1, <3>4, <3>5, PlacesAre DEF m
      <3>7. k + 1 < i \/ (k + 1 = i /\ l > j)
        BY <1>4, <3>1, <3>3
      <3> QED
        BY <1>4, <3>2, <3>3, <3>6, <3>7 DEF Later
    <2> DEFINE g == [x \in Later(fs, p) |-> <<x[1] + 1, x[2]>>]
    <2>5. g \in Injection(Later(fs, p), Later(new, q))
      <3>1. g \in [Later(fs, p) -> Later(new, q)]
        BY <2>4
      <3>2. ASSUME NEW x \in Later(fs, p), NEW y \in Later(fs, p), g[x] = g[y] PROVE x = y
        <4>1. x[1] + 1 = y[1] + 1 /\ x[2] = y[2]
          BY <3>2
        <4>2. x[1] = y[1]
          <5>1. x[1] \in Int /\ y[1] \in Int
            BY <2>4
          <5> QED
            BY <4>1, <5>1
        <4> QED
          BY <2>4, <4>1, <4>2
      <3>3. DOMAIN g = Later(fs, p)
        OBVIOUS
      <3> HIDE DEF g
      <3> QED
        BY <3>1, <3>2, <3>3 DEF Injection, IsInjective
    <2> HIDE DEF g
    <2>6. fs[p[1]][p[2]] \in NewestLines(fs)
      BY <1>5, <2>3, <2>5, StaysNewest
    <2> QED
      BY <1>4, <2>2, <2>3, <2>6
  <1> QED
    BY <1>1, <1>6, <1>7

\* The types it takes, and that the lines of a file are a replica's own.
Basics ==
  /\ made \in 0..MaxEntries
  /\ home \in [Entries -> Replicas \cup {Nobody}] /\ step \in [Entries -> Steps]
  /\ files \in [Replicas -> Seq(Seq(Entries))] /\ \A r \in Replicas : Len(files[r]) \in 1..Backups + 1
  /\ redis \in SUBSET Entries
  /\ mode \in [Replicas -> {"down", "boot", "up"}]
  /\ dirty \in [Replicas -> BOOLEAN] /\ blind \in [Replicas -> BOOLEAN]
  /\ replay \in [Replicas -> Seq(Entries) \cup {Idle}]
\* An entry that is on its way has a home.
HomesOk == \A e \in Entries : step[e] # "none" => e <= made /\ home[e] \in Replicas
Over(e) == step[e] \in {"done", "lost"}
LineOk(r, e) == e <= made /\ home[e] = r /\ (step[e] = "redis" \/ Over(e))
LinesOk == \A r \in Replicas : \A e \in NewestLines(files[r]) : LineOk(r, e)
\* What a process that is not up, or a replay under way, has for a flag.
FlagsOk == \A r \in Replicas : mode[r] # "up" \/ replay[r] # Idle => dirty[r]

\* A line of a file that is in the history, or that a replay will bring.
Brought(r, e) == IF replay[r] = Idle THEN dirty[r] ELSE InReplay(r, e)
Told(r) ==
  ~blind[r] =>
    \A e \in NewestLines(files[r]) : Over(e) => Kept(redis, e) \/ Brought(r, e)

HistoryInv == Basics /\ HomesOk /\ LinesOk /\ FlagsOk /\ \A r \in Replicas : Told(r)

LEMMA ReplayBrings ==
  ASSUME Basics, NEW r \in Replicas
  PROVE  replay[r] # Idle => replay[r] \in Seq(Entries) /\ ToSet(replay[r]) \in SUBSET Entries
  BY LenProperties DEF Basics, ToSet

LEMMA IdleIsNone == \A s \in Seq(Entries) : s # Idle
  <1> SUFFICES ASSUME Idle \in Seq(Entries) PROVE FALSE
    OBVIOUS
  <1>1. Idle[1] = 0 /\ 1 \in 1..Len(Idle)
    BY DEF Idle
  <1>2. Idle[1] \in Entries
    BY <1>1, LenProperties
  <1> QED
    BY <1>1, <1>2, EntriesAre

LEMMA NewestAreEntries ==
  ASSUME Basics, NEW r \in Replicas
  PROVE  NewestLines(files[r]) \subseteq Entries
  BY NewestAre DEF Basics

\* What a replica is told stays so while its lines, its replay and its flag do, and the history keeps.
LEMMA ToldStays ==
  ASSUME HistoryInv, NEW r \in Replicas, NewestLines(files[r])' \subseteq NewestLines(files[r]),
         blind'[r] = blind[r], replay'[r] = replay[r],
         dirty[r] => dirty'[r],
         \A e \in NewestLines(files[r])' : Over(e)' => Over(e) \/ Kept(redis, e)',
         \A e \in Entries : Kept(redis, e) => Kept(redis, e)'
  PROVE  Told(r)'
  <1>1. Told(r) /\ NewestLines(files[r]) \subseteq Entries
    BY NewestAreEntries DEF HistoryInv
  <1> SUFFICES ASSUME ~blind'[r], NEW e \in NewestLines(files[r])', Over(e)'
               PROVE  Kept(redis, e)' \/ Brought(r, e)'
    BY DEF Told
  <1>2. Over(e) => Kept(redis, e) \/ Brought(r, e)
    BY <1>1 DEF Told
  <1>3. Brought(r, e) => Brought(r, e)'
    BY DEF Brought, InReplay
  <1>4. e \in Entries
    BY <1>1
  <1> QED
    BY <1>2, <1>3, <1>4

LEMMA HistoryStarts == HistoryInit => HistoryInv
  <1> SUFFICES ASSUME HistoryInit PROVE HistoryInv
    OBVIOUS
  <1>0. MaxEntries \in Nat /\ Backups \in Nat
    BY HistoryBounds
  <1> DEFINE one == << <<>> >>
             nil == <<>>
  <1>1. one \in Seq(Seq(Entries)) /\ Len(one) = 1 /\ one[1] = <<>>
    <2> DEFINE R == Seq(Entries)
    <2>1. nil \in R
      OBVIOUS
    <2> HIDE DEF nil, R
    <2>2. <<nil>> \in Seq(R) /\ Len(<<nil>>) = 1 /\ <<nil>>[1] = nil
      BY <2>1
    <2> QED
      BY <2>2 DEF nil, R
  <1>2. \A r \in Replicas : files[r] = one
    BY DEF HistoryInit
  <1> HIDE DEF one
  <1>3. Basics
    <2>1. files \in [Replicas -> Seq(Seq(Entries))]
      BY <1>1 DEF HistoryInit, one
    <2>2. \A r \in Replicas : Len(files[r]) \in 1..Backups + 1
      <3>1. 1 \in 1..Backups + 1
        BY <1>0
      <3>2. Len(one) = 1
        BY <1>1
      <3> QED
        BY <1>2, <3>1, <3>2
    <2>3. step \in [Entries -> Steps] /\ mode \in [Replicas -> {"down", "boot", "up"}] /\ made \in 0..MaxEntries
      BY <1>0 DEF HistoryInit, Steps
    <2>4. replay \in [Replicas -> Seq(Entries) \cup {Idle}] /\ redis \in SUBSET Entries
      BY DEF HistoryInit
    <2>5. /\ home \in [Entries -> Replicas \cup {Nobody}]
          /\ dirty \in [Replicas -> BOOLEAN] /\ blind \in [Replicas -> BOOLEAN]
      BY DEF HistoryInit
    <2> QED
      BY <2>1, <2>2, <2>3, <2>4, <2>5 DEF Basics
  <1>4. HomesOk /\ FlagsOk
    BY DEF HistoryInit, HomesOk, FlagsOk
  <1>5. \A r \in Replicas : NewestLines(files[r]) = {}
    <2>1. Len(one[1]) = 0
      BY <1>1
    <2>2. Places(one) = {}
      BY <1>1, <2>1, PlacesAre
    <2> QED
      BY <1>2, <2>2 DEF NewestLines
  <1>6. LinesOk
    BY <1>5 DEF LinesOk
  <1>7. \A r \in Replicas : Told(r)
    BY <1>3, <1>5, NewestAreEntries DEF Told
  <1> QED
    BY <1>3, <1>4, <1>6, <1>7 DEF HistoryInv

LEMMA Logs ==
  ASSUME HistoryInv, NEW r \in Replicas, LogQuery(r)
  PROVE  HistoryInv'
  <1> DEFINE n == made + 1
  <1>0. /\ Basics /\ HomesOk /\ LinesOk /\ FlagsOk /\ \A q \in Replicas : Told(q)
        /\ made \in Nat /\ MaxEntries \in Nat /\ n \in Entries /\ n <= MaxEntries
    BY HistoryBounds DEF HistoryInv, Basics, LogQuery, Entries
  <1>1. /\ made' = n /\ home' = [home EXCEPT ![n] = r] /\ step' = [step EXCEPT ![n] = "file"]
        /\ files' = files /\ redis' = redis /\ mode' = mode /\ dirty' = dirty /\ replay' = replay /\ blind' = blind
    BY DEF LogQuery, replicaVars
  <1>2. Basics'
    <2>1. made' \in 0..MaxEntries
      BY <1>0, <1>1
    <2>2. step' \in [Entries -> Steps] /\ home' \in [Entries -> Replicas \cup {Nobody}]
      BY <1>0, <1>1 DEF Basics, Steps
    <2> QED
      BY <1>0, <1>1, <2>1, <2>2 DEF Basics
  <1> HIDE DEF n
  <1>3. \A e \in Entries : e <= made => e # n /\ e <= made'
    <2> SUFFICES ASSUME NEW e \in Entries, e <= made PROVE e # n /\ e <= made'
      OBVIOUS
    <2> QED
      BY <1>0, <1>1, EntriesAre DEF n
  <1>4. \A e \in Entries : e # n => home'[e] = home[e] /\ step'[e] = step[e]
    BY <1>0, <1>1 DEF Basics
  <1>5. HomesOk'
    <2>1. home'[n] = r /\ n <= made'
      BY <1>0, <1>1, EntriesAre DEF Basics
    <2> QED
      BY <1>0, <1>3, <1>4, <2>1 DEF HomesOk
  <1>6. LinesOk'
    <2> SUFFICES ASSUME NEW q \in Replicas, NEW e \in NewestLines(files[q]) PROVE LineOk(q, e)'
      BY <1>1 DEF LinesOk
    <2>1. LineOk(q, e) /\ e \in Entries
      BY <1>0, NewestAreEntries DEF LinesOk
    <2>2. e # n /\ e <= made'
      BY <1>3, <2>1 DEF LineOk
    <2> QED
      BY <1>4, <2>1, <2>2 DEF LineOk, Over
  <1>7. FlagsOk'
    BY <1>0, <1>1 DEF FlagsOk
  <1>8. ASSUME NEW q \in Replicas PROVE Told(q)'
    <2>1. \A e \in NewestLines(files[q]) : Over(e)' => Over(e)
      BY <1>0, <1>3, <1>4, NewestAreEntries DEF LinesOk, LineOk, Over
    <2> QED
      BY <1>1, <2>1, ToldStays DEF Kept
  <1> QED
    BY <1>2, <1>5, <1>6, <1>7, <1>8 DEF HistoryInv

\* An entry goes a step on: it is a line as before.
LEMMA GoesOn ==
  ASSUME HistoryInv, NEW e \in Entries, NEW s \in {"redis", "done"}, step[e] # "none", Reaches(e, s)
  PROVE  /\ home' = home /\ made' = made /\ home[e] \in Replicas /\ e <= made
         /\ step' \in [Entries -> Steps] /\ step'[e] = s /\ \A f \in Entries : f # e => step'[f] = step[f]
         /\ HomesOk'
         /\ \A q \in Replicas : \A f \in Entries : LineOk(q, f) => LineOk(q, f)'
         /\ files' = files => LinesOk'
  <1>0. Basics /\ HomesOk /\ LinesOk
    BY DEF HistoryInv
  <1>1. home' = home /\ made' = made /\ step' = [step EXCEPT ![e] = s]
    BY DEF Reaches
  <1>2. home[e] \in Replicas /\ e <= made
    BY <1>0 DEF HomesOk
  <1>3. /\ step' \in [Entries -> Steps] /\ step'[e] = s
        /\ \A f \in Entries : f # e => step'[f] = step[f]
    BY <1>0, <1>1 DEF Basics, Steps
  <1>4. HomesOk'
    BY <1>0, <1>1, <1>2, <1>3 DEF HomesOk
  <1>5. \A q \in Replicas : \A f \in Entries : LineOk(q, f) => LineOk(q, f)'
    BY <1>1, <1>3 DEF LineOk, Over
  <1>6. files' = files => LinesOk'
    BY <1>0, <1>5, NewestAreEntries DEF LinesOk
  <1> QED
    BY <1>1, <1>2, <1>3, <1>4, <1>5, <1>6

LEMMA FilesWritten ==
  ASSUME HistoryInv, NEW e \in Entries, WriteFile(e)
  PROVE  HistoryInv'
  <1> DEFINE h == home[e]
             old == files[h]
             new == Written(old, e)
  <1>0. Basics /\ HomesOk /\ LinesOk /\ FlagsOk /\ step[e] = "file" /\ Reaches(e, "redis")
    BY DEF HistoryInv, WriteFile
  <1>1. /\ home' = home /\ made' = made /\ h \in Replicas /\ e <= made
        /\ step' \in [Entries -> Steps] /\ step'[e] = "redis" /\ \A f \in Entries : f # e => step'[f] = step[f]
        /\ HomesOk'
        /\ \A q \in Replicas : \A f \in Entries : LineOk(q, f) => LineOk(q, f)'
    BY <1>0, GoesOn
  <1>2. /\ files' = [files EXCEPT ![h] = new] /\ redis' = redis
        /\ mode' = mode /\ dirty' = dirty /\ replay' = replay /\ blind' = blind
    BY DEF WriteFile, replicaVars
  <1>3. old \in Seq(Seq(Entries)) /\ Len(old) \in 1..Backups + 1
    BY <1>0, <1>1 DEF Basics
  <1>4. /\ new \in Seq(Seq(Entries)) /\ Len(new) \in 1..Backups + 1
        /\ NewestLines(new) \subseteq NewestLines(old) \cup {e}
    BY <1>3, WrittenIs, NewestMore
  <1> HIDE DEF h, new
  <1>5. /\ files' \in [Replicas -> Seq(Seq(Entries))] /\ files'[h] = new
        /\ \A q \in Replicas : q # h => files'[q] = files[q]
    BY <1>0, <1>1, <1>2, <1>4 DEF Basics
  <1>6. Basics'
    <2>1. \A q \in Replicas : Len(files'[q]) \in 1..Backups + 1
      BY <1>0, <1>4, <1>5 DEF Basics
    <2> QED
      BY <1>0, <1>1, <1>2, <1>5, <2>1 DEF Basics
  <1>7. LinesOk'
    <2> SUFFICES ASSUME NEW q \in Replicas, NEW f \in NewestLines(files'[q]) PROVE LineOk(q, f)'
      BY DEF LinesOk
    <2>1. CASE f \in NewestLines(files[q])
      BY <1>0, <1>1, <2>1, NewestAreEntries DEF LinesOk
    <2>2. CASE f \notin NewestLines(files[q])
      <3>1. q = h /\ f = e
        BY <1>4, <1>5, <2>2 DEF h
      <3> QED
        BY <1>1, <3>1 DEF LineOk, h
    <2> QED
      BY <2>1, <2>2
  <1>8. FlagsOk'
    BY <1>0, <1>2 DEF FlagsOk
  <1>9. ASSUME NEW q \in Replicas PROVE Told(q)'
    <2> SUFFICES ASSUME ~blind'[q], NEW f \in NewestLines(files'[q]), Over(f)'
                 PROVE  Kept(redis, f)' \/ Brought(q, f)'
      BY DEF Told
    <2>1. f # e
      BY <1>1 DEF Over
    <2>2. f \in NewestLines(files[q])
      BY <1>4, <1>5, <2>1
    <2>3. f \in Entries
      BY <1>0, <2>2, NewestAreEntries
    <2>4. Kept(redis, f) \/ Brought(q, f)
      BY <1>1, <1>2, <2>1, <2>2, <2>3 DEF HistoryInv, Told, Over
    <2> QED
      BY <1>2, <2>4 DEF Kept, Brought, InReplay
  <1> QED
    BY <1>1, <1>6, <1>7, <1>8, <1>9 DEF HistoryInv

LEMMA FilesMissed ==
  ASSUME HistoryInv, NEW e \in Entries, WriteFileFails(e)
  PROVE  HistoryInv'
  <1>0. /\ Basics /\ HomesOk /\ LinesOk /\ FlagsOk /\ step[e] = "file" /\ Reaches(e, "redis")
        /\ files' = files /\ redis' = redis /\ mode' = mode /\ dirty' = dirty /\ replay' = replay /\ blind' = blind
    BY DEF HistoryInv, WriteFileFails, replicaVars
  <1>1. /\ home' = home /\ made' = made /\ LinesOk' /\ HomesOk'
        /\ step' \in [Entries -> Steps] /\ step'[e] = "redis" /\ \A f \in Entries : f # e => step'[f] = step[f]
    BY <1>0, GoesOn
  <1>2. Basics' /\ FlagsOk'
    BY <1>0, <1>1 DEF Basics, FlagsOk
  <1>3. ASSUME NEW q \in Replicas PROVE Told(q)'
    <2>1. \A f \in NewestLines(files[q]) : Over(f)' => Over(f)
      BY <1>0, <1>1, NewestAreEntries DEF Over
    <2> QED
      BY <1>0, <2>1, ToldStays DEF Kept
  <1> QED
    BY <1>1, <1>2, <1>3 DEF HistoryInv

LEMMA HistoryWritten ==
  ASSUME HistoryInv, NEW e \in Entries, WriteRedis(e)
  PROVE  HistoryInv'
  <1>0. /\ Basics /\ HomesOk /\ LinesOk /\ FlagsOk /\ step[e] = "redis" /\ Reaches(e, "done")
        /\ files' = files /\ mode' = mode /\ dirty' = dirty /\ replay' = replay /\ blind' = blind
        /\ redis' = Trimmed(redis \cup {e})
    BY DEF HistoryInv, WriteRedis, replicaVars
  <1>1. /\ home' = home /\ made' = made /\ LinesOk' /\ HomesOk'
        /\ step' \in [Entries -> Steps] /\ step'[e] = "done" /\ \A f \in Entries : f # e => step'[f] = step[f]
    BY <1>0, GoesOn
  <1>2. redis' \in SUBSET Entries /\ Kept(redis', e) /\ \A f \in Entries : Kept(redis, f) => Kept(redis', f)
    <2>1. redis \in SUBSET Entries /\ {e} \in SUBSET Entries
      BY <1>0 DEF Basics
    <2> QED
      BY <1>0, <2>1, WritesKeep
  <1>3. Basics' /\ FlagsOk'
    BY <1>0, <1>1, <1>2 DEF Basics, FlagsOk
  <1>4. ASSUME NEW q \in Replicas PROVE Told(q)'
    <2>1. \A f \in NewestLines(files[q]) : Over(f)' => Over(f) \/ Kept(redis', f)
      BY <1>0, <1>1, <1>2, NewestAreEntries DEF Over
    <2> QED
      BY <1>0, <1>2, <2>1, ToldStays DEF Kept, Newer
  <1> QED
    BY <1>1, <1>3, <1>4 DEF HistoryInv

\* The write failed or its answer was lost: the flag of the entry's home goes up, and a replay
\* under way there has the entry or is blind.
LEMMA HistoryMissed ==
  ASSUME HistoryInv, NEW e \in Entries, WriteRedisFails(e)
  PROVE  HistoryInv'
  <1> DEFINE h == home[e]
  <1>0. /\ Basics /\ HomesOk /\ LinesOk /\ FlagsOk /\ step[e] = "redis" /\ Reaches(e, "done")
        /\ files' = files /\ mode' = mode /\ replay' = replay
        /\ redis' \in {redis, Trimmed(redis \cup {e})}
        /\ dirty' = [dirty EXCEPT ![h] = TRUE]
        /\ blind' = [blind EXCEPT ![h] = @ \/ (replay[h] # Idle /\ ~InReplay(h, e))]
    BY DEF HistoryInv, WriteRedisFails, RaisesFlag
  <1>1. /\ home' = home /\ made' = made /\ h \in Replicas /\ LinesOk' /\ HomesOk'
        /\ step' \in [Entries -> Steps] /\ step'[e] = "done" /\ \A f \in Entries : f # e => step'[f] = step[f]
    BY <1>0, GoesOn
  <1> HIDE DEF h
  <1>2. redis' \in SUBSET Entries /\ \A f \in Entries : Kept(redis, f) => Kept(redis', f)
    <2>1. redis \in SUBSET Entries /\ {e} \in SUBSET Entries
      BY <1>0 DEF Basics
    <2> QED
      BY <1>0, <2>1, MaybeWritten
  <1>3. /\ dirty' \in [Replicas -> BOOLEAN] /\ dirty'[h] = TRUE /\ \A q \in Replicas : q # h => dirty'[q] = dirty[q]
    BY <1>0, <1>1 DEF Basics
  <1>4. /\ blind' \in [Replicas -> BOOLEAN] /\ \A q \in Replicas : q # h => blind'[q] = blind[q]
        /\ ~blind'[h] => ~blind[h] /\ (replay[h] = Idle \/ InReplay(h, e))
    BY <1>0, <1>1 DEF Basics
  <1>5. Basics'
    BY <1>0, <1>1, <1>2, <1>3, <1>4 DEF Basics
  <1>6. FlagsOk'
    BY <1>0, <1>3 DEF FlagsOk
  <1>7. ASSUME NEW q \in Replicas PROVE Told(q)'
    <2> SUFFICES ASSUME ~blind'[q], NEW f \in NewestLines(files[q]), Over(f)'
                 PROVE  Kept(redis', f) \/ Brought(q, f)'
      BY <1>0 DEF Told, Kept, Newer
    <2>1. f \in Entries /\ home[f] = q
      BY <1>0, NewestAreEntries DEF LinesOk, LineOk
    <2>2. CASE f = e
      <3>1. q = h /\ (replay[q] = Idle \/ InReplay(q, e))
        BY <1>4, <2>1, <2>2 DEF h
      <3> QED
        BY <1>0, <1>3, <2>2, <3>1 DEF Brought, InReplay
    <2>3. CASE f # e
      <3>1. ~blind[q] /\ Over(f)
        BY <1>0, <1>1, <1>4, <2>1, <2>3 DEF Over
      <3>2. Kept(redis, f) \/ Brought(q, f)
        BY <3>1 DEF HistoryInv, Told
      <3>3. Brought(q, f) => Brought(q, f)'
        BY <1>0, <1>3 DEF Brought, InReplay
      <3> QED
        BY <1>2, <2>1, <3>2, <3>3
    <2> QED
      BY <2>2, <2>3
  <1> QED
    BY <1>1, <1>5, <1>6, <1>7 DEF HistoryInv

LEMMA LinesRead ==
  ASSUME HistoryInv, NEW r \in Replicas, ReplayReads(r)
  PROVE  HistoryInv'
  <1> DEFINE read == ReadBack(files[r])
  <1>0. /\ Basics /\ HomesOk /\ LinesOk /\ FlagsOk /\ dirty[r]
        /\ made' = made /\ home' = home /\ step' = step /\ files' = files /\ redis' = redis
        /\ mode' = mode /\ dirty' = dirty
        /\ replay' = [replay EXCEPT ![r] = read]
        /\ blind' = [blind EXCEPT ![r] = ToSet(read) # NewestLines(files[r])]
    BY DEF HistoryInv, ReplayReads, entryVars, FlagsOk
  <1>1. /\ files[r] \in Seq(Seq(Entries)) /\ Len(files[r]) \in 1..Backups + 1 /\ Len(files[r]) \in Nat
        /\ Len(files[r]) >= 1
    BY <1>0, HistoryBounds DEF Basics
  <1>2. read \in Seq(Entries) /\ read # Idle
    BY <1>1, ReadBackIs, IdleIsNone
  <1> HIDE DEF read
  <1>3. /\ replay' \in [Replicas -> Seq(Entries) \cup {Idle}] /\ replay'[r] = read
        /\ \A q \in Replicas : q # r => replay'[q] = replay[q]
    BY <1>0, <1>2 DEF Basics
  <1>4. /\ blind' \in [Replicas -> BOOLEAN] /\ \A q \in Replicas : q # r => blind'[q] = blind[q]
        /\ ~blind'[r] => ToSet(read) = NewestLines(files[r])
    BY <1>0 DEF Basics
  <1>5. Basics' /\ HomesOk'
    BY <1>0, <1>3, <1>4 DEF Basics, HomesOk
  <1>6. LinesOk' /\ FlagsOk'
    BY <1>0, <1>3 DEF LinesOk, LineOk, Over, FlagsOk
  <1>7. ASSUME NEW q \in Replicas PROVE Told(q)'
    <2>1. CASE q = r
      BY <1>0, <1>2, <1>3, <1>4, <2>1 DEF Told, Brought, InReplay
    <2>2. CASE q # r
      BY <1>0, <1>3, <1>4, <2>2, ToldStays DEF Kept, Over
    <2> QED
      BY <2>1, <2>2
  <1> QED
    BY <1>5, <1>6, <1>7 DEF HistoryInv

\* What all ways to end a replay have in common.
LEMMA Ended ==
  ASSUME HistoryInv, NEW r \in Replicas, NEW s \in {"down", "up"},
         mode' = [mode EXCEPT ![r] = s], ReplayOver(r)
  PROVE  /\ mode' \in [Replicas -> {"down", "boot", "up"}] /\ mode'[r] = s
         /\ replay' \in [Replicas -> Seq(Entries) \cup {Idle}] /\ replay'[r] = Idle
         /\ \A q \in Replicas : q # r => mode'[q] = mode[q] /\ replay'[q] = replay[q]
  BY DEF HistoryInv, Basics, ReplayOver

LEMMA LinesWritten ==
  ASSUME HistoryInv, NEW r \in Replicas, ReplayWrites(r)
  PROVE  HistoryInv'
  <1> DEFINE T == ToSet(replay[r])
  <1>0. /\ Basics /\ HomesOk /\ LinesOk /\ FlagsOk /\ replay[r] # Idle
        /\ made' = made /\ home' = home /\ step' = step /\ files' = files /\ blind' = blind
        /\ redis' = Trimmed(redis \cup T)
        /\ dirty' = [dirty EXCEPT ![r] = FALSE]
        /\ mode' = [mode EXCEPT ![r] = "up"] /\ ReplayOver(r)
    BY DEF HistoryInv, ReplayWrites, entryVars, Seeded, Served
  <1>1. T \in SUBSET Entries /\ redis \in SUBSET Entries
    BY <1>0, ReplayBrings DEF Basics
  <1> HIDE DEF T
  <1>2. redis' \in SUBSET Entries /\ \A e \in Entries : Kept(redis, e) \/ e \in T => Kept(redis', e)
    BY <1>0, <1>1, WritesKeep
  <1>3. /\ mode' \in [Replicas -> {"down", "boot", "up"}] /\ mode'[r] = "up"
        /\ replay' \in [Replicas -> Seq(Entries) \cup {Idle}] /\ replay'[r] = Idle
        /\ \A q \in Replicas : q # r => mode'[q] = mode[q] /\ replay'[q] = replay[q]
    BY <1>0, Ended
  <1>4. dirty' \in [Replicas -> BOOLEAN] /\ \A q \in Replicas : q # r => dirty'[q] = dirty[q]
    BY <1>0 DEF Basics
  <1>5. Basics' /\ HomesOk'
    BY <1>0, <1>2, <1>3, <1>4 DEF Basics, HomesOk
  <1>6. LinesOk'
    BY <1>0 DEF LinesOk, LineOk, Over
  <1>7. FlagsOk'
    <2> SUFFICES ASSUME NEW q \in Replicas, (mode[q] # "up" \/ replay[q] # Idle)' PROVE dirty'[q]
      BY DEF FlagsOk
    <2>1. q # r
      BY <1>3
    <2> QED
      BY <1>0, <1>3, <1>4, <2>1 DEF FlagsOk
  <1>8. ASSUME NEW q \in Replicas PROVE Told(q)'
    <2>1. CASE q = r
      <3> SUFFICES ASSUME ~blind'[q], NEW f \in NewestLines(files[q]), Over(f)'
                   PROVE  Kept(redis', f)
        BY <1>0 DEF Told, Kept, Newer
      <3>1. f \in Entries
        BY <1>0, NewestAreEntries
      <3>2. Kept(redis, f) \/ f \in T
        BY <1>0, <2>1 DEF HistoryInv, Told, Over, Brought, InReplay, T
      <3> QED
        BY <1>2, <3>1, <3>2
    <2>2. CASE q # r
      BY <1>0, <1>2, <1>3, <1>4, <2>2, ToldStays DEF Kept, Newer, Over
    <2> QED
      BY <2>1, <2>2
  <1> QED
    BY <1>5, <1>6, <1>7, <1>8 DEF HistoryInv

\* At the start a replay that fails leaves the replica blind, and later it leaves the flag up.
LEMMA LinesMissed ==
  ASSUME HistoryInv, NEW r \in Replicas, ReplayFails(r)
  PROVE  HistoryInv'
  <1> DEFINE T == ToSet(replay[r])
  <1>0. /\ Basics /\ HomesOk /\ LinesOk /\ FlagsOk /\ replay[r] # Idle
        /\ made' = made /\ home' = home /\ step' = step /\ files' = files
        /\ redis' \in {redis, Trimmed(redis \cup T)}
        /\ mode' = [mode EXCEPT ![r] = "up"] /\ ReplayOver(r)
    BY DEF HistoryInv, ReplayFails, entryVars, Seeded, Served
  <1>1. T \in SUBSET Entries /\ redis \in SUBSET Entries
    BY <1>0, ReplayBrings DEF Basics
  <1> HIDE DEF T
  <1>2. redis' \in SUBSET Entries /\ \A e \in Entries : Kept(redis, e) => Kept(redis', e)
    BY <1>0, <1>1, MaybeWritten
  <1>3. /\ mode' \in [Replicas -> {"down", "boot", "up"}] /\ mode'[r] = "up"
        /\ replay' \in [Replicas -> Seq(Entries) \cup {Idle}] /\ replay'[r] = Idle
        /\ \A q \in Replicas : q # r => mode'[q] = mode[q] /\ replay'[q] = replay[q]
    BY <1>0, Ended
  <1>4. \/ dirty' = [dirty EXCEPT ![r] = FALSE] /\ blind' = [blind EXCEPT ![r] = TRUE]
        \/ dirty' = dirty /\ blind' = blind
    BY DEF ReplayFails
  <1>5. /\ dirty' \in [Replicas -> BOOLEAN] /\ blind' \in [Replicas -> BOOLEAN]
        /\ \A q \in Replicas : q # r => dirty'[q] = dirty[q] /\ blind'[q] = blind[q]
        /\ blind'[r] \/ dirty'[r]
    BY <1>0, <1>4 DEF Basics, FlagsOk
  <1>6. Basics' /\ HomesOk'
    BY <1>0, <1>2, <1>3, <1>5 DEF Basics, HomesOk
  <1>7. LinesOk'
    BY <1>0 DEF LinesOk, LineOk, Over
  <1>8. FlagsOk'
    <2> SUFFICES ASSUME NEW q \in Replicas, (mode[q] # "up" \/ replay[q] # Idle)' PROVE dirty'[q]
      BY DEF FlagsOk
    <2>1. q # r
      BY <1>3
    <2> QED
      BY <1>0, <1>3, <1>5, <2>1 DEF FlagsOk
  <1>9. ASSUME NEW q \in Replicas PROVE Told(q)'
    <2>1. CASE q = r
      BY <1>3, <1>5, <2>1 DEF Told, Brought
    <2>2. CASE q # r
      BY <1>0, <1>2, <1>3, <1>5, <2>2, ToldStays DEF Kept, Newer, Over
    <2> QED
      BY <2>1, <2>2
  <1> QED
    BY <1>6, <1>7, <1>8, <1>9 DEF HistoryInv

LEMMA Started ==
  ASSUME HistoryInv, NEW r \in Replicas, Start(r)
  PROVE  HistoryInv'
  <1>0. /\ Basics /\ HomesOk /\ LinesOk /\ FlagsOk /\ mode[r] = "down" /\ mode' = [mode EXCEPT ![r] = "boot"]
        /\ made' = made /\ home' = home /\ step' = step /\ files' = files /\ redis' = redis
        /\ dirty' = dirty /\ replay' = replay /\ blind' = blind
    BY DEF HistoryInv, Start, entryVars
  <1>1. Basics' /\ HomesOk' /\ LinesOk'
    BY <1>0 DEF Basics, HomesOk, LinesOk, LineOk, Over
  <1>2. \A q \in Replicas : mode'[q] # "up" => mode[q] # "up"
    BY <1>0 DEF Basics
  <1>3. FlagsOk'
    BY <1>0, <1>2 DEF FlagsOk
  <1>4. ASSUME NEW q \in Replicas PROVE Told(q)'
    BY <1>0, ToldStays DEF Kept, Over
  <1> QED
    BY <1>1, <1>3, <1>4 DEF HistoryInv

\* The lines of the others are not in flight at r, and what r was to write its next replay brings.
LEMMA Crashed ==
  ASSUME HistoryInv, NEW r \in Replicas, Crash(r)
  PROVE  HistoryInv'
  <1>0. /\ Basics /\ HomesOk /\ LinesOk /\ FlagsOk
        /\ made' = made /\ home' = home /\ files' = files /\ redis' = redis /\ blind' = blind
        /\ mode' = [mode EXCEPT ![r] = "down"] /\ ReplayOver(r) /\ dirty' = [dirty EXCEPT ![r] = TRUE]
        /\ step' = [e \in Entries |-> IF e \in InFlight(r) THEN "lost" ELSE step[e]]
    BY DEF HistoryInv, Crash, RaisesFlag
  <1>1. /\ mode' \in [Replicas -> {"down", "boot", "up"}] /\ mode'[r] = "down"
        /\ replay' \in [Replicas -> Seq(Entries) \cup {Idle}] /\ replay'[r] = Idle
        /\ \A q \in Replicas : q # r => mode'[q] = mode[q] /\ replay'[q] = replay[q]
    BY <1>0, Ended
  <1>2. dirty' \in [Replicas -> BOOLEAN] /\ dirty'[r] /\ \A q \in Replicas : q # r => dirty'[q] = dirty[q]
    BY <1>0 DEF Basics
  <1>3. /\ step' \in [Entries -> Steps]
        /\ \A e \in Entries : \/ step'[e] = step[e]
                              \/ home[e] = r /\ step[e] \in {"file", "redis"} /\ step'[e] = "lost"
    BY <1>0 DEF Basics, Steps, InFlight
  <1>4. Basics'
    BY <1>0, <1>1, <1>2, <1>3 DEF Basics
  <1>5. HomesOk'
    BY <1>0, <1>3 DEF HomesOk
  <1>6. LinesOk'
    <2> SUFFICES ASSUME NEW q \in Replicas, NEW e \in NewestLines(files[q]) PROVE LineOk(q, e)'
      BY <1>0 DEF LinesOk
    <2>1. LineOk(q, e) /\ e \in Entries
      BY <1>0, NewestAreEntries DEF LinesOk
    <2> QED
      BY <1>0, <1>3, <2>1 DEF LineOk, Over
  <1>7. FlagsOk'
    BY <1>0, <1>1, <1>2 DEF FlagsOk
  <1>8. ASSUME NEW q \in Replicas PROVE Told(q)'
    <2>1. CASE q = r
      BY <1>1, <1>2, <2>1 DEF Told, Brought
    <2>2. CASE q # r
      <3>1. \A e \in NewestLines(files[q]) : Over(e)' => Over(e)
        <4> SUFFICES ASSUME NEW e \in NewestLines(files[q]), Over(e)' PROVE Over(e)
          OBVIOUS
        <4>1. e \in Entries /\ home[e] = q
          BY <1>0, NewestAreEntries DEF LinesOk, LineOk
        <4> QED
          BY <1>3, <2>2, <4>1 DEF Over
      <3> QED
        BY <1>0, <1>1, <1>2, <2>2, <3>1, ToldStays DEF Kept
    <2> QED
      BY <2>1, <2>2
  <1> QED
    BY <1>4, <1>5, <1>6, <1>7, <1>8 DEF HistoryInv

LEMMA HistorySteps == HistoryInv /\ [HistoryNext]_historyVars => HistoryInv'
  <1> SUFFICES ASSUME HistoryInv, [HistoryNext]_historyVars PROVE HistoryInv'
    OBVIOUS
  <1>1. CASE UNCHANGED historyVars
    BY <1>1 DEF historyVars, entryVars, replicaVars, HistoryInv, Basics, HomesOk, LinesOk, LineOk, Over, FlagsOk,
                Told, Kept, Brought, InReplay
  <1>2. ASSUME NEW r \in Replicas, LogQuery(r) \/ Replays(r) \/ Start(r) \/ Crash(r) PROVE HistoryInv'
    BY <1>2, Logs, LinesRead, LinesWritten, LinesMissed, Started, Crashed DEF Replays
  <1>3. ASSUME NEW e \in Entries, Records(e) PROVE HistoryInv'
    BY <1>3, FilesWritten, FilesMissed, HistoryWritten, HistoryMissed DEF Records
  <1> QED
    BY <1>1, <1>2, <1>3 DEF HistoryNext

LEMMA HistoryHolds == HistorySpec => []HistoryInv
  <1> QED
    BY HistoryStarts, HistorySteps, PTL DEF HistorySpec

\* A replica that is up with its flag down has the newest lines of its files in the shared
\* history, however they were rotated, but for the replays the property excuses: the flag was
\* raised before the line was given up, and came down only with a replay that had the line
\* (main.py:587-622, 845).
THEOREM CleanHistoriesAreShared == HistorySpec => []CleanMeansShared
  <1>1. HistoryInv => CleanMeansShared
    <2> SUFFICES ASSUME HistoryInv, NEW r \in Replicas, mode[r] = "up", ~dirty[r], ~blind[r],
                        NEW e \in InLog(r), step[e] \in {"done", "lost"}
                 PROVE  InHistory(e)
      BY DEF CleanMeansShared
    <2>2. e \in NewestLines(files[r])
      BY DEF InLog
    <2>3. ~Brought(r, e)
      BY DEF HistoryInv, FlagsOk, Brought
    <2>4. Kept(redis, e)
      BY <2>2, <2>3 DEF HistoryInv, Told, Over
    <2> QED
      BY <2>4 DEF Kept, InHistory
  <1> QED
    BY <1>1, HistoryHolds, PTL

\* Every step that writes the shared history, with the answer or without it, gives up an entry
\* for Limit newer ones only (history.py:88, 109).
THEOREM HistoryKeepsNewest == HistorySpec => KeepsNewest
  <1> DEFINE StillKept == \A e \in Entries : InHistory(e) => InHistory(e)'
  <1>1. HistoryInv /\ [HistoryNext]_historyVars => [StillKept]_historyVars
    <2> SUFFICES ASSUME HistoryInv, HistoryNext, NEW e \in Entries, InHistory(e) PROVE InHistory(e)'
      OBVIOUS
    <2>1. Kept(redis, e) /\ redis \in SUBSET Entries
      BY DEF HistoryInv, Basics, InHistory, Kept
    <2>2. redis' = redis \/ \E N \in SUBSET Entries : redis' \in {redis, Trimmed(redis \cup N)}
      <3>1. ASSUME NEW r \in Replicas, Replays(r)
            PROVE  \/ redis' = redis
                   \/ replay[r] # Idle /\ redis' \in {redis, Trimmed(redis \cup ToSet(replay[r]))}
        BY <3>1 DEF Replays, ReplayReads, ReplayWrites, ReplayFails, Seeded
      <3>2. \A r \in Replicas : replay[r] # Idle => ToSet(replay[r]) \in SUBSET Entries
        BY ReplayBrings DEF HistoryInv
      <3>3. ASSUME NEW r \in Replicas, LogQuery(r) \/ Start(r) \/ Crash(r) PROVE redis' = redis
        BY <3>3 DEF LogQuery, Start, Crash
      <3>4. ASSUME NEW f \in Entries, Records(f)
            PROVE  redis' = redis \/ redis' \in {redis, Trimmed(redis \cup {f})}
        BY <3>4 DEF Records, WriteFile, WriteFileFails, WriteRedis, WriteRedisFails
      <3>5. \A f \in Entries : {f} \in SUBSET Entries
        OBVIOUS
      <3> QED
        BY <3>1, <3>2, <3>3, <3>4, <3>5 DEF HistoryNext
    <2>3. Kept(redis', e)
      BY <2>1, <2>2, MaybeWritten
    <2> QED
      BY <2>3 DEF InHistory, Kept, Newer
  <1> QED
    BY <1>1, HistoryHolds, PTL DEF HistorySpec, KeepsNewest
=============================================================================
