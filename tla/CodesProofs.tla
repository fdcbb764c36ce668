---------------------------- MODULE CodesProofs ----------------------------
(***************************************************************************)
(* Proofs about OneTimeCodes: types and the books of the profile pool, one *)
(* redirect per code, the code of an export kept for a retry, and one      *)
(* conversion per document.                                                *)
(*                                                                         *)
(* A code is spent once because it is, at any time, in one place: about to *)
(* be stored by the one client that made it, in Redis, in the hands of the *)
(* one client whose GETDEL took it, or used.  A document is converted once *)
(* because whoever holds its lock has seen, under the lock, that it is not *)
(* cached.                                                                 *)
(***************************************************************************)
EXTENDS OneTimeCodes, FiniteSetTheorems, TLAPS

ClientsOK ==
  /\ at \in [Clients -> Points] /\ code \in [Clients -> 0..minted]
  /\ doc \in [Clients -> Docs]
  /\ excess \in [Clients -> Nat] /\ evicted \in [Clients -> SUBSET Codes]
CodesOK ==
  /\ minted \in 0..MaxMinted /\ used \in [Codes -> Nat] /\ sent \subseteq Clients
\* What has been popped from the index and not been deleted yet.
Popped == UNION {evicted[c] : c \in Clients}
\* A code in Redis is in the index, or its client is about to put it there, or it was popped.
RedisOK ==
  /\ live \subseteq 1..minted /\ index \subseteq Codes
  /\ \A k \in live : k \in index \/ k \in Popped \/ \E c \in Clients : at[c] = "index" /\ code[c] = k
  /\ \A c \in Clients : at[c] = "index" => code[c] \in Codes
DocsOK ==
  /\ cached \in [Docs -> BOOLEAN] /\ lock \in [Docs -> Clients \cup {Nobody}]
  /\ stored \in [Docs -> Nat] /\ overruns \in 0..MaxOverruns /\ alive \in BOOLEAN
\* The conversions that have a profile are among those that have a slot, and the count of active
\* profiles falls below zero by less than the slots, even when all that make one now fail.
Makers == {c \in Clients : at[c] = "mkdir"}
PoolOK ==
  /\ free \in Nat /\ active \in Int /\ active <= Capacity
  /\ free + Leased <= Capacity /\ InSlot <= Capacity
  /\ 1 - Capacity <= active - Cardinality(Makers)

\* Where a client has a code to itself.
Spends == {"set", "unindex", "unlist", "sign"}
SpentOnce ==
  /\ \A c \in Clients : at[c] \in Spends => code[c] \in Codes /\ code[c] \notin live /\ used[code[c]] = 0
  /\ \A c, d \in Clients : at[c] \in Spends /\ at[d] \in Spends /\ code[c] = code[d] => c = d
  /\ \A k \in Codes : used[k] <= 1 /\ (used[k] = 1 => k \notin live)
  /\ \A k \in Codes : k > minted => used[k] = 0
\* Who is about to take a code after an export has sent the file, or the session is gone.
Redeems == \A c \in Clients : at[c] = "take" => c \in sent \/ ~alive
\* As long as no lock outlives its lease.
LockedOnce ==
  overruns = 0 =>
    /\ \A c \in Clients : at[c] \in LockPoints => lock[doc[c]] = c
    /\ \A c \in Clients : at[c] \in LockPoints \ {"recheck"} => ~cached[doc[c]]
    /\ \A d \in Docs : stored[d] <= 1 /\ (~cached[d] => stored[d] = 0)

Types == ClientsOK /\ CodesOK /\ RedisOK /\ DocsOK /\ PoolOK
Inv == Types /\ SpentOnce /\ Redeems /\ LockedOnce

-----------------------------------------------------------------------------
(* One client moves.                                                       *)

\* The client c is at p with the code k and the document d, the others are where they were.
Moved(c, p, k, d) ==
  /\ p \in Points /\ k \in 0..minted' /\ d \in Docs
  /\ at' = [at EXCEPT ![c] = p] /\ code' = [code EXCEPT ![c] = k] /\ doc' = [doc EXCEPT ![c] = d]
  /\ excess' \in [Clients -> Nat] /\ evicted' \in [Clients -> SUBSET Codes]

LEMMA PointNames ==
  /\ {"idle", "tickets", "set", "index", "count", "trim", "delete", "open", "unlist", "sign",
      "cache", "lock", "reply", "take", "unindex",
      "recheck", "school", "slot", "profile", "mkdir", "convert", "store"} \subseteq Points
  /\ LockPoints = {"recheck", "school", "slot", "profile", "mkdir", "convert", "store"}
  /\ LockPoints \subseteq Points
  BY DEF Points, JumpPoints, MintPoints, GoPoints, ExportPoints, LockPoints, SlotPoints

LEMMA LiveCodes ==
  ASSUME CodesOK \/ Types
  PROVE  /\ minted \in Nat /\ 1..minted \subseteq Codes
         /\ RedisOK \/ Types => \A k \in live : k \in Codes /\ k \in 1..minted
<1>1. minted \in 0..MaxMinted /\ MaxMinted \in Nat
  BY BoundsAssumption DEF Types, CodesOK
<1>2. minted \in Nat /\ \A k \in 1..minted : k \in 1..MaxMinted
  BY <1>1
<1>3. RedisOK \/ Types => live \subseteq 1..minted
  BY DEF RedisOK, Types
<1>. QED BY <1>2, <1>3 DEF Codes

LEMMA MovedAt ==
  ASSUME ClientsOK, NEW c \in Clients, NEW p, NEW k, NEW d, Moved(c, p, k, d)
  PROVE  /\ at'[c] = p /\ code'[c] = k /\ doc'[c] = d
         /\ \A b \in Clients \ {c} : at'[b] = at[b] /\ code'[b] = code[b] /\ doc'[b] = doc[b]
  BY DEF ClientsOK, Moved

LEMMA GoesMoves ==
  ASSUME ClientsOK, minted' = minted, CodesOK, NEW c \in Clients, NEW p \in Points, Goes(c, p)
  PROVE  Moved(c, p, CodeAt(c, p), doc[c])
<1>1. CodeAt(c, p) \in 0..minted'
  BY DEF CodeAt, ClientsOK, CodesOK
<1>2. doc[c] \in Docs /\ doc' = [doc EXCEPT ![c] = doc[c]]
  BY DEF Goes, ClientsOK
<1>3. excess' \in [Clients -> Nat] /\ evicted' \in [Clients -> SUBSET Codes]
  BY DEF Goes, trimVars, ClientsOK
<1>. QED BY <1>1, <1>2, <1>3 DEF Goes, Moved

LEMMA MovedOK ==
  ASSUME ClientsOK, NEW c \in Clients, NEW p, NEW k, NEW d, Moved(c, p, k, d),
         minted' \in Nat, minted <= minted', minted \in Nat
  PROVE  ClientsOK'
<1>1. 0..minted \subseteq 0..minted'
  OBVIOUS
<1>. QED BY <1>1 DEF ClientsOK, Moved

-----------------------------------------------------------------------------
(* A code is in one place.                                                 *)

\* A move to a place where c has no code to itself.
LEMMA PlainSpent ==
  ASSUME Types, SpentOnce, NEW c \in Clients, NEW p, NEW k, NEW d, Moved(c, p, k, d),
         p \notin Spends, UNCHANGED used, minted' \in Nat, minted <= minted', live' \subseteq live
  PROVE  SpentOnce'
<1>. USE MovedAt DEF Types
<1>1. \A b \in Clients : at'[b] \in Spends => at[b] \in Spends /\ code'[b] = code[b]
  OBVIOUS
<1>2. \A m \in Codes : m > minted' => m > minted
  BY DEF Codes, CodesOK
<1>. QED BY <1>1, <1>2 DEF SpentOnce

LEMMA StillSpent ==
  ASSUME SpentOnce, UNCHANGED <<at, code, used, minted>>, live' \subseteq live
  PROVE  SpentOnce'
  BY DEF SpentOnce

\* A code is made: it is greater than all there were.
LEMMA MintingSpent ==
  ASSUME Types, SpentOnce, NEW c \in Clients, Minting(c), UNCHANGED <<used, live>>
  PROVE  SpentOnce'
<1>1. minted \in Nat /\ minted' = minted + 1 /\ minted' \in Codes /\ MaxMinted \in Nat
  BY BoundsAssumption DEF Types, CodesOK, Minting, Codes
<1>2. /\ at'[c] = "set" /\ code'[c] = minted'
      /\ \A b \in Clients \ {c} : at'[b] = at[b] /\ code'[b] = code[b]
  BY <1>1 DEF Types, ClientsOK, Minting
<1>3. \A b \in Clients : code[b] \in 0..minted /\ code[b] # minted'
  BY <1>1 DEF Types, ClientsOK
<1>4. minted' \notin live' /\ used'[minted'] = 0
  BY <1>1 DEF Types, RedisOK, SpentOnce
<1>5. \A b \in Clients : at'[b] \in Spends
        => code'[b] \in Codes /\ code'[b] \notin live' /\ used'[code'[b]] = 0
  BY <1>1, <1>2, <1>4 DEF SpentOnce
<1>6. \A b, e \in Clients : at'[b] \in Spends /\ at'[e] \in Spends /\ code'[b] = code'[e] => b = e
  BY <1>2, <1>3 DEF SpentOnce
<1>7. \A m \in Codes : (used'[m] <= 1 /\ (used'[m] = 1 => m \notin live')) /\ (m > minted' => used'[m] = 0)
  BY <1>1 DEF SpentOnce, Codes
<1>. QED BY <1>5, <1>6, <1>7 DEF SpentOnce

LEMMA SetSpent ==
  ASSUME Types, SpentOnce, NEW c \in Clients, MintSet(c)
  PROVE  SpentOnce'
<1>1. /\ at[c] = "set" /\ at'[c] = "index" /\ code'[c] = code[c] /\ live' = live \cup {code[c]}
      /\ \A b \in Clients \ {c} : at'[b] = at[b] /\ code'[b] = code[b]
      /\ used' = used /\ minted' = minted
  BY DEF MintSet, Step, Goes, CodeAt, useVars, Types, ClientsOK
<1>2. \A b \in Clients \ {c} : at'[b] \in Spends => code'[b] # code[c]
  BY <1>1 DEF SpentOnce, Spends
<1>3. used[code[c]] = 0 /\ code[c] \in Codes
  BY <1>1 DEF SpentOnce, Spends
<1>4. \A b \in Clients : at'[b] \in Spends
        => code'[b] \in Codes /\ code'[b] \notin live' /\ used'[code'[b]] = 0
  BY <1>1, <1>2 DEF SpentOnce, Spends
<1>5. \A b, e \in Clients : at'[b] \in Spends /\ at'[e] \in Spends /\ code'[b] = code'[e] => b = e
  BY <1>1 DEF SpentOnce, Spends
<1>6. \A m \in Codes : (used'[m] <= 1 /\ (used'[m] = 1 => m \notin live')) /\ (m > minted' => used'[m] = 0)
  BY <1>1, <1>3 DEF SpentOnce
<1>. QED BY <1>4, <1>5, <1>6 DEF SpentOnce

LEMMA TakeSpent ==
  ASSUME Types, SpentOnce, NEW c \in Clients, Take(c)
  PROVE  SpentOnce'
<1>1. CASE code[c] \in live
  <2>1. /\ code'[c] = code[c] /\ live' = live \ {code[c]}
        /\ \A b \in Clients \ {c} : at'[b] = at[b] /\ code'[b] = code[b]
        /\ used' = used /\ minted' = minted
    BY <1>1 DEF Take, Taken, Goes, CodeAt, Types, ClientsOK
  <2>2. \A b \in Clients \ {c} : at'[b] \in Spends => code'[b] # code[c]
    BY <1>1, <2>1 DEF SpentOnce
  <2>3. code[c] \in Codes /\ used[code[c]] = 0
    <3>1. code[c] \in Codes
      BY <1>1, LiveCodes
    <3>2. used[code[c]] \in Nat
      BY <3>1 DEF Types, CodesOK
    <3>3. used[code[c]] <= 1 /\ used[code[c]] # 1
      BY <1>1, <3>1 DEF SpentOnce
    <3>. QED BY <3>1, <3>2, <3>3
  <2>4. \A b \in Clients : at'[b] \in Spends
          => code'[b] \in Codes /\ code'[b] \notin live' /\ used'[code'[b]] = 0
    BY <2>1, <2>3 DEF SpentOnce
  <2>5. \A b, e \in Clients : at'[b] \in Spends /\ at'[e] \in Spends /\ code'[b] = code'[e] => b = e
    BY <2>1, <2>2 DEF SpentOnce
  <2>6. \A m \in Codes : (used'[m] <= 1 /\ (used'[m] = 1 => m \notin live')) /\ (m > minted' => used'[m] = 0)
    BY <2>1 DEF SpentOnce
  <2>. QED BY <2>4, <2>5, <2>6 DEF SpentOnce
<1>2. CASE code[c] \notin live
  <2>1. minted' = minted /\ used' = used /\ live' \subseteq live /\ minted \in Nat
    BY DEF Take, Types, CodesOK
  <2>2. Moved(c, "idle", CodeAt(c, "idle"), doc[c])
    BY <1>2, <2>1, GoesMoves, PointNames DEF Take, Taken, Types
  <2>. QED BY <2>1, <2>2, PlainSpent DEF Spends
<1>. QED BY <1>1, <1>2

LEMMA UnindexSpent ==
  ASSUME Types, SpentOnce, NEW c \in Clients, Unindex(c)
  PROVE  SpentOnce'
<1>1. /\ at[c] \in {"unindex", "unlist"} /\ live' = live /\ used' = used
      /\ minted' = minted /\ minted \in Nat
  BY DEF Unindex, Step, useVars, Types, CodesOK
<1>2. CASE Step(c, "unlist", "sign")
  <2>1. /\ at'[c] = "sign" /\ code'[c] = code[c]
        /\ \A b \in Clients \ {c} : at'[b] = at[b] /\ code'[b] = code[b]
    BY <1>2 DEF Step, Goes, CodeAt, Types, ClientsOK
  <2>2. \A b \in Clients : code'[b] = code[b] /\ (at'[b] \in Spends <=> at[b] \in Spends)
    BY <1>1, <2>1 DEF Spends
  <2>. QED BY <1>1, <2>2 DEF SpentOnce
<1>3. CASE Step(c, "unindex", "idle")
  <2>1. Moved(c, "idle", CodeAt(c, "idle"), doc[c])
    BY <1>1, <1>3, GoesMoves, PointNames DEF Step, Types
  <2>. QED BY <1>1, <2>1, PlainSpent DEF Spends
<1>. QED BY <1>2, <1>3 DEF Unindex

LEMMA SignSpent ==
  ASSUME Types, SpentOnce, NEW c \in Clients, Sign(c)
  PROVE  SpentOnce'
<1>1. /\ at[c] = "sign" /\ live' = live /\ minted' = minted /\ minted \in Nat
      /\ Moved(c, "idle", CodeAt(c, "idle"), doc[c])
  BY GoesMoves, PointNames DEF Sign, Step, redisVars, Types, CodesOK
<1>2. CASE used' = [used EXCEPT ![code[c]] = @ + 1]
  <2>1. /\ at'[c] = "idle" /\ \A b \in Clients \ {c} : at'[b] = at[b] /\ code'[b] = code[b]
    BY <1>1, MovedAt DEF Types
  <2>2. code[c] \in Codes /\ code[c] \notin live /\ used[code[c]] = 0 /\ code[c] \in 0..minted
    BY <1>1 DEF SpentOnce, Spends, Types, ClientsOK
  <2>3. used'[code[c]] = 1 /\ \A m \in Codes \ {code[c]} : used'[m] = used[m]
    BY <1>2, <2>2 DEF Types, CodesOK
  <2>4. \A b \in Clients \ {c} : at'[b] \in Spends => code'[b] # code[c]
    BY <1>1, <2>1 DEF SpentOnce, Spends
  <2>5. \A b \in Clients : at'[b] \in Spends
          => code'[b] \in Codes /\ code'[b] \notin live' /\ used'[code'[b]] = 0
    BY <1>1, <2>1, <2>3, <2>4 DEF SpentOnce, Spends
  <2>6. \A b, e \in Clients : at'[b] \in Spends /\ at'[e] \in Spends /\ code'[b] = code'[e] => b = e
    BY <2>1 DEF SpentOnce, Spends
  <2>7. \A m \in Codes : (used'[m] <= 1 /\ (used'[m] = 1 => m \notin live')) /\ (m > minted' => used'[m] = 0)
    BY <1>1, <2>2, <2>3 DEF SpentOnce
  <2>. QED BY <2>5, <2>6, <2>7 DEF SpentOnce
<1>3. CASE used' = used
  BY <1>1, <1>3, PlainSpent DEF Spends
<1>. QED BY <1>2, <1>3 DEF Sign

-----------------------------------------------------------------------------
(* The steps of a client.                                                  *)

\* Steps after which c has no code to itself, and that use none.
Plain(c) ==
  \E p \in Points \ Spends, k \in 0..minted', d \in Docs :
    Moved(c, p, k, d) /\ UNCHANGED <<minted, used>> /\ live' \subseteq live

LEMMA PlainGoes ==
  ASSUME Types, NEW c \in Clients, NEW p \in Points \ Spends, Goes(c, p),
         UNCHANGED <<minted, used>>, live' \subseteq live
  PROVE  Plain(c)
<1>1. minted' = minted
  OBVIOUS
<1>2. Moved(c, p, CodeAt(c, p), doc[c])
  BY <1>1, GoesMoves DEF Types
<1>. QED BY <1>2 DEF Plain, Moved

LEMMA PlainNames ==
  {"idle", "tickets", "index", "count", "trim", "delete", "open", "cache", "lock", "reply", "take",
   "recheck", "school", "slot", "profile", "mkdir", "convert", "store"} \subseteq Points \ Spends
  BY PointNames DEF Spends

LEMMA CodeSteps ==
  ASSUME Types, NEW c \in Clients,
         StartJump(c) \/ MintIndex(c) \/ MintCount(c) \/ MintTrim(c) \/ MintDelete(c) \/ StartGo(c) \/ StartExport(c)
  PROVE  Plain(c)
<1>1. CASE StartJump(c) \/ MintIndex(c)
  <2>1. /\ \E p \in {"tickets", "count"} : Goes(c, p)
        /\ UNCHANGED <<minted, used>> /\ live' \subseteq live
    BY <1>1 DEF StartJump, MintIndex, Step, redisVars, useVars
  <2>. QED BY <2>1, PlainGoes, PlainNames
<1>2. CASE MintCount(c)
  <2>1. UNCHANGED <<minted, used>> /\ live' \subseteq live
    BY <1>2 DEF MintCount, redisVars, useVars
  <2>2. CASE Goes(c, "idle")
    BY <2>1, <2>2, PlainGoes, PlainNames
  <2>3. CASE /\ Cardinality(index) > MaxCodes
             /\ at' = [at EXCEPT ![c] = "trim"] /\ UNCHANGED <<code, doc, evicted>>
             /\ excess' = [excess EXCEPT ![c] = Cardinality(index) - MaxCodes]
    <3>1. IsFiniteSet(Codes) /\ index \subseteq Codes
      BY BoundsAssumption, FS_Interval DEF Codes, Types, RedisOK
    <3>2. Cardinality(index) \in Nat
      BY <3>1, FS_Subset, FS_CardinalityType
    <3>3. Cardinality(index) - MaxCodes \in Nat
      BY <2>3, <3>2, BoundsAssumption
    <3>4. code[c] \in 0..minted' /\ doc[c] \in Docs
      BY <2>1 DEF Types, ClientsOK
    <3>5. Moved(c, "trim", code[c], doc[c])
      BY <2>3, <3>3, <3>4, PlainNames DEF Moved, Types, ClientsOK
    <3>. QED BY <2>1, <3>4, <3>5, PlainNames DEF Plain
  <2>. QED BY <1>2, <2>2, <2>3 DEF MintCount
<1>3. CASE MintTrim(c) \/ MintDelete(c)
  <2>1. UNCHANGED <<minted, used>> /\ live' \subseteq live
    BY <1>3 DEF MintTrim, MintDelete, useVars
  <2>2. \A p : CodeAt(c, p) \in 0..minted' /\ doc[c] \in Docs
    BY <2>1 DEF CodeAt, Types, ClientsOK, CodesOK
  <2>3. PICK p \in {"idle", "delete"} :
             at' = [at EXCEPT ![c] = p] /\ code' = [code EXCEPT ![c] = CodeAt(c, p)] /\ doc' = doc
    BY <1>3 DEF MintTrim, MintDelete
  <2>4. excess' \in [Clients -> Nat]
    BY <1>3 DEF MintTrim, MintDelete, Types, ClientsOK
  <2>5. evicted' \in [Clients -> SUBSET Codes]
    <3>1. Oldest(index, excess[c]) \subseteq Codes
      BY DEF Oldest, Types, RedisOK
    <3>2. PICK S \in SUBSET Codes : evicted' = [evicted EXCEPT ![c] = S]
      <4>1. evicted[c] \subseteq Codes
        BY DEF Types, ClientsOK
      <4>. QED BY <1>3, <3>1, <4>1 DEF MintTrim, MintDelete
    <3>. QED BY <3>2 DEF Types, ClientsOK
  <2>6. Moved(c, p, CodeAt(c, p), doc[c])
    BY <2>2, <2>3, <2>4, <2>5, PlainNames DEF Moved, Types, ClientsOK
  <2>. QED BY <2>1, <2>2, <2>3, <2>6, PlainNames DEF Plain
<1>4. CASE StartGo(c) \/ StartExport(c)
  <2>1. UNCHANGED <<minted, used>> /\ live' \subseteq live
    BY <1>4 DEF StartGo, StartExport, LooksUp, redisVars, useVars
  <2>2. PICK p \in {"open", "cache"}, k \in live \cup {0}, d \in Docs : With(c, k, d, p)
    BY <1>4 DEF StartGo, StartExport, Redirects, Known, Types, ClientsOK
  <2>3. k \in 0..minted'
    BY <2>1, LiveCodes DEF Types, RedisOK, CodesOK
  <2>4. Moved(c, p, k, d)
    BY <2>2, <2>3, PlainNames DEF With, Moved, trimVars, Types, ClientsOK
  <2>. QED BY <2>1, <2>2, <2>3, <2>4, PlainNames DEF Plain
<1>. QED BY <1>1, <1>2, <1>3, <1>4

LEMMA ExportSteps ==
  ASSUME Types, NEW c \in Clients,
         \/ Cache(c) \/ Lock(c) \/ LockTimeout(c) \/ Recheck(c) \/ School(c) \/ Slot(c)
         \/ Profile(c) \/ MakeProfile(c) \/ ProfileFails(c) \/ Convert(c) \/ Store(c) \/ Reply(c)
  PROVE  Plain(c)
<1>1. UNCHANGED <<minted, used>> /\ live' \subseteq live
  BY DEF Cache, Lock, LockTimeout, Recheck, School, Slot, Profile, MakeProfile, ProfileFails, Convert, Store,
         Reply, redisVars, useVars
<1>2. \E p \in {"idle", "take", "lock", "recheck", "school", "slot", "profile", "mkdir", "convert",
                "store", "reply"} : Goes(c, p)
  BY DEF Cache, Lock, LockTimeout, Recheck, School, Slot, Profile, MakeProfile, ProfileFails, Convert, Store,
         Reply, Step, Releases
<1>. QED BY <1>1, <1>2, PlainGoes, PlainNames

\* A code is made by a jump or for an export.
LEMMA MintingMoves ==
  ASSUME Types, NEW c \in Clients, Minting(c)
  PROVE  Moved(c, "set", minted + 1, doc[c]) /\ minted' = minted + 1 /\ minted \in Nat
<1>1. minted \in Nat /\ minted' = minted + 1 /\ minted + 1 \in 0..minted'
  BY LiveCodes DEF Minting
<1>2. doc[c] \in Docs
  BY DEF Types, ClientsOK
<1>. QED BY <1>1, <1>2, PointNames DEF Minting, Moved, trimVars, Types, ClientsOK

LEMMA TicketSteps ==
  ASSUME Types, NEW c \in Clients, JumpTickets(c)
  PROVE  /\ at[c] = "tickets" /\ UNCHANGED <<redisVars, used>>
         /\ Plain(c) \/ Minting(c)
<1>1. at[c] = "tickets" /\ UNCHANGED <<redisVars, used>>
  BY DEF JumpTickets, useVars
<1>2. CASE Goes(c, "idle") /\ UNCHANGED minted
  BY <1>1, <1>2, PlainGoes, PlainNames DEF redisVars
<1>. QED BY <1>1, <1>2 DEF JumpTickets

\* What nobody does.
Silent == \/ \E c \in Clients : Bridge(c)
          \/ Passes
          \/ UNCHANGED vars

LEMMA SilentSteps ==
  ASSUME Silent
  PROVE  UNCHANGED <<clientVars, minted, poolVars, useVars>> /\ live' \subseteq live
  BY DEF Silent, Bridge, Passes, Lapse, Sweep, ExpirePdf, LeaseExpires, SessionLost, vars,
         redisVars

\* Every step is one of these.
LEMMA StepCases ==
  ASSUME [Next]_vars
  PROVE  \/ \E c \in Clients :
              \/ StartJump(c) \/ MintIndex(c) \/ MintCount(c) \/ MintTrim(c) \/ MintDelete(c) \/ StartGo(c) \/ StartExport(c)
              \/ Cache(c) \/ Lock(c) \/ LockTimeout(c) \/ Recheck(c) \/ School(c) \/ Slot(c)
              \/ Profile(c) \/ MakeProfile(c) \/ ProfileFails(c) \/ Convert(c) \/ Store(c) \/ Reply(c)
              \/ JumpTickets(c) \/ StartMint(c) \/ MintSet(c) \/ Take(c) \/ Unindex(c) \/ Sign(c)
         \/ Silent
<1>1. CASE Next
  BY <1>1 DEF Next, Start, Works, Mints, Silent
<1>. QED BY <1>1 DEF Silent

LEMMA SpentStep ==
  ASSUME Types, SpentOnce, [Next]_vars
  PROVE  SpentOnce'
<1>1. ASSUME NEW c \in Clients, Plain(c) PROVE SpentOnce'
  <2>1. PICK p \in Points \ Spends, k \in 0..minted', d \in Docs :
                Moved(c, p, k, d) /\ UNCHANGED <<minted, used>> /\ live' \subseteq live
    BY <1>1 DEF Plain
  <2>2. minted' \in Nat /\ minted <= minted'
    BY <2>1, LiveCodes
  <2>. QED BY <2>1, <2>2, PlainSpent
<1>2. ASSUME NEW c \in Clients, JumpTickets(c) PROVE SpentOnce'
  BY <1>1, <1>2, TicketSteps, MintingSpent DEF redisVars
<1>3. ASSUME NEW c \in Clients, StartMint(c) PROVE SpentOnce'
  BY <1>3, MintingSpent DEF StartMint, redisVars, useVars
<1>4. ASSUME Silent PROVE SpentOnce'
  BY <1>4, SilentSteps, StillSpent DEF clientVars, useVars
<1>. QED BY <1>1, <1>2, <1>3, <1>4, StepCases, CodeSteps, ExportSteps, SetSpent, TakeSpent,
            UnindexSpent, SignSpent

-----------------------------------------------------------------------------
(* Types of the clients, the codes and the documents.                      *)

LEMMA SpendSteps ==
  ASSUME Types, NEW c \in Clients, MintSet(c) \/ Take(c) \/ Unindex(c) \/ Sign(c)
  PROVE  /\ minted' = minted
         /\ \E p \in {"index", "unindex", "unlist", "idle", "sign"} : Moved(c, p, CodeAt(c, p), doc[c])
<1>1. minted' = minted
  BY DEF MintSet, Take, Unindex, Sign
<1>2. \E p \in {"index", "unindex", "unlist", "idle", "sign"} : Goes(c, p)
  BY DEF MintSet, Take, Taken, Unindex, Sign, Step
<1>. QED BY <1>1, <1>2, GoesMoves, PointNames DEF Types

LEMMA ClientsStep ==
  ASSUME Types, [Next]_vars
  PROVE  ClientsOK'
<1>. USE LiveCodes DEF Types
<1>1. ASSUME NEW c \in Clients, Plain(c) PROVE ClientsOK'
  BY <1>1, MovedOK DEF Plain
<1>2. ASSUME NEW c \in Clients, Minting(c) PROVE ClientsOK'
  BY <1>2, MintingMoves, MovedOK
<1>3. ASSUME NEW c \in Clients, MintSet(c) \/ Take(c) \/ Unindex(c) \/ Sign(c) PROVE ClientsOK'
  BY <1>3, SpendSteps, MovedOK
<1>4. ASSUME Silent PROVE ClientsOK'
  BY <1>4, SilentSteps DEF ClientsOK, clientVars, trimVars
<1>5. ASSUME NEW c \in Clients, JumpTickets(c) \/ StartMint(c) PROVE ClientsOK'
  BY <1>1, <1>2, <1>5, TicketSteps DEF StartMint
<1>. QED BY <1>1, <1>3, <1>4, <1>5, StepCases, CodeSteps, ExportSteps

LEMMA MintingCodes ==
  ASSUME Types, NEW c \in Clients, Minting(c), UNCHANGED <<used, sent>>
  PROVE  CodesOK'
<1>1. minted' \in 0..MaxMinted /\ \A k \in Codes : k > minted' => k > minted /\ k # minted + 1
  BY BoundsAssumption DEF Types, CodesOK, Minting, Codes
<1>. QED BY <1>1 DEF Types, CodesOK, Minting

LEMMA CodesStep ==
  ASSUME Types, SpentOnce, [Next]_vars
  PROVE  CodesOK'
<1>1. ASSUME UNCHANGED <<minted, used>>, sent' \subseteq Clients PROVE CodesOK'
  BY <1>1 DEF Types, CodesOK
<1>2. ASSUME NEW c \in Clients, Plain(c), sent' = sent PROVE CodesOK'
  BY <1>1, <1>2 DEF Plain, Types, CodesOK
<1>3. ASSUME NEW c \in Clients,
             \/ StartJump(c) \/ MintIndex(c) \/ MintCount(c) \/ MintTrim(c) \/ MintDelete(c) \/ StartGo(c) \/ StartExport(c)
             \/ Cache(c) \/ Lock(c) \/ LockTimeout(c) \/ Recheck(c) \/ School(c) \/ Slot(c)
             \/ Profile(c) \/ MakeProfile(c) \/ ProfileFails(c) \/ Convert(c) \/ Store(c)
      PROVE  CodesOK'
  <2>1. sent' = sent
    BY <1>3 DEF StartJump, MintIndex, MintCount, MintTrim, MintDelete, StartGo, StartExport, Cache, Lock, LockTimeout,
                Recheck, School, Slot, Profile, MakeProfile, ProfileFails, Convert, Store, useVars
  <2>. QED BY <1>2, <1>3, <2>1, CodeSteps, ExportSteps
<1>4. ASSUME NEW c \in Clients, Reply(c) PROVE CodesOK'
  <2>2. sent' \subseteq Clients /\ UNCHANGED <<minted, used>>
    BY <1>4 DEF Reply, Types, CodesOK
  <2>. QED BY <1>1, <2>2
<1>5. ASSUME NEW c \in Clients, JumpTickets(c) \/ StartMint(c) PROVE CodesOK'
  <2>1. UNCHANGED <<used, sent>>
    BY <1>5 DEF JumpTickets, StartMint, useVars
  <2>. QED BY <1>2, <1>5, <2>1, TicketSteps, MintingCodes DEF StartMint
<1>6. ASSUME NEW c \in Clients, MintSet(c) \/ Take(c) \/ Unindex(c) PROVE CodesOK'
  <2>1. UNCHANGED <<minted, used>> /\ sent' \subseteq sent
    BY <1>6 DEF MintSet, Take, Unindex, useVars
  <2>. QED BY <1>1, <2>1 DEF Types, CodesOK
<1>7. ASSUME NEW c \in Clients, Sign(c) PROVE CodesOK'
  <2>1. UNCHANGED <<minted, sent>> /\ (used' = used \/ used' = [used EXCEPT ![code[c]] = @ + 1])
    BY <1>7 DEF Sign
  <2>2. used' \in [Codes -> Nat]
    BY <2>1 DEF Types, CodesOK
  <2>. QED BY <2>1, <2>2 DEF Types, CodesOK
<1>8. ASSUME Silent PROVE CodesOK'
  BY <1>1, <1>8, SilentSteps DEF Types, CodesOK, useVars
<1>. QED BY <1>3, <1>4, <1>5, <1>6, <1>7, <1>8, StepCases

LEMMA DocsStep ==
  ASSUME Types, [Next]_vars
  PROVE  DocsOK'
<1>. SUFFICES ASSUME DocsOK PROVE DocsOK'
  BY DEF Types
<1>1. ASSUME NEW c \in Clients, NEW p, Releases(c, p), UNCHANGED <<cached, stored, overruns>>, alive' \in BOOLEAN
      PROVE  DocsOK'
  BY <1>1 DEF Releases, DocsOK
<1>2. ASSUME UNCHANGED pdfVars, alive' \in BOOLEAN PROVE DocsOK'
  BY <1>2 DEF DocsOK, pdfVars
<1>3. ASSUME NEW c \in Clients,
             \/ StartJump(c) \/ MintIndex(c) \/ MintCount(c) \/ MintTrim(c) \/ MintDelete(c) \/ StartGo(c) \/ StartExport(c)
             \/ Cache(c) \/ LockTimeout(c) \/ Slot(c) \/ Profile(c) \/ MakeProfile(c) \/ Reply(c)
             \/ JumpTickets(c) \/ StartMint(c) \/ MintSet(c) \/ Take(c) \/ Unindex(c) \/ Sign(c)
      PROVE  DocsOK'
  <2>1. UNCHANGED pdfVars /\ alive' \in {alive, FALSE}
    BY <1>3 DEF StartJump, MintIndex, MintCount, MintTrim, MintDelete, StartGo, StartExport, Cache, LockTimeout,
                Slot, Profile, MakeProfile, Reply, JumpTickets, StartMint, MintSet, Take, Unindex, Sign
  <2>. QED BY <1>2, <2>1 DEF DocsOK
<1>4. ASSUME NEW c \in Clients, Lock(c) PROVE DocsOK'
  BY <1>4 DEF Lock, DocsOK, Types, ClientsOK
<1>5. ASSUME NEW c \in Clients, Recheck(c) \/ School(c) \/ ProfileFails(c) \/ Convert(c) PROVE DocsOK'
  <2>1. UNCHANGED <<cached, stored, overruns>> /\ alive' \in {alive, FALSE}
    BY <1>5 DEF Recheck, School, ProfileFails, Convert
  <2>2. CASE UNCHANGED lock
    BY <2>1, <2>2 DEF DocsOK
  <2>. QED BY <1>1, <1>5, <2>1, <2>2 DEF Recheck, School, ProfileFails, Convert, DocsOK
<1>6. ASSUME NEW c \in Clients, Store(c) PROVE DocsOK'
  <2>1. lock' \in [Docs -> Clients \cup {Nobody}]
    BY <1>6 DEF Store, Releases, DocsOK
  <2>2. cached' \in [Docs -> BOOLEAN]
    BY <1>6 DEF Store, DocsOK
  <2>3. stored' \in [Docs -> Nat]
    <3>1. stored \in [Docs -> Nat] /\ stored' = [stored EXCEPT ![doc[c]] = @ + 1] /\ doc[c] \in Docs
      BY <1>6 DEF Store, DocsOK, Types, ClientsOK
    <3>2. stored[doc[c]] + 1 \in Nat
      BY <3>1
    <3>. QED BY <3>1, <3>2
  <2>4. overruns' \in 0..MaxOverruns /\ alive' \in BOOLEAN
    BY <1>6 DEF Store, DocsOK
  <2>. QED BY <2>1, <2>2, <2>3, <2>4 DEF DocsOK
<1>7. ASSUME Silent PROVE DocsOK'
  <2>1. CASE \E d \in Docs : ExpirePdf(d)
    <3>1. PICK d \in Docs : cached' = [cached EXCEPT ![d] = FALSE] /\ stored' = [stored EXCEPT ![d] = 0]
                              /\ UNCHANGED <<lock, overruns, alive>>
      BY <2>1 DEF ExpirePdf
    <3>2. cached' \in [Docs -> BOOLEAN]
      BY <3>1 DEF DocsOK
    <3>3. stored' \in [Docs -> Nat]
      BY <3>1 DEF DocsOK
    <3>. QED BY <3>1, <3>2, <3>3 DEF DocsOK
  <2>2. CASE \E d \in Docs : LeaseExpires(d)
    BY <2>2, BoundsAssumption DEF LeaseExpires, DocsOK
  <2>3. CASE UNCHANGED pdfVars /\ alive' \in {alive, FALSE}
    BY <1>2, <2>3 DEF DocsOK
  <2>. QED BY <1>7, <2>1, <2>2, <2>3 DEF Silent, Bridge, Passes, Lapse, Sweep, SessionLost, vars
<1>. QED BY <1>3, <1>4, <1>5, <1>6, <1>7, StepCases

-----------------------------------------------------------------------------
(* The codes in Redis.                                                     *)

\* A client that is not about to put its code into the index moves.
LEMMA RedisMove ==
  ASSUME Types, NEW c \in Clients, at[c] # "index", NEW p, NEW k, NEW d, Moved(c, p, k, d),
         p # "index", minted' \in Nat, minted <= minted',
         live' \subseteq live, index' \subseteq Codes,
         live' \cap (index \cup Popped) \subseteq index' \cup Popped'
  PROVE  RedisOK'
<1>1. 1..minted \subseteq 1..minted'
  BY LiveCodes DEF Types
<1>2. \A b \in Clients : /\ at[b] = "index" => at'[b] = "index" /\ code'[b] = code[b]
                         /\ at'[b] = "index" => at[b] = "index"
  BY MovedAt DEF Types
<1>. QED BY <1>1, <1>2 DEF Types, RedisOK

LEMMA RedisPlain ==
  ASSUME Types, NEW c \in Clients, at[c] # "index", at'[c] # "index", Plain(c),
         index' \subseteq Codes, live' \cap (index \cup Popped) \subseteq index' \cup Popped'
  PROVE  RedisOK'
  BY RedisMove, LiveCodes, MovedAt DEF Plain, Types

\* Nobody has popped a code, and none was popped away.
LEMMA SamePopped == UNCHANGED evicted => Popped' = Popped
  BY DEF Popped

LEMMA TrimPopped ==
  ASSUME Types, NEW c \in Clients, MintTrim(c) \/ MintDelete(c)
  PROVE  index' \subseteq index /\ live' \cap (index \cup Popped) \subseteq index' \cup Popped'
<1>1. CASE MintTrim(c)
  <2>. DEFINE old == Oldest(index, excess[c])
  <2>1. evicted'[c] = evicted[c] \cup old /\ \A b \in Clients \ {c} : evicted'[b] = evicted[b]
    BY <1>1 DEF MintTrim, Types, ClientsOK
  <2>2. Popped \cup old \subseteq Popped'
    BY <2>1 DEF Popped
  <2>3. index' = index \ old
    BY <1>1 DEF MintTrim
  <2>. QED BY <2>2, <2>3
<1>2. CASE MintDelete(c)
  <2>1. PICK k \in evicted[c] : live' = live \ {k} /\ evicted' = [evicted EXCEPT ![c] = @ \ {k}] /\ index' = index
    BY <1>2 DEF MintDelete
  <2>2. evicted'[c] = evicted[c] \ {k} /\ \A b \in Clients \ {c} : evicted'[b] = evicted[b]
    BY <2>1 DEF Types, ClientsOK
  <2>3. Popped \ {k} \subseteq Popped'
    BY <2>2 DEF Popped
  <2>. QED BY <2>1, <2>3
<1>. QED BY <1>1, <1>2

LEMMA RedisStep ==
  ASSUME Types, SpentOnce, [Next]_vars
  PROVE  RedisOK'
<1>1. index \subseteq Codes
  BY DEF Types, RedisOK
<1>2. ASSUME NEW c \in Clients,
             \/ StartJump(c) \/ MintCount(c) \/ MintTrim(c) \/ MintDelete(c) \/ StartGo(c) \/ StartExport(c)
      PROVE  RedisOK'
  <2>1. Plain(c)
    BY <1>2, CodeSteps
  <2>2. at[c] # "index" /\ at'[c] # "index"
    BY <1>2 DEF StartJump, MintCount, MintTrim, MintDelete, StartGo, StartExport, Step, Goes, Redirects, With,
                Types, ClientsOK
  <2>3. CASE UNCHANGED <<index, evicted>>
    BY <1>1, <2>1, <2>2, <2>3, SamePopped, RedisPlain
  <2>4. CASE MintTrim(c) \/ MintDelete(c)
    BY <1>1, <2>1, <2>2, <2>4, TrimPopped, RedisPlain
  <2>. QED BY <1>2, <2>3, <2>4 DEF StartJump, MintCount, StartGo, StartExport, Step, Goes, Redirects, With,
                                  trimVars, redisVars
<1>3. ASSUME NEW c \in Clients,
             \/ Cache(c) \/ Lock(c) \/ LockTimeout(c) \/ Recheck(c) \/ School(c) \/ Slot(c)
             \/ Profile(c) \/ MakeProfile(c) \/ ProfileFails(c) \/ Convert(c) \/ Store(c) \/ Reply(c)
      PROVE  RedisOK'
  <2>1. Plain(c)
    BY <1>3, ExportSteps
  <2>2. at[c] # "index" /\ at'[c] # "index"
    BY <1>3 DEF Cache, Lock, LockTimeout, Recheck, School, Slot, Profile, MakeProfile, ProfileFails, Convert, Store, Reply,
                Step, Goes, Releases, Types, ClientsOK
  <2>3. index' = index /\ evicted' = evicted
    BY <1>3 DEF Cache, Lock, LockTimeout, Recheck, School, Slot, Profile, MakeProfile, ProfileFails, Convert, Store, Reply,
                Step, Goes, Releases, trimVars, redisVars
  <2>. QED BY <1>1, <2>1, <2>2, <2>3, SamePopped, RedisPlain
<1>4. ASSUME NEW c \in Clients, Minting(c), at[c] # "index", UNCHANGED redisVars PROVE RedisOK'
  <2>1. evicted' = evicted /\ live' = live /\ index' = index
    BY <1>4 DEF redisVars, Minting, trimVars
  <2>2. Popped' = Popped
    BY <2>1, SamePopped
  <2>3. Moved(c, "set", minted + 1, doc[c]) /\ minted' = minted + 1 /\ minted \in Nat
    BY <1>4, MintingMoves
  <2>4. minted' \in Nat /\ minted <= minted'
    BY <2>3
  <2>. QED BY <1>1, <1>4, <2>1, <2>2, <2>3, <2>4, RedisMove
<1>5. ASSUME NEW c \in Clients, JumpTickets(c) \/ StartMint(c) PROVE RedisOK'
  <2>1. at[c] # "index" /\ at'[c] # "index" /\ UNCHANGED <<redisVars, evicted>>
    BY <1>5 DEF JumpTickets, StartMint, Minting, Goes, trimVars, Types, ClientsOK
  <2>. QED BY <1>1, <1>4, <1>5, <2>1, SamePopped, TicketSteps, RedisPlain DEF StartMint, redisVars
<1>6. ASSUME NEW c \in Clients, MintSet(c) PROVE RedisOK'
  <2>1. /\ at[c] = "set" /\ at'[c] = "index" /\ code'[c] = code[c]
        /\ live' = live \cup {code[c]} /\ index' = index /\ minted' = minted /\ Popped' = Popped
        /\ \A b \in Clients \ {c} : at'[b] = at[b] /\ code'[b] = code[b]
    <3>1. /\ at[c] = "set" /\ at' = [at EXCEPT ![c] = "index"] /\ code' = [code EXCEPT ![c] = code[c]]
          /\ live' = live \cup {code[c]} /\ index' = index /\ minted' = minted /\ evicted' = evicted
      BY <1>6 DEF MintSet, Step, Goes, CodeAt, trimVars
    <3>. QED BY <3>1, SamePopped DEF Types, ClientsOK
  <2>2. code[c] \in 1..minted /\ code[c] \in Codes
    <3>1. code[c] \in Codes /\ code[c] \in 0..minted
      BY <2>1 DEF SpentOnce, Spends, Types, ClientsOK
    <3>. QED BY <3>1 DEF Codes
  <2>3. live' \subseteq 1..minted' /\ index' \subseteq Codes
    BY <2>1, <2>2 DEF Types, RedisOK
  <2>4. \A b \in Clients : at[b] = "index" => at'[b] = "index" /\ code'[b] = code[b]
    BY <2>1
  <2>5. \A k \in live' : k \in index' \/ k \in Popped' \/ \E b \in Clients : at'[b] = "index" /\ code'[b] = k
    <3>. SUFFICES ASSUME NEW k \in live', k \notin index', k \notin Popped'
                  PROVE  \E b \in Clients : at'[b] = "index" /\ code'[b] = k
      OBVIOUS
    <3>1. CASE k = code[c]
      BY <2>1, <3>1
    <3>2. CASE k # code[c]
      <4>1. PICK b \in Clients : at[b] = "index" /\ code[b] = k
        BY <2>1, <3>2 DEF Types, RedisOK
      <4>. QED BY <2>4, <4>1
    <3>. QED BY <3>1, <3>2
  <2>6. ASSUME NEW b \in Clients, at'[b] = "index" PROVE code'[b] \in Codes
    BY <2>1, <2>2, <2>6 DEF Types, RedisOK
  <2>. QED BY <2>3, <2>5, <2>6 DEF RedisOK
<1>7. ASSUME NEW c \in Clients, MintIndex(c) PROVE RedisOK'
  <2>1. /\ at[c] = "index" /\ index' = index \cup {code[c]} /\ live' = live /\ minted' = minted
        /\ Popped' = Popped /\ \A b \in Clients \ {c} : at'[b] = at[b] /\ code'[b] = code[b]
    BY <1>7, SamePopped DEF MintIndex, Step, Goes, CodeAt, trimVars, Types, ClientsOK
  <2>2. at'[c] = "count" /\ index' \subseteq Codes
    BY <1>7, <2>1 DEF MintIndex, Step, Goes, Types, ClientsOK, RedisOK
  <2>. QED BY <2>1, <2>2 DEF Types, RedisOK
<1>8. ASSUME NEW c \in Clients, Take(c) \/ Unindex(c) \/ Sign(c) PROVE RedisOK'
  <2>1. at[c] # "index" /\ minted' = minted
    BY <1>8 DEF Take, Taken, Unindex, Sign, Step
  <2>2. live' \subseteq live /\ index' \subseteq index /\ live' \cap index \subseteq index'
    <3>1. CASE Unindex(c)
      <4>1. code[c] \notin live
        BY <3>1 DEF Unindex, Step, SpentOnce, Spends
      <4>. QED BY <3>1, <4>1 DEF Unindex
    <3>2. CASE Take(c) \/ Sign(c)
      BY <3>2 DEF Take, Sign, redisVars
    <3>. QED BY <1>8, <3>1, <3>2
  <2>3. PICK p \in {"index", "unindex", "unlist", "idle", "sign"} : Moved(c, p, CodeAt(c, p), doc[c])
    BY <1>8, SpendSteps
  <2>4. p # "index"
    <3>1. at'[c] # "index"
      BY <1>8 DEF Take, Taken, Unindex, Sign, Step, Goes, Types, ClientsOK
    <3>. QED BY <2>3, <3>1, MovedAt DEF Types
  <2>5. Popped' = Popped
    BY <1>8, SamePopped DEF Take, Taken, Unindex, Sign, Step, Goes, trimVars
  <2>. QED BY <1>1, <2>1, <2>2, <2>3, <2>4, <2>5, RedisMove, LiveCodes DEF Types
<1>9. ASSUME Silent PROVE RedisOK'
  <2>1. index' \subseteq index /\ live' \cap index \subseteq index'
    BY <1>9 DEF Silent, Bridge, Passes, Lapse, Sweep, ExpirePdf, LeaseExpires, SessionLost, vars, redisVars
  <2>2. live' \subseteq live /\ UNCHANGED <<at, code, minted>> /\ Popped' = Popped
    BY <1>9, SilentSteps, SamePopped DEF clientVars, trimVars
  <2>. QED BY <2>1, <2>2 DEF Types, RedisOK
<1>. QED BY <1>2, <1>3, <1>5, <1>6, <1>7, <1>8, <1>9, StepCases

-----------------------------------------------------------------------------
(* The conversion slots and the profiles.                                  *)

Leasers  == {c \in Clients : at[c] \in {"mkdir", "convert"}}
Slotters == {c \in Clients : at[c] \in SlotPoints}

LEMMA Counts ==
  /\ IsFiniteSet(Leasers) /\ IsFiniteSet(Slotters) /\ IsFiniteSet(Makers)
  /\ Leased = Cardinality(Leasers) /\ InSlot = Cardinality(Slotters)
  /\ Leased \in Nat /\ InSlot \in Nat /\ Cardinality(Makers) \in Nat
  /\ \A c \in Slotters \ Leasers : Leased + 1 <= InSlot
  /\ \A c \in Slotters \ Makers : Cardinality(Makers) + 1 <= InSlot
<1>1. Leasers \subseteq Slotters /\ Makers \subseteq Slotters /\ Slotters \subseteq Clients
  BY DEF Leasers, Slotters, Makers, SlotPoints
<1>2. IsFiniteSet(Leasers) /\ IsFiniteSet(Slotters) /\ IsFiniteSet(Makers)
  BY <1>1, BoundsAssumption, FS_Subset
<1>3. Leased = Cardinality(Leasers) /\ InSlot = Cardinality(Slotters)
  BY DEF Leased, InSlot, Leasers, Slotters
<1>4. ASSUME NEW S \in SUBSET Slotters, IsFiniteSet(S), NEW c \in Slotters \ S
      PROVE  Cardinality(S) + 1 <= InSlot
  <2>1. IsFiniteSet(S \cup {c}) /\ Cardinality(S \cup {c}) = Cardinality(S) + 1
    BY <1>4, FS_AddElement
  <2>2. S \cup {c} \subseteq Slotters
    OBVIOUS
  <2>. QED BY <1>2, <1>3, <2>1, <2>2, FS_Subset
<1>. QED BY <1>1, <1>2, <1>3, <1>4, FS_CardinalityType

LEMMA CountsNext ==
  /\ Leased' = Cardinality(Leasers') /\ InSlot' = Cardinality(Slotters')
  /\ IsFiniteSet(Leasers') /\ IsFiniteSet(Slotters') /\ IsFiniteSet(Makers')
<1>1. Leasers' \subseteq Clients /\ Slotters' \subseteq Clients /\ Makers' \subseteq Clients
  BY DEF Leasers, Slotters, Makers
<1>. QED BY <1>1, BoundsAssumption, FS_Subset DEF Leased, InSlot, Leasers, Slotters

\* One client leaves a finite set.
LEMMA OneLess ==
  ASSUME NEW S, IsFiniteSet(S), NEW c, c \notin S
  PROVE  Cardinality(S) = Cardinality(S \cup {c}) - 1
<1>1. Cardinality(S \cup {c}) = Cardinality(S) + 1
  BY FS_AddElement
<1>2. Cardinality(S) \in Nat
  BY FS_CardinalityType
<1>. QED BY <1>1, <1>2

\* A client moves that neither has a slot nor gets one.
LEMMA OutOfSlot ==
  ASSUME Types, NEW c \in Clients, NEW p, NEW k, NEW d, Moved(c, p, k, d),
         at[c] \notin SlotPoints, p \notin SlotPoints, UNCHANGED poolVars
  PROVE  PoolOK'
<1>1. Leasers' = Leasers /\ Slotters' = Slotters /\ Makers' = Makers
  BY MovedAt DEF Types, Leasers, Slotters, Makers, SlotPoints
<1>. QED BY <1>1, Counts, CountsNext DEF Types, PoolOK, poolVars

LEMMA SlotSteps ==
  ASSUME Types, NEW c \in Clients,
         Slot(c) \/ Profile(c) \/ MakeProfile(c) \/ ProfileFails(c) \/ Convert(c)
  PROVE  PoolOK'
<1>. USE DEF SlotPoints
<1>0. /\ \A b \in Clients \ {c} : at'[b] = at[b]
      /\ at[c] \in {"slot", "profile", "mkdir", "convert"} /\ at' \in [Clients -> Points]
  <2>1. \E p \in Points, k \in 0..minted', d \in Docs : Moved(c, p, k, d)
    BY ExportSteps DEF Plain
  <2>2. at[c] \in {"slot", "profile", "mkdir", "convert"}
    BY DEF Slot, Profile, MakeProfile, ProfileFails, Convert, Step
  <2>. QED BY <2>1, <2>2, MovedAt DEF Types, Moved, ClientsOK
<1>01. /\ free \in Nat /\ active \in Int /\ active <= Capacity /\ free + Leased <= Capacity
       /\ InSlot <= Capacity /\ 1 - Capacity <= active - Cardinality(Makers)
       /\ Capacity \in Nat \ {0} /\ Leased \in Nat /\ InSlot \in Nat /\ Cardinality(Makers) \in Nat
  BY BoundsAssumption, Counts DEF Types, PoolOK
<1>1. CASE Slot(c)
  <2>1. at[c] = "slot" /\ at'[c] = "profile" /\ InSlot < Capacity /\ UNCHANGED poolVars
    BY <1>1 DEF Slot, Step, Goes, Types, ClientsOK
  <2>2. Leasers' = Leasers /\ Makers' = Makers /\ Slotters' = Slotters \cup {c} /\ c \notin Slotters
    BY <1>0, <2>1 DEF Leasers, Slotters, Makers
  <2>3. InSlot' = InSlot + 1 /\ Leased' = Leased /\ Cardinality(Makers') = Cardinality(Makers)
    BY <2>2, Counts, CountsNext, FS_AddElement
  <2>. QED BY <1>01, <2>1, <2>3 DEF PoolOK, poolVars
<1>2. CASE Profile(c)
  <2>1. at[c] = "profile" /\ at'[c] \in {"mkdir", "convert"}
    BY <1>2 DEF Profile, Step, Goes, Types, ClientsOK
  <2>2. Leasers' = Leasers \cup {c} /\ Slotters' = Slotters /\ c \in Slotters \ Leasers
    BY <1>0, <2>1 DEF Leasers, Slotters
  <2>3. InSlot' = InSlot /\ Leased' = Leased + 1 /\ Leased + 1 <= InSlot
    BY <2>2, Counts, CountsNext, FS_AddElement
  <2>4. CASE Reuses /\ at'[c] = "convert" /\ free' = free - 1 /\ UNCHANGED active
    <3>1. Makers' = Makers
      BY <1>0, <2>1, <2>4 DEF Makers
    <3>2. free > 0
      BY <2>4 DEF Reuses
    <3>. QED BY <1>01, <2>3, <2>4, <3>1, <3>2 DEF PoolOK
  <2>5. CASE ~Reuses /\ active < Capacity /\ at'[c] = "mkdir" /\ active' = active + 1 /\ UNCHANGED free
    <3>1. Makers' = Makers \cup {c} /\ c \notin Makers
      BY <1>0, <2>1, <2>5 DEF Makers
    <3>2. Cardinality(Makers') = Cardinality(Makers) + 1
      BY <3>1, Counts, FS_AddElement
    <3>3. free = 0
      BY <1>01, <2>5 DEF Reuses
    <3>. QED BY <1>01, <2>3, <2>5, <3>2, <3>3 DEF PoolOK
  <2>. QED BY <1>2, <2>4, <2>5 DEF Profile, Step, Goes, Types, ClientsOK
<1>3. CASE MakeProfile(c)
  <2>1. at[c] = "mkdir" /\ at'[c] = "convert" /\ UNCHANGED poolVars
    BY <1>3 DEF MakeProfile, Step, Goes, Types, ClientsOK
  <2>2. Leasers' = Leasers /\ Slotters' = Slotters /\ Makers = Makers' \cup {c} /\ c \notin Makers'
    BY <1>0, <2>1 DEF Leasers, Slotters, Makers
  <2>3. Leased' = Leased /\ InSlot' = InSlot /\ Cardinality(Makers') = Cardinality(Makers) - 1
    BY <2>2, Counts, CountsNext, OneLess
  <2>. QED BY <1>01, <2>1, <2>3 DEF PoolOK, poolVars
<1>4. CASE ProfileFails(c) \/ Convert(c)
  <2>1. at'[c] \notin SlotPoints /\ at[c] \in {"mkdir", "convert"}
    BY <1>4 DEF ProfileFails, Convert, Releases, Goes, Types, ClientsOK
  <2>2. /\ Slotters = Slotters' \cup {c} /\ c \notin Slotters'
        /\ Leasers = Leasers' \cup {c} /\ c \notin Leasers'
    BY <1>0, <2>1 DEF Slotters, Leasers
  <2>3. InSlot' = InSlot - 1 /\ Leased' = Leased - 1 /\ Leased' \in Nat
    BY <2>2, Counts, CountsNext, OneLess, FS_CardinalityType
  <2>4. CASE ProfileFails(c)
    <3>1. at[c] = "mkdir" /\ active' = active - 1 /\ free' = free
      BY <2>4 DEF ProfileFails
    <3>2. Makers = Makers' \cup {c} /\ c \notin Makers'
      BY <1>0, <2>1, <3>1 DEF Makers
    <3>3. Cardinality(Makers') = Cardinality(Makers) - 1
      BY <3>2, CountsNext, OneLess
    <3>. QED BY <1>01, <2>3, <3>1, <3>3 DEF PoolOK
  <2>5. CASE Convert(c)
    <3>1. at[c] = "convert" /\ active' = Less(active) /\ (free' = free \/ free' = free + 1)
      BY <2>5 DEF Convert, ActiveAfter, FreeAfter
    <3>2. Makers' = Makers /\ c \in Slotters \ Makers
      BY <1>0, <2>1, <3>1 DEF Makers, Slotters
    <3>3. Cardinality(Makers') + 1 <= InSlot
      BY <3>2, Counts
    <3>4. active' \in Nat /\ active' <= Capacity
      BY <1>01, <3>1 DEF Less
    <3>5. 1 - Capacity <= active' - Cardinality(Makers')
      BY <1>01, <3>2, <3>3, <3>4
    <3>6. free' \in Nat /\ free' + Leased' <= Capacity /\ InSlot' <= Capacity
      BY <1>01, <2>3, <3>1
    <3>. QED BY <3>4, <3>5, <3>6 DEF PoolOK
  <2>. QED BY <1>4, <2>4, <2>5
<1>. QED BY <1>1, <1>2, <1>3, <1>4

LEMMA PoolStep ==
  ASSUME Types, [Next]_vars
  PROVE  PoolOK'
<1>1. ASSUME NEW c \in Clients, NEW p, NEW k, NEW d, Moved(c, p, k, d),
             at[c] \notin SlotPoints, at'[c] \notin SlotPoints, UNCHANGED poolVars
      PROVE  PoolOK'
  BY <1>1, OutOfSlot, MovedAt DEF Types
<1>2. ASSUME NEW c \in Clients,
             \/ StartJump(c) \/ MintIndex(c) \/ MintCount(c) \/ MintTrim(c) \/ MintDelete(c) \/ StartGo(c) \/ StartExport(c)
             \/ Cache(c) \/ Lock(c) \/ LockTimeout(c) \/ Recheck(c) \/ School(c) \/ Store(c) \/ Reply(c)
      PROVE  PoolOK'
  <2>1. UNCHANGED poolVars
    BY <1>2 DEF StartJump, MintIndex, MintCount, MintTrim, MintDelete, StartGo, StartExport, Cache, Lock, LockTimeout,
                Recheck, School, Store, Reply
  <2>2. at[c] \notin SlotPoints
    BY <1>2 DEF StartJump, MintIndex, MintCount, MintTrim, MintDelete, StartGo, StartExport, Cache, Lock, LockTimeout,
                Recheck, School, Store, Reply, Step, SlotPoints
  <2>3. at'[c] \notin SlotPoints
    <3>1. \E p \in Points \ SlotPoints : at' = [at EXCEPT ![c] = p]
      BY <1>2, PointNames DEF StartJump, MintIndex, MintCount, MintTrim, MintDelete, StartGo, StartExport, Cache, Lock,
              LockTimeout, Recheck, School, Store, Reply, Step, Goes, Releases, Redirects, With, SlotPoints
    <3>. QED BY <3>1 DEF Types, ClientsOK
  <2>. QED BY <1>1, <1>2, <2>1, <2>2, <2>3, CodeSteps, ExportSteps DEF Plain
<1>3. ASSUME NEW c \in Clients, JumpTickets(c) \/ StartMint(c) PROVE PoolOK'
  <2>1. UNCHANGED poolVars /\ at[c] \notin SlotPoints /\ at'[c] \notin SlotPoints
    BY <1>3 DEF JumpTickets, StartMint, Minting, Goes, SlotPoints, Types, ClientsOK
  <2>. QED BY <1>1, <1>3, <2>1, TicketSteps, MintingMoves DEF Plain, StartMint
<1>4. ASSUME NEW c \in Clients, MintSet(c) \/ Take(c) \/ Unindex(c) \/ Sign(c) PROVE PoolOK'
  <2>1. UNCHANGED poolVars /\ at[c] \notin SlotPoints
    BY <1>4 DEF MintSet, Take, Taken, Unindex, Sign, Step, SlotPoints
  <2>. QED BY <1>4, <2>1, SpendSteps, OutOfSlot DEF SlotPoints
<1>5. ASSUME Silent PROVE PoolOK'
  BY <1>5, SilentSteps DEF Types, PoolOK, poolVars, clientVars, Leased, InSlot, Makers
<1>. QED BY <1>2, <1>3, <1>4, <1>5, StepCases, SlotSteps

LEMMA TypesStep == Types /\ SpentOnce /\ [Next]_vars => Types'
  BY ClientsStep, CodesStep, DocsStep, RedisStep, PoolStep DEF Types

LEMMA TypesGiveTypeOK == Types => TypeOK
<1>. SUFFICES ASSUME Types PROVE TypeOK
  OBVIOUS
<1>1. live \subseteq Codes /\ 0..minted \subseteq 0..MaxMinted
  <2>1. minted \in 0..MaxMinted /\ MaxMinted \in Nat
    BY BoundsAssumption DEF Types, CodesOK
  <2>. QED BY <2>1, LiveCodes
<1>2. live \subseteq index \cup {code[c] : c \in {d \in Clients : at[d] = "index"}}
                       \cup UNION {evicted[c] : c \in Clients}
  BY DEF Types, RedisOK, Popped
<1>3. code \in [Clients -> 0..MaxMinted]
  BY <1>1 DEF Types, ClientsOK
<1>4. free \in 0..Capacity /\ active \in (1 - Capacity)..Capacity
  <2>1. /\ free \in Nat /\ free + Leased <= Capacity /\ Leased \in Nat /\ Capacity \in Nat
        /\ active \in Int /\ active <= Capacity
        /\ 1 - Capacity <= active - Cardinality(Makers) /\ Cardinality(Makers) \in Nat
    BY Counts, BoundsAssumption DEF Types, PoolOK
  <2>. QED BY <2>1
<1>. QED BY <1>1, <1>2, <1>3, <1>4 DEF TypeOK, Types, ClientsOK, CodesOK, RedisOK, DocsOK, PoolOK

-----------------------------------------------------------------------------
(* Codes of exports.                                                       *)

\* A client moves; it goes to take a code only after the file or without a session.
LEMMA RedeemMove ==
  ASSUME Types, Redeems, NEW c \in Clients, NEW p, NEW k, NEW d, Moved(c, p, k, d),
         p = "take" => c \in sent' \/ ~alive', sent \ {c} \subseteq sent', alive' => alive
  PROVE  Redeems'
<1>. SUFFICES ASSUME NEW b \in Clients, at'[b] = "take" PROVE b \in sent' \/ ~alive'
  BY DEF Redeems
<1>1. CASE b = c
  BY <1>1, MovedAt DEF Types
<1>2. CASE b # c
  BY <1>2, MovedAt DEF Types, Redeems
<1>. QED BY <1>1, <1>2

LEMMA RedeemStep ==
  ASSUME Types, Redeems, [Next]_vars
  PROVE  Redeems'
<1>1. ASSUME NEW c \in Clients, NEW p, NEW k, NEW d, Moved(c, p, k, d), at'[c] # "take",
             sent \ {c} \subseteq sent', alive' => alive
      PROVE  Redeems'
  BY <1>1, RedeemMove, MovedAt DEF Types
<1>2. ASSUME NEW c \in Clients, Plain(c), sent' = sent, alive' => alive, at'[c] # "take" PROVE Redeems'
  BY <1>1, <1>2 DEF Plain
<1>3. ASSUME NEW c \in Clients,
             \/ StartJump(c) \/ MintIndex(c) \/ MintCount(c) \/ MintTrim(c) \/ MintDelete(c)
             \/ StartGo(c) \/ StartExport(c)
             \/ Cache(c) \/ Lock(c) \/ LockTimeout(c) \/ Recheck(c) \/ Slot(c)
             \/ Profile(c) \/ MakeProfile(c) \/ ProfileFails(c) \/ Convert(c) \/ Store(c)
      PROVE  Redeems'
  <2>1. UNCHANGED <<sent, alive>>
    BY <1>3 DEF StartJump, MintIndex, MintCount, MintTrim, MintDelete, StartGo, StartExport, Cache, Lock,
                LockTimeout, Recheck, Slot, Profile, MakeProfile, ProfileFails, Convert, Store, useVars
  <2>2. at'[c] # "take"
    <3>1. \E p \in Points \ {"take"} : at' = [at EXCEPT ![c] = p]
      BY <1>3, PointNames DEF StartJump, MintIndex, MintCount, MintTrim, MintDelete, StartGo, StartExport, Cache,
                Lock, LockTimeout, Recheck, Slot, Profile, MakeProfile, ProfileFails, Convert, Store,
                Step, Goes, Releases, Redirects, With
    <3>. QED BY <3>1 DEF Types, ClientsOK
  <2>. QED BY <1>2, <1>3, <2>1, <2>2, CodeSteps, ExportSteps
<1>4. ASSUME NEW c \in Clients, Reply(c) \/ School(c) PROVE Redeems'
  <2>1. sent \subseteq sent' /\ (alive' => alive)
    BY <1>4 DEF Reply, School, useVars
  <2>2. PICK p \in Points, k \in 0..minted', d \in Docs : Moved(c, p, k, d)
    BY <1>4, ExportSteps DEF Plain
  <2>3. ASSUME p = "take" PROVE c \in sent' \/ ~alive'
    <3>1. at'[c] = "take"
      BY <2>2, <2>3, MovedAt DEF Types
    <3>. QED BY <1>4, <3>1 DEF Reply, School, Step, Releases, Goes, Types, ClientsOK
  <2>. QED BY <2>1, <2>2, <2>3, RedeemMove
<1>5. ASSUME NEW c \in Clients, JumpTickets(c) \/ StartMint(c) PROVE Redeems'
  <2>1. sent' = sent /\ (alive' => alive) /\ at'[c] # "take"
    BY <1>5 DEF JumpTickets, StartMint, Minting, Goes, useVars, Types, ClientsOK
  <2>. QED BY <1>1, <1>2, <1>5, <2>1, TicketSteps, MintingMoves DEF StartMint
<1>6. ASSUME NEW c \in Clients, MintSet(c) \/ Take(c) \/ Unindex(c) \/ Sign(c) PROVE Redeems'
  <2>1. sent \ {c} \subseteq sent' /\ (alive' => alive) /\ at'[c] # "take"
    BY <1>6 DEF MintSet, Take, Taken, Unindex, Sign, Step, Goes, useVars, Types, ClientsOK
  <2>. QED BY <1>1, <1>6, <2>1, SpendSteps
<1>7. ASSUME Silent PROVE Redeems'
  <2>1. UNCHANGED <<at, sent>>
    BY <1>7, SilentSteps DEF clientVars, useVars
  <2>2. alive' => alive
    BY <1>7 DEF Silent, Bridge, Passes, Lapse, Sweep, ExpirePdf, LeaseExpires, SessionLost, vars
  <2>. QED BY <2>1, <2>2 DEF Redeems
<1>. QED BY <1>3, <1>4, <1>5, <1>6, <1>7, StepCases

\* The steps by which codes leave Redis.
LEMMA WhoDeletes ==
  ASSUME [Next]_vars, NEW k \in live, k \notin live'
  PROVE  \/ \E c \in Clients : Take(c) \/ MintTrim(c) \/ MintDelete(c)
         \/ Lapse(k)
<1>1. ASSUME NEW c \in Clients,
             \/ StartJump(c) \/ MintIndex(c) \/ MintCount(c) \/ StartGo(c) \/ StartExport(c)
             \/ Cache(c) \/ Lock(c) \/ LockTimeout(c) \/ Recheck(c) \/ School(c) \/ Slot(c)
             \/ Profile(c) \/ MakeProfile(c) \/ ProfileFails(c) \/ Convert(c) \/ Store(c) \/ Reply(c)
             \/ JumpTickets(c) \/ StartMint(c) \/ MintSet(c) \/ Unindex(c) \/ Sign(c)
      PROVE  k \in live'
  BY <1>1 DEF StartJump, MintIndex, MintCount, StartGo, StartExport, Cache, Lock, LockTimeout, Recheck, School,
     Slot, Profile, MakeProfile, ProfileFails, Convert, Store, Reply, JumpTickets, StartMint, MintSet, Unindex, Sign,
     LooksUp, redisVars
<1>2. CASE Silent
  <2>1. CASE \E m \in Codes : Lapse(m)
    BY <2>1 DEF Lapse
  <2>2. CASE live' = live
    BY <2>2
  <2>. QED BY <1>2, <2>1, <2>2
       DEF Silent, Bridge, Passes, Sweep, ExpirePdf, LeaseExpires, SessionLost, vars, redisVars
<1>. QED BY <1>1, <1>2, StepCases

-----------------------------------------------------------------------------
(* Documents.                                                              *)

\* A client moves and leaves the locks and the cache as they are: it does not get under a lock,
\* and it does not pass the second look into the cache.
LEMMA LockMove ==
  ASSUME Types, LockedOnce, NEW c \in Clients, NEW p, NEW k, Moved(c, p, k, doc[c]), UNCHANGED pdfVars,
         p \in LockPoints => at[c] \in LockPoints /\ p # "recheck" /\ (at[c] = "recheck" => ~cached[doc[c]])
  PROVE  LockedOnce'
<1>. SUFFICES ASSUME overruns = 0 PROVE LockedOnce'
  BY DEF LockedOnce, pdfVars
<1>1. /\ at'[c] = p /\ doc'[c] = doc[c]
      /\ \A b \in Clients : doc'[b] = doc[b]
      /\ \A b \in Clients \ {c} : at'[b] = at[b]
  BY MovedAt DEF Types
<1>2. /\ \A b \in Clients : at[b] \in LockPoints => lock[doc[b]] = b
      /\ \A b \in Clients : at[b] \in LockPoints \ {"recheck"} => ~cached[doc[b]]
      /\ \A d \in Docs : stored[d] <= 1 /\ (~cached[d] => stored[d] = 0)
  BY DEF LockedOnce
<1>3. \A b \in Clients : at'[b] \in LockPoints => at[b] \in LockPoints
  BY <1>1
<1>4. \A b \in Clients : at'[b] \in LockPoints \ {"recheck"} => ~cached[doc[b]]
  BY <1>1, <1>2
<1>. QED BY <1>1, <1>2, <1>3, <1>4 DEF LockedOnce, pdfVars

\* A client that has no lock moves to where it has none.
LEMMA LooseMove ==
  ASSUME Types, LockedOnce, NEW c \in Clients, NEW p, NEW k, NEW d, Moved(c, p, k, d), UNCHANGED pdfVars,
         p \notin LockPoints
  PROVE  LockedOnce'
<1>1. \A b \in Clients : at'[b] \in LockPoints => at[b] = at'[b] /\ doc'[b] = doc[b]
  BY MovedAt DEF Types
<1>. QED BY <1>1 DEF LockedOnce, pdfVars

\* The holder of a lock leaves it.
LEMMA ReleaseMove ==
  ASSUME Types, LockedOnce, NEW c \in Clients, at[c] \in LockPoints, NEW p, NEW q, p \notin LockPoints,
         q \notin LockPoints, Releases(c, p), NEW k, Moved(c, q, k, doc[c]), UNCHANGED overruns,
         \A d \in Docs \ {doc[c]} : cached'[d] = cached[d] /\ stored'[d] = stored[d],
         overruns = 0 => stored'[doc[c]] <= 1 /\ (~cached'[doc[c]] => stored'[doc[c]] = 0)
  PROVE  LockedOnce'
<1>. SUFFICES ASSUME overruns = 0 PROVE LockedOnce'
  BY DEF LockedOnce
<1>1. /\ \A b \in Clients : at[b] \in LockPoints => lock[doc[b]] = b
      /\ \A b \in Clients : at[b] \in LockPoints \ {"recheck"} => ~cached[doc[b]]
      /\ \A d \in Docs : stored[d] <= 1 /\ (~cached[d] => stored[d] = 0)
  BY DEF LockedOnce
<1>2. doc[c] \in Docs /\ lock[doc[c]] = c /\ lock' = [lock EXCEPT ![doc[c]] = Nobody]
  BY <1>1 DEF Releases, Types, ClientsOK
<1>3. ASSUME NEW b \in Clients, at'[b] \in LockPoints
      PROVE  b # c /\ at'[b] = at[b] /\ doc'[b] = doc[b] /\ doc[b] # doc[c] /\ doc[b] \in Docs
  <2>1. b # c /\ at'[b] = at[b] /\ doc'[b] = doc[b]
    BY <1>3, MovedAt DEF Types
  <2>2. lock[doc[b]] = b
    BY <1>1, <1>3, <2>1
  <2>. QED BY <1>2, <2>1, <2>2 DEF Types, ClientsOK
<1>4. \A d \in Docs \ {doc[c]} : lock'[d] = lock[d]
  BY <1>2 DEF Types, DocsOK
<1>5. \A d \in Docs : stored'[d] <= 1 /\ (~cached'[d] => stored'[d] = 0)
  BY <1>1
<1>6. \A b \in Clients : at'[b] \in LockPoints => lock'[doc'[b]] = b
  BY <1>1, <1>3, <1>4
<1>7. \A b \in Clients : at'[b] \in LockPoints \ {"recheck"} => ~cached'[doc'[b]]
  BY <1>1, <1>3
<1>. QED BY <1>5, <1>6, <1>7 DEF LockedOnce

LEMMA LockKeeps ==
  ASSUME Types, LockedOnce, NEW c \in Clients, Lock(c)
  PROVE  LockedOnce'
<1>. SUFFICES ASSUME overruns = 0 PROVE LockedOnce'
  BY DEF LockedOnce, Lock
<1>1. /\ at[c] = "lock" /\ at'[c] = "recheck" /\ lock[doc[c]] = Nobody
      /\ lock' = [lock EXCEPT ![doc[c]] = c] /\ UNCHANGED <<cached, stored, doc>> /\ doc[c] \in Docs
      /\ \A b \in Clients \ {c} : at'[b] = at[b]
  BY DEF Lock, Step, Goes, Types, ClientsOK
<1>2. /\ \A b \in Clients : at[b] \in LockPoints => lock[doc[b]] = b
      /\ \A b \in Clients : at[b] \in LockPoints \ {"recheck"} => ~cached[doc[b]]
      /\ \A d \in Docs : stored[d] <= 1 /\ (~cached[d] => stored[d] = 0)
  BY DEF LockedOnce
<1>3. lock'[doc[c]] = c /\ \A d \in Docs \ {doc[c]} : lock'[d] = lock[d]
  BY <1>1 DEF Types, DocsOK
<1>4. ASSUME NEW b \in Clients, at'[b] \in LockPoints PROVE lock'[doc'[b]] = b
  <2>1. CASE b = c
    BY <1>1, <1>3, <2>1
  <2>2. CASE b # c
    <3>1. lock[doc[b]] = b /\ b # Nobody
      BY <1>1, <1>2, <1>4, <2>2, BoundsAssumption
    <3>2. doc[b] # doc[c] /\ doc[b] \in Docs
      BY <1>1, <3>1 DEF Types, ClientsOK
    <3>. QED BY <1>1, <1>3, <3>1, <3>2
  <2>. QED BY <2>1, <2>2
<1>5. \A b \in Clients : at'[b] \in LockPoints \ {"recheck"} => ~cached'[doc'[b]]
  BY <1>1, <1>2
<1>. QED BY <1>1, <1>2, <1>4, <1>5 DEF LockedOnce

LEMMA ReleasesMove ==
  ASSUME Types, NEW c \in Clients, NEW p \in Points \ LockPoints, Releases(c, p), minted' = minted
  PROVE  \E q \in Points \ LockPoints, k \in 0..minted' : Moved(c, q, k, doc[c])
<1>1. PICK q \in Points \ LockPoints : Goes(c, q)
  BY PointNames DEF Releases, LockPoints, SlotPoints
<1>. QED BY <1>1, GoesMoves DEF Types, Moved

LEMMA ReleaseKeeps ==
  ASSUME Types, LockedOnce, NEW c \in Clients, at[c] \in LockPoints, NEW p \in Points \ LockPoints,
         Releases(c, p), minted' = minted, UNCHANGED <<cached, stored, overruns>>
  PROVE  LockedOnce'
<1>1. PICK q \in Points \ LockPoints, k \in 0..minted' : Moved(c, q, k, doc[c])
  BY ReleasesMove
<1>2. overruns = 0 => stored'[doc[c]] <= 1 /\ (~cached'[doc[c]] => stored'[doc[c]] = 0)
  BY DEF LockedOnce, Types, ClientsOK
<1>. QED BY <1>1, <1>2, ReleaseMove

LEMMA LooseNames ==
  {"idle", "tickets", "set", "index", "count", "trim", "delete", "open", "unlist", "sign",
   "cache", "lock", "reply", "take", "unindex"}
    \subseteq Points \ LockPoints
  BY PointNames DEF LockPoints, SlotPoints

LEMMA ExportKeeps ==
  ASSUME Types, LockedOnce, NEW c \in Clients,
         Recheck(c) \/ School(c) \/ Slot(c) \/ Profile(c) \/ MakeProfile(c) \/ ProfileFails(c) \/ Convert(c)
  PROVE  LockedOnce'
<1>1. minted' = minted /\ UNCHANGED <<cached, stored, overruns>> /\ at[c] \in LockPoints
  BY DEF Recheck, School, Slot, Profile, MakeProfile, ProfileFails, Convert, Step, pdfVars, LockPoints, SlotPoints
<1>2. CASE \E p \in {"idle", "reply", "take"} : Releases(c, p)
  BY <1>1, <1>2, ReleaseKeeps, LooseNames
<1>3. CASE /\ \E p \in LockPoints \ {"recheck"} : Goes(c, p)
           /\ UNCHANGED lock /\ (at[c] = "recheck" => ~cached[doc[c]])
  <2>1. PICK p \in LockPoints \ {"recheck"} : Goes(c, p)
    BY <1>3
  <2>2. Moved(c, p, CodeAt(c, p), doc[c]) /\ UNCHANGED pdfVars
    BY <1>1, <1>3, <2>1, GoesMoves, PointNames DEF Types, pdfVars
  <2>. QED BY <1>1, <1>3, <2>2, LockMove
<1>4. CASE Recheck(c)
  BY <1>2, <1>3, <1>4 DEF Recheck, SeesCopy, LockPoints
<1>5. CASE School(c)
  BY <1>2, <1>3, <1>5 DEF School, LockPoints
<1>6. CASE Slot(c) \/ Profile(c) \/ MakeProfile(c)
  BY <1>3, <1>6 DEF Slot, Profile, MakeProfile, Step, pdfVars, LockPoints, SlotPoints
<1>7. CASE ProfileFails(c)
  BY <1>2, <1>7 DEF ProfileFails
<1>8. CASE Convert(c)
  BY <1>2, <1>3, <1>8 DEF Convert, LockPoints
<1>. QED BY <1>4, <1>5, <1>6, <1>7, <1>8

LEMMA StoreKeeps ==
  ASSUME Types, LockedOnce, NEW c \in Clients, Store(c)
  PROVE  LockedOnce'
<1>1. /\ minted' = minted /\ at[c] \in LockPoints /\ at[c] = "store" /\ Releases(c, "reply")
      /\ overruns' = overruns
      /\ cached' = [cached EXCEPT ![doc[c]] = TRUE] /\ stored' = [stored EXCEPT ![doc[c]] = @ + 1]
  BY DEF Store, LockPoints
<1>2. PICK q \in Points \ LockPoints, k \in 0..minted' : Moved(c, q, k, doc[c])
  BY <1>1, ReleasesMove, LooseNames
<1>3. doc[c] \in Docs
  BY DEF Types, ClientsOK
<1>4. \A d \in Docs \ {doc[c]} : cached'[d] = cached[d] /\ stored'[d] = stored[d]
  BY <1>1 DEF Types, DocsOK
<1>5. cached'[doc[c]] /\ stored'[doc[c]] = stored[doc[c]] + 1
  BY <1>1, <1>3 DEF Types, DocsOK
<1>6. overruns = 0 => stored[doc[c]] = 0
  BY <1>1, <1>3 DEF LockedOnce, LockPoints
<1>7. overruns = 0 => stored'[doc[c]] <= 1 /\ (~cached'[doc[c]] => stored'[doc[c]] = 0)
  BY <1>5, <1>6
<1>8. "reply" \notin LockPoints /\ q \notin LockPoints
  BY LooseNames
<1>. QED BY <1>1, <1>2, <1>4, <1>7, <1>8, ReleaseMove

LEMMA TimeKeeps ==
  ASSUME Types, LockedOnce, Silent
  PROVE  LockedOnce'
<1>1. UNCHANGED <<at, doc>>
  BY SilentSteps DEF clientVars
<1>2. CASE \E d \in Docs : ExpirePdf(d)
  <2>1. PICK d \in Docs : /\ cached' = [cached EXCEPT ![d] = FALSE] /\ stored' = [stored EXCEPT ![d] = 0]
                          /\ UNCHANGED <<lock, overruns>>
    BY <1>2 DEF ExpirePdf
  <2>2. /\ ~cached'[d] /\ stored'[d] = 0
        /\ \A e \in Docs \ {d} : cached'[e] = cached[e] /\ stored'[e] = stored[e]
    BY <2>1 DEF Types, DocsOK
  <2>3. \A b \in Clients : doc[b] \in Docs
    BY DEF Types, ClientsOK
  <2>. QED BY <1>1, <2>1, <2>2, <2>3 DEF LockedOnce
<1>3. CASE \E d \in Docs : LeaseExpires(d)
  <2>1. overruns' # 0
    BY <1>3 DEF LeaseExpires, Types, DocsOK
  <2>. QED BY <2>1 DEF LockedOnce
<1>4. CASE UNCHANGED pdfVars
  BY <1>1, <1>4 DEF LockedOnce, pdfVars
<1>. QED BY <1>2, <1>3, <1>4 DEF Silent, Bridge, Passes, Lapse, Sweep, SessionLost, vars

LEMMA LockedStep ==
  ASSUME Types, LockedOnce, [Next]_vars
  PROVE  LockedOnce'
<1>1. ASSUME NEW c \in Clients,
             \/ StartJump(c) \/ MintIndex(c) \/ MintCount(c) \/ MintTrim(c) \/ MintDelete(c) \/ StartGo(c) \/ StartExport(c)
             \/ Cache(c) \/ LockTimeout(c) \/ Reply(c)
      PROVE  LockedOnce'
  <2>1. UNCHANGED pdfVars
    BY <1>1 DEF StartJump, MintIndex, MintCount, MintTrim, MintDelete, StartGo, StartExport, Cache, LockTimeout, Reply
  <2>2. at'[c] \in Points \ LockPoints
    <3>1. \E p \in Points \ LockPoints : at' = [at EXCEPT ![c] = p]
      BY <1>1, LooseNames DEF StartJump, MintIndex, MintCount, MintTrim, MintDelete, StartGo, StartExport, Cache, LockTimeout,
                Reply, Step, Goes, Redirects, With
    <3>. QED BY <3>1 DEF Types, ClientsOK
  <2>3. PICK p, k, d : Moved(c, p, k, d)
    BY <1>1, CodeSteps, ExportSteps DEF Plain
  <2>. QED BY <2>1, <2>2, <2>3, LooseMove, MovedAt DEF Types
<1>2. ASSUME NEW c \in Clients, JumpTickets(c) \/ StartMint(c) PROVE LockedOnce'
  <2>1. UNCHANGED pdfVars /\ at'[c] \notin LockPoints
    BY <1>2 DEF JumpTickets, StartMint, Minting, Goes, LockPoints, SlotPoints, Types, ClientsOK
  <2>2. PICK p, k, d : Moved(c, p, k, d)
    BY <1>2, TicketSteps, MintingMoves DEF Plain, StartMint
  <2>. QED BY <2>1, <2>2, LooseMove, MovedAt DEF Types
<1>3. ASSUME NEW c \in Clients, MintSet(c) \/ Take(c) \/ Unindex(c) \/ Sign(c) PROVE LockedOnce'
  <2>1. UNCHANGED pdfVars
    BY <1>3 DEF MintSet, Take, Unindex, Sign
  <2>. QED BY <1>3, <2>1, SpendSteps, LooseMove, LooseNames
<1>. QED BY <1>1, <1>2, <1>3, StepCases, LockKeeps, ExportKeeps, StoreKeeps, TimeKeeps

-----------------------------------------------------------------------------
(* The theorems.                                                           *)

LEMMA InitInv == Init => Inv
<1>. SUFFICES ASSUME Init PROVE Inv
  OBVIOUS
<1>1. ClientsOK /\ CodesOK /\ RedisOK /\ DocsOK
  BY PointNames, BoundsAssumption DEF Init, ClientsOK, CodesOK, RedisOK, DocsOK
<1>2. PoolOK
  <2>1. Leasers = {} /\ Slotters = {} /\ Makers = {}
    BY DEF Init, Leasers, Slotters, Makers, SlotPoints
  <2>2. Leased = 0 /\ InSlot = 0 /\ Cardinality(Makers) = 0
    BY <2>1, Counts, FS_EmptySet
  <2>. QED BY <2>2, BoundsAssumption DEF Init, PoolOK
<1>3. SpentOnce /\ Redeems
  BY DEF Init, SpentOnce, Redeems, Spends
<1>4. LockedOnce
  BY DEF Init, LockedOnce, LockPoints, SlotPoints
<1>. QED BY <1>1, <1>2, <1>3, <1>4 DEF Inv, Types

LEMMA NextInv == Inv /\ [Next]_vars => Inv'
  BY TypesStep, SpentStep, RedeemStep, LockedStep DEF Inv

\* Types; in particular a code in Redis is in the index, on its way into it or popped and about
\* to be deleted, the profiles that are idle, being made or in use never exceed the conversion
\* slots, and the pool's count of them falls below zero by less than the slots.
THEOREM TypeCorrect == Spec => []TypeOK
<1>1. Inv => TypeOK
  BY TypesGiveTypeOK DEF Inv
<1>. QED BY <1>1, InitInv, NextInv, PTL DEF Spec

\* RedisShortCodeStore.resolve: any number of clients that follow a code at the same moment get
\* one redirect between them.
THEOREM OneRedirect == Spec => []UsedOnce
<1>1. Inv => UsedOnce
  BY DEF Inv, SpentOnce, UsedOnce
<1>. QED BY <1>1, InitInv, NextInv, PTL DEF Spec

\* /get_schedule/export: without a lease that ends under its holder, a document is converted
\* once for as long as its PDF is cached.
THEOREM OneConversion == Spec => []OneExport
<1>1. Inv => OneExport
  BY DEF Inv, LockedOnce, OneExport
<1>. QED BY <1>1, InitInv, NextInv, PTL DEF Spec

\* Whatever fails in an export, its code stays for another attempt: only a file sent, the end of
\* the session or of the code, a newer code or /jump/go takes it.
THEOREM CodeKept == Spec => KeptForRetry
<1>1. Inv /\ [Next]_vars
        => [\A k \in live : k \notin live'
              => \/ ~alive \/ Lapse(k) \/ \E c \in sent : code[c] = k
                 \/ \E c \in Clients : k \in evicted[c] \/ (at[c] = "open" /\ code[c] = k)]_vars
  <2>. SUFFICES ASSUME Inv, [Next]_vars, NEW k \in live, k \notin live'
                PROVE  \/ ~alive \/ Lapse(k) \/ \E c \in sent : code[c] = k
                       \/ \E c \in Clients : k \in evicted[c] \/ (at[c] = "open" /\ code[c] = k)
    OBVIOUS
  <2>1. ASSUME NEW c \in Clients, Take(c)
        PROVE  code[c] = k /\ (c \in sent \/ ~alive \/ at[c] = "open")
    BY <2>1 DEF Take, Taken, Inv, Redeems
  <2>2. ASSUME NEW c \in Clients, MintTrim(c) PROVE FALSE
    BY <2>2 DEF MintTrim
  <2>3. ASSUME NEW c \in Clients, MintDelete(c) PROVE k \in evicted[c]
    BY <2>3 DEF MintDelete
  <2>. QED BY <2>1, <2>2, <2>3, WhoDeletes
<1>. QED BY <1>1, InitInv, NextInv, PTL DEF Spec, KeptForRetry
=============================================================================
