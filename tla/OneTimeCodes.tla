---------------------------- MODULE OneTimeCodes ----------------------------
(***************************************************************************)
(* Short codes and what they open, for one student: the jump links         *)
(* (/jump, /jump/go) and the export of a timetable as a PDF                *)
(* (/get_schedule/export), with the store of the codes in Redis            *)
(* (jwxt_redis.py), the cache and the per-document lock of the PDFs, and   *)
(* the pool of LibreOffice profiles (rtf_pdf.py).                          *)
(*                                                                         *)
(* Clients are the threads that handle requests, on any replica; a step is *)
(* one command to Redis or one thing between two waits.  Redis answers;    *)
(* the stores used while it does not are in the memory of one replica.     *)
(* Jump links and exports share the keys of the codes and their index.     *)
(* Codes are numbered in the order in which they expire.                   *)
(***************************************************************************)
EXTENDS Integers, FiniteSets

CONSTANTS Clients,
          Docs,        \* timetables of the student: semester, weeks, parity
          Nobody,      \* no client
          MaxCodes,    \* max_codes
          Capacity,    \* JWXT_PDF_CONCURRENCY: conversion slots and profiles
          MaxMinted, MaxOverruns   \* bounds: codes ever made, leases lost while in use

ASSUME BoundsAssumption ==
  /\ Nobody \notin Clients /\ IsFiniteSet(Clients) /\ IsFiniteSet(Docs)
  /\ MaxCodes \in Nat \ {0} /\ Capacity \in Nat \ {0}
  /\ MaxMinted \in Nat /\ MaxOverruns \in Nat

VARIABLES
  live, index,     \* Redis: the codes, the members of code-index
  cached, lock,    \* Redis: the PDFs, the holder of a document's lock
  alive,           \* the session is in the store
  minted,          \* codes made so far
  at, code, doc,   \* where a client is, with which code (0: none) and document
  excess, evicted, \* what a mint has to pop from the index, and has popped and not deleted
  free, active,    \* ProfilePool: idle profiles, its count of those in use
  used, sent, stored, overruns  \* history; sent: who has sent a file and not yet taken its code

redisVars   == <<live, index>>
pdfVars     == <<cached, lock, stored, overruns>>
trimVars    == <<excess, evicted>>
clientVars  == <<at, code, doc, trimVars>>
poolVars    == <<free, active>>
useVars     == <<used, sent>>
vars == <<redisVars, pdfVars, alive, minted, clientVars, poolVars, useVars>>

Codes == 1..MaxMinted
MintPoints   == {"set", "index", "count", "trim", "delete"}
JumpPoints   == {"tickets"} \cup MintPoints
GoPoints     == {"open", "unlist", "sign"}
SlotPoints   == {"profile", "mkdir", "convert"}
LockPoints   == {"recheck", "school", "slot", "store"} \cup SlotPoints
ExportPoints == {"cache", "lock", "reply", "take", "unindex"} \cup LockPoints
Points == {"idle"} \cup JumpPoints \cup GoPoints \cup ExportPoints

Leased == Cardinality({c \in Clients : at[c] \in {"mkdir", "convert"}})
InSlot == Cardinality({c \in Clients : at[c] \in SlotPoints})

\* Types of all variables; no code is in the store without being counted in the index, or on
\* its way into it or out of the store, and the profiles on disk stay within the conversion
\* slots, though the pool's own count may fall below zero.
TypeOK ==
  /\ live \subseteq Codes /\ index \subseteq Codes
  /\ live \subseteq index \cup {code[c] : c \in {d \in Clients : at[d] = "index"}}
                     \cup UNION {evicted[c] : c \in Clients}
  /\ cached \in [Docs -> BOOLEAN] /\ lock \in [Docs -> Clients \cup {Nobody}]
  /\ alive \in BOOLEAN
  /\ minted \in 0..MaxMinted
  /\ at \in [Clients -> Points] /\ code \in [Clients -> 0..MaxMinted]
  /\ doc \in [Clients -> Docs]
  /\ excess \in [Clients -> Nat] /\ evicted \in [Clients -> SUBSET Codes]
  /\ free \in 0..Capacity /\ active \in (1 - Capacity)..Capacity /\ free + Leased <= Capacity
  /\ used \in [Codes -> Nat] /\ sent \subseteq Clients
  /\ stored \in [Docs -> Nat] /\ overruns \in 0..MaxOverruns

Init ==
  /\ live = {} /\ index = {}
  /\ cached = [d \in Docs |-> FALSE] /\ lock = [d \in Docs |-> Nobody]
  /\ alive = TRUE
  /\ minted = 0
  /\ at = [c \in Clients |-> "idle"] /\ code = [c \in Clients |-> 0]
  /\ doc \in [Clients -> Docs]
  /\ excess = [c \in Clients |-> 0] /\ evicted = [c \in Clients |-> {}]
  /\ free = 0 /\ active = 0
  /\ used = [k \in Codes |-> 0] /\ sent = {}
  /\ stored = [d \in Docs |-> 0] /\ overruns = 0

\* An idle client has no code.
CodeAt(c, point) == IF point = "idle" THEN 0 ELSE code[c]
Goes(c, point) ==
  /\ at' = [at EXCEPT ![c] = point] /\ code' = [code EXCEPT ![c] = CodeAt(c, point)]
  /\ UNCHANGED <<doc, trimVars>>
Step(c, from, to) == at[c] = from /\ Goes(c, to)

-----------------------------------------------------------------------------
(* /jump: the tickets are tried, or a verdict of the last seconds spares   *)
(* them; then a link is made.                                              *)

\* The bound on codes keeps room for those whose tickets are being tried.
Room == minted + Cardinality({c \in Clients : at[c] = "tickets"}) < MaxMinted

StartJump(c) ==
  /\ Room /\ Step(c, "idle", "tickets")
  /\ UNCHANGED <<redisVars, pdfVars, alive, minted, poolVars, useVars>>

Minting(c) ==
  /\ minted < MaxMinted /\ minted' = minted + 1
  /\ code' = [code EXCEPT ![c] = minted + 1] /\ at' = [at EXCEPT ![c] = "set"]
  /\ UNCHANGED <<doc, trimVars>>

\* The school is down (502); TokenError or a refused ticket: the session is dropped.
JumpTickets(c) ==
  /\ at[c] = "tickets"
  /\ \/ alive /\ Minting(c) /\ UNCHANGED alive
     \/ alive /\ Goes(c, "idle") /\ UNCHANGED <<alive, minted>>
     \/ alive' = FALSE /\ Goes(c, "idle") /\ UNCHANGED minted
  /\ UNCHANGED <<redisVars, pdfVars, poolVars, useVars>>

\* /get_schedule adds a link for the export of the timetable it returns.
StartMint(c) ==
  /\ at[c] = "idle" /\ alive /\ Room /\ Minting(c)
  /\ UNCHANGED <<redisVars, pdfVars, alive, poolVars, useVars>>

-----------------------------------------------------------------------------
(* RedisShortCodeStore.                                                    *)

MintSet(c) ==
  /\ Step(c, "set", "index") /\ live' = live \cup {code[c]}
  /\ UNCHANGED <<index, pdfVars, alive, minted, poolVars, useVars>>
MintIndex(c) ==
  /\ Step(c, "index", "count") /\ index' = index \cup {code[c]}
  /\ UNCHANGED <<live, pdfVars, alive, minted, poolVars, useVars>>

Oldest(S, n) == {k \in S : Cardinality({i \in S : i < k}) < n}

\* ZCARD, then ZPOPMIN of what was too much, and DEL of the codes popped, one by one.
MintCount(c) ==
  /\ at[c] = "count"
  /\ IF Cardinality(index) > MaxCodes
     THEN /\ at' = [at EXCEPT ![c] = "trim"] /\ UNCHANGED <<code, doc, evicted>>
          /\ excess' = [excess EXCEPT ![c] = Cardinality(index) - MaxCodes]
     ELSE Goes(c, "idle")
  /\ UNCHANGED <<redisVars, pdfVars, alive, minted, poolVars, useVars>>
\* Others may have popped some of them, or all, in the meantime.
MintTrim(c) ==
  /\ at[c] = "trim"
  /\ LET old   == Oldest(index, excess[c])
         point == IF old = {} THEN "idle" ELSE "delete"
     IN  /\ index' = index \ old /\ evicted' = [evicted EXCEPT ![c] = @ \cup old]
         /\ at' = [at EXCEPT ![c] = point] /\ code' = [code EXCEPT ![c] = CodeAt(c, point)]
  /\ excess' = [excess EXCEPT ![c] = 0] /\ UNCHANGED doc
  /\ UNCHANGED <<live, pdfVars, alive, minted, poolVars, useVars>>
MintDelete(c) ==
  /\ at[c] = "delete"
  /\ \E k \in evicted[c] :
       LET point == IF evicted[c] = {k} THEN "idle" ELSE "delete"
       IN  /\ \A i \in evicted[c] : k <= i
           /\ live' = live \ {k} /\ evicted' = [evicted EXCEPT ![c] = @ \ {k}]
           /\ at' = [at EXCEPT ![c] = point] /\ code' = [code EXCEPT ![c] = CodeAt(c, point)]
  /\ UNCHANGED <<index, excess, doc, pdfVars, alive, minted, poolVars, useVars>>

\* resolve(consume=True): GETDEL, then the index. A jump ("open") goes on to its ticket, an
\* export ("take") is over.
Taken(c, from, to) == at[c] = from /\ Goes(c, IF code[c] \in live THEN to ELSE "idle")
Take(c) ==
  /\ Taken(c, "take", "unindex") \/ Taken(c, "open", "unlist")
  /\ live' = live \ {code[c]} /\ sent' = sent \ {c}
  /\ UNCHANGED <<index, pdfVars, alive, minted, poolVars, used>>
Unindex(c) ==
  /\ Step(c, "unindex", "idle") \/ Step(c, "unlist", "sign")
  /\ index' = index \ {code[c]}
  /\ UNCHANGED <<live, pdfVars, alive, minted, poolVars, useVars>>

\* The time of a code is over; the sweep forgets members it has found to be without a code.
Lapse(k) ==
  /\ k \in live /\ live' = live \ {k}
  /\ UNCHANGED <<index, pdfVars, alive, minted, clientVars, poolVars, useVars>>
Sweep ==
  /\ \E dead \in SUBSET (index \ live) : index' = index \ dead
  /\ UNCHANGED <<live, pdfVars, alive, minted, clientVars, poolVars, useVars>>

-----------------------------------------------------------------------------
(* /jump/go.                                                               *)

\* The codes in the store that were handed out, for a redirect or for an export: the keys are
\* the same. Any other is refused without a trace.
Known == {k \in live : \A c \in Clients : code[c] = k => at[c] \notin MintPoints}

With(c, k, d, point) ==
  /\ at' = [at EXCEPT ![c] = point] /\ code' = [code EXCEPT ![c] = k]
  /\ doc' = [doc EXCEPT ![c] = d] /\ UNCHANGED trimVars

\* Mutant: a redirect looks its code up without consuming it.
KeepsCode(c, k) == k \in live /\ With(c, k, doc[c], "sign")
\* plain=1 and app=1 consume the code first; the bridge and its json=1 only look it up.
Redirects(c, k) == With(c, k, doc[c], "open")

StartGo(c) ==
  /\ at[c] = "idle" /\ \E k \in Known : Redirects(c, k)
  /\ UNCHANGED <<redisVars, pdfVars, alive, minted, poolVars, useVars>>

\* The redirect is sent with a ticket made now, or the failure is answered.
Sign(c) ==
  /\ Step(c, "sign", "idle")
  /\ \/ alive /\ used' = [used EXCEPT ![code[c]] = @ + 1] /\ UNCHANGED alive
     \/ UNCHANGED <<alive, used>>
     \/ alive' = FALSE /\ UNCHANGED used
  /\ UNCHANGED <<redisVars, pdfVars, minted, poolVars, sent>>

\* The bridge page: the code stays, and a refused ticket drops the session.
Bridge(c) ==
  /\ at[c] = "idle" /\ Known # {} /\ alive' = FALSE
  /\ UNCHANGED <<redisVars, pdfVars, minted, clientVars, poolVars, useVars>>

-----------------------------------------------------------------------------
(* /get_schedule/export, and the prewarming after /get_schedule, which has *)
(* no code (0).                                                            *)

\* Mutant: the code is consumed when it is looked up.
LooksUpAndTakes(k) == live' = live \ {k}
\* resolve(consume=False).
LooksUp(k) == UNCHANGED live

StartExport(c) ==
  /\ at[c] = "idle"
  /\ \E d \in Docs :
       \/ \E k \in Known : (With(c, k, d, "cache") /\ LooksUp(k))
       \/ (With(c, 0, d, "cache") /\ UNCHANGED live)
  /\ UNCHANGED <<index, pdfVars, alive, minted, poolVars, useVars>>

\* TokenError: the session is dropped and 401 is answered; the code stays.
Cache(c) ==
  /\ at[c] = "cache"
  /\ Goes(c, IF ~alive THEN "idle" ELSE IF cached[doc[c]] THEN "reply" ELSE "lock")
  /\ UNCHANGED <<redisVars, pdfVars, alive, minted, poolVars, useVars>>

Lock(c) ==
  /\ Step(c, "lock", "recheck")
  /\ lock[doc[c]] = Nobody /\ lock' = [lock EXCEPT ![doc[c]] = c]
  /\ UNCHANGED <<redisVars, cached, stored, overruns, alive, minted, poolVars, useVars>>
\* 503: the wait for the lock is bounded.
LockTimeout(c) ==
  /\ Step(c, "lock", "idle") /\ lock[doc[c]] # Nobody
  /\ UNCHANGED <<redisVars, pdfVars, alive, minted, poolVars, useVars>>

\* RedisKeyedLocks._release: a lock that is another's is left alone; comparing with a lock
\* that has lapsed raises, and whatever the client had becomes a 500.
Releases(c, to) ==
  /\ lock' = IF lock[doc[c]] = c THEN [lock EXCEPT ![doc[c]] = Nobody] ELSE lock
  /\ Goes(c, IF lock[doc[c]] = Nobody THEN "idle" ELSE to)

\* Mutant: the document is exported whatever the cache says by now.
SeesNothing(d) == FALSE
SeesCopy(d) == cached[d]

Recheck(c) ==
  /\ at[c] = "recheck"
  /\ IF SeesCopy(doc[c]) THEN Releases(c, "reply") ELSE Goes(c, "school") /\ UNCHANGED lock
  /\ UNCHANGED <<redisVars, cached, stored, overruns, alive, minted, poolVars, useVars>>

\* The school sends the document, or fails (502), or no longer knows the session (401): then
\* the code goes with it, unless the release of a lapsed lock raises first. A session that is
\* gone by itself leaves the code.
School(c) ==
  /\ at[c] = "school"
  /\ \/ alive /\ Goes(c, "slot") /\ UNCHANGED <<lock, alive>>
     \/ alive /\ Releases(c, "idle") /\ UNCHANGED alive
     \/ /\ alive /\ Releases(c, IF code[c] = 0 THEN "idle" ELSE "take")
        /\ alive' = (lock[doc[c]] = Nobody)
     \/ ~alive /\ Releases(c, "idle") /\ UNCHANGED alive
  /\ UNCHANGED <<redisVars, cached, stored, overruns, minted, poolVars, useVars>>

-----------------------------------------------------------------------------
(* rtf_pdf.py: a conversion slot, then a profile.                          *)

Slot(c) ==
  /\ Step(c, "slot", "profile") /\ InSlot < Capacity
  /\ UNCHANGED <<redisVars, pdfVars, alive, minted, poolVars, useVars>>

\* Mutant: every conversion makes a profile of its own.
NeverReuses == FALSE
Reuses == free > 0
\* ProfilePool._acquire: an idle profile is taken without counting it as active, a new one is
\* counted before its directory is made.
Profile(c) ==
  /\ \/ Reuses /\ Step(c, "profile", "convert") /\ free' = free - 1 /\ UNCHANGED active
     \/ ~Reuses /\ active < Capacity /\ Step(c, "profile", "mkdir")
        /\ active' = active + 1 /\ UNCHANGED free
  /\ UNCHANGED <<redisVars, pdfVars, alive, minted, useVars>>
MakeProfile(c) ==
  /\ Step(c, "mkdir", "convert")
  /\ UNCHANGED <<redisVars, pdfVars, alive, minted, poolVars, useVars>>
\* mkdtemp fails: 500, and the place in the pool is given back, without looking whether the
\* count has been cut to zero since.
ProfileFails(c) ==
  /\ at[c] = "mkdir" /\ active' = active - 1 /\ Releases(c, "idle")
  /\ UNCHANGED <<redisVars, cached, stored, overruns, alive, minted, free, useVars>>

Less(n) == IF n > 0 THEN n - 1 ELSE 0
\* Mutant: a profile that is thrown away still counts as active.
ActiveAfterHealthy(healthy) == IF healthy THEN Less(active) ELSE active
\* ProfilePool._release.
ActiveAfter(healthy) == Less(active)
FreeAfter(healthy)   == IF healthy THEN free + 1 ELSE free

\* LibreOffice writes the PDF, or fails or is killed at PDF_TIMEOUT (502).
Convert(c) ==
  /\ at[c] = "convert"
  /\ \E healthy \in BOOLEAN :
       /\ active' = ActiveAfter(healthy) /\ free' = FreeAfter(healthy)
       /\ IF healthy THEN Goes(c, "store") /\ UNCHANGED lock ELSE Releases(c, "idle")
  /\ UNCHANGED <<redisVars, cached, stored, overruns, alive, minted, useVars>>

Store(c) ==
  /\ at[c] = "store" /\ Releases(c, "reply")
  /\ cached' = [cached EXCEPT ![doc[c]] = TRUE] /\ stored' = [stored EXCEPT ![doc[c]] = @ + 1]
  /\ UNCHANGED <<redisVars, overruns, alive, minted, poolVars, useVars>>

\* The file is put into the reply, in memory; only then is the code consumed. A prewarming
\* sends nothing.
Reply(c) ==
  /\ Step(c, "reply", IF code[c] = 0 THEN "idle" ELSE "take")
  /\ sent' = IF code[c] = 0 THEN sent ELSE sent \cup {c}
  /\ UNCHANGED <<redisVars, pdfVars, alive, minted, poolVars, used>>

-----------------------------------------------------------------------------
(* Time, and the session.                                                  *)

ExpirePdf(d) ==
  /\ cached[d] /\ cached' = [cached EXCEPT ![d] = FALSE] /\ stored' = [stored EXCEPT ![d] = 0]
  /\ UNCHANGED <<redisVars, lock, overruns, alive, minted, clientVars, poolVars, useVars>>
\* A lock's lease ends: nobody renews it while the school and the converter work.
LeaseExpires(d) ==
  /\ lock[d] # Nobody /\ overruns < MaxOverruns /\ overruns' = overruns + 1
  /\ lock' = [lock EXCEPT ![d] = Nobody]
  /\ UNCHANGED <<redisVars, cached, stored, alive, minted, clientVars, poolVars, useVars>>
SessionLost ==
  /\ alive /\ alive' = FALSE
  /\ UNCHANGED <<redisVars, pdfVars, minted, clientVars, poolVars, useVars>>

Start(c) == StartJump(c) \/ StartMint(c) \/ StartGo(c) \/ StartExport(c) \/ Bridge(c)
Mints(c) == MintSet(c) \/ MintIndex(c) \/ MintCount(c) \/ MintTrim(c) \/ MintDelete(c)
Works(c) ==
  \/ JumpTickets(c) \/ Mints(c)
  \/ Take(c) \/ Unindex(c) \/ Sign(c)
  \/ Cache(c) \/ Lock(c) \/ LockTimeout(c) \/ Recheck(c) \/ School(c)
  \/ Profile(c) \/ MakeProfile(c) \/ ProfileFails(c) \/ Convert(c) \/ Store(c) \/ Reply(c)
Passes ==
  \/ \E k \in Codes : Lapse(k)
  \/ \E d \in Docs : ExpirePdf(d) \/ LeaseExpires(d)
  \/ Sweep \/ SessionLost

Next == (\E c \in Clients : Start(c) \/ Works(c) \/ Slot(c)) \/ Passes

\* Threads run, and a semaphore serves those that wait.
Fairness == \A c \in Clients : WF_vars(Works(c)) /\ SF_vars(Slot(c))
Spec == Init /\ [][Next]_vars /\ Fairness

-----------------------------------------------------------------------------
\* A code opens at most one redirect, however many clients follow
\* it at the same moment.
UsedOnce == \A k \in Codes : used[k] <= 1

\* A code survives every failure of an export that may be retried: it goes only when the client
\* that takes it has sent the file, when its time is over or it was pushed out, with its session,
\* or with a redirect of /jump/go, which takes the codes of exports as well.
KeptForRetry ==
  [][\A k \in live : k \notin live'
       => \/ ~alive \/ Lapse(k) \/ \E c \in sent : code[c] = k
          \/ \E c \in Clients : k \in evicted[c] \/ (at[c] = "open" /\ code[c] = k)]_vars

\* While no lock outlives its lease, a document is fetched and converted once for as long as
\* its PDF is cached, by however many clients and prewarmings it is asked for.
OneExport == overruns = 0 => \A d \in Docs : stored[d] <= 1

\* Every request is answered: nobody waits for ever for a lock, a conversion slot or a profile.
Answered == \A c \in Clients : []<>(at[c] = "idle")
=============================================================================
