----------------------------- MODULE SchoolEntry -----------------------------
(***************************************************************************)
(* How a client of the school's systems gets from a password to the        *)
(* student portal (class J of jwxt_core.py): login with an encrypted       *)
(* password, the address of the management system, its single sign-on,     *)
(* and the three caches of the process, for the public key, the address    *)
(* and the service of the sign-on.                                         *)
(*                                                                         *)
(* The school may change each of the three at any time; a version is a     *)
(* number.  What a client reads at the school it writes to a cache in a    *)
(* later step, so a slow client may write what is no longer true.  Every   *)
(* client has the right password.                                          *)
(***************************************************************************)
EXTENDS Integers, FiniteSets

CONSTANTS Clients,
          MaxChanges, MaxFaults   \* bounds: changes at the school, failed requests

ASSUME EntryBounds == IsFiniteSet(Clients) /\ MaxChanges \in Nat /\ MaxFaults \in Nat

VARIABLES
  school,                     \* the versions in force: [key, mgmt, service]
  keyCache, mgmtCache,        \* _RSA_KEY_CACHE, _MGMT_CACHE
  ssoCache,                   \* _SSO_SERVICE_CACHE, by the address
  at, phase,                  \* where a client is; "login", then "quick" or "full" in student()
  key, fromCache,             \* the key in use, and whether the cache had it
  again,                      \* the second attempt of _tickets
  mgmt, mgmtKey, service,     \* J.mgmt, whether J.mgmt_key is set, the service of the sign-on
  clean,                      \* a client that nothing disturbed: see Begin
  faults

cacheVars  == <<keyCache, mgmtCache, ssoCache>>
keyVars    == <<key, fromCache, again>>
portalVars == <<mgmt, mgmtKey, service>>
entryVars == <<school, cacheVars, at, phase, keyVars, portalVars, clean, faults>>

Versions == 0..MaxChanges
None     == -1
Known    == Versions \cup {None}
Requests == {"params", "key", "tickets", "cookies", "apps", "service", "mint", "portal"}
Writes   == {"keyput", "mgmtput", "serviceput"}
EntryPoints   == Requests \cup Writes \cup {"idle", "entered", "failed"}

EntryTypeOK ==
  /\ school \in [{"key", "mgmt", "service"} -> Versions]
  /\ keyCache \in Known /\ mgmtCache \in Known /\ ssoCache \in [Versions -> Known]
  /\ at \in [Clients -> EntryPoints] /\ phase \in [Clients -> {"login", "quick", "full"}]
  /\ key \in [Clients -> Versions] /\ fromCache \in [Clients -> BOOLEAN]
  /\ again \in [Clients -> BOOLEAN]
  /\ mgmt \in [Clients -> Versions] /\ mgmtKey \in [Clients -> BOOLEAN]
  /\ service \in [Clients -> Versions]
  /\ clean \in [Clients -> BOOLEAN] /\ faults \in 0..MaxFaults

EntryInit ==
  /\ school = [x \in {"key", "mgmt", "service"} |-> 0]
  /\ keyCache = None /\ mgmtCache = None /\ ssoCache = [v \in Versions |-> None]
  /\ at = [c \in Clients |-> "idle"] /\ phase = [c \in Clients |-> "login"]
  /\ key = [c \in Clients |-> 0] /\ fromCache = [c \in Clients |-> FALSE]
  /\ again = [c \in Clients |-> FALSE]
  /\ mgmt = [c \in Clients |-> 0] /\ mgmtKey = [c \in Clients |-> FALSE]
  /\ service = [c \in Clients |-> 0] /\ clean = [c \in Clients |-> FALSE]
  /\ faults = 0

Passes(c, from, to) == at[c] = from /\ at' = [at EXCEPT ![c] = to]
Set(f, c, v) == [f EXCEPT ![c] = v]
\* What a function knew is gone when it returns or raises.
LeavesTickets(c) == key' = Set(key, c, 0) /\ fromCache' = Set(fromCache, c, FALSE)
LeavesJ(c) ==
  /\ mgmt' = Set(mgmt, c, 0) /\ mgmtKey' = Set(mgmtKey, c, FALSE) /\ service' = Set(service, c, 0)

\* What a client is about to write and the school has changed meanwhile.
Stale(c) ==
  \/ at[c] = "keyput" /\ key[c] # school["key"]
  \/ at[c] = "mgmtput" /\ mgmt[c] # school["mgmt"]
  \/ at[c] = "serviceput" /\ (mgmt[c] # school["mgmt"] \/ service[c] # school["service"])

\* A client starts over with a J of its own: undisturbed as long as no request of it fails and
\* the school does not change, if no other client is about to write what it read before a change.
Begin(c) ==
  /\ at[c] \in {"idle", "entered", "failed"} /\ at' = Set(at, c, "params")
  /\ clean' = Set(clean, c, \A d \in Clients : ~Stale(d))
  /\ UNCHANGED <<school, cacheVars, phase, keyVars, portalVars, faults>>

-----------------------------------------------------------------------------
(* Failures.                                                               *)

\* Mutant: the second attempt does not clear the cached key.
KeyKept == keyCache
\* _invalidate_key
KeyDropped == None

\* _tickets: a key of the cache is given up and read again, once.
TicketsAgain(c) ==
  /\ at[c] = "tickets" /\ ~again[c] /\ fromCache[c]
  /\ Passes(c, "tickets", "key") /\ again' = Set(again, c, TRUE) /\ keyCache' = KeyDropped
  /\ UNCHANGED <<phase, mgmtCache, ssoCache, portalVars>>
\* sso: without a ticket for the TGT, the password.
PasswordInstead(c) ==
  /\ Passes(c, "mint", "key") /\ UNCHANGED <<phase, again, cacheVars, portalVars>>
\* student(): the caches it used are cleared, and everything is asked again.
FullRetry(c) ==
  /\ phase[c] = "quick" /\ at[c] # "mint" /\ ~(at[c] = "tickets" /\ ~again[c] /\ fromCache[c])
  /\ at' = Set(at, c, "apps") /\ phase' = Set(phase, c, "full") /\ again' = Set(again, c, FALSE)
  /\ mgmtCache' = IF mgmtKey[c] THEN None ELSE mgmtCache
  /\ ssoCache' = [ssoCache EXCEPT ![mgmt[c]] = None]
  /\ LeavesJ(c) /\ UNCHANGED keyCache
GivesUp(c) ==
  /\ phase[c] \in {"login", "full"} /\ ~(at[c] = "tickets" /\ ~again[c] /\ fromCache[c])
  /\ at' = Set(at, c, "failed") /\ phase' = Set(phase, c, "login") /\ again' = Set(again, c, FALSE)
  /\ LeavesJ(c) /\ UNCHANGED cacheVars
Raises(c) ==
  /\ TicketsAgain(c) \/ PasswordInstead(c) \/ FullRetry(c) \/ GivesUp(c)
  /\ LeavesTickets(c)

\* A request that fails, after the retry of req() if it is a GET.
Fault(c) ==
  /\ at[c] \in Requests /\ faults < MaxFaults /\ faults' = faults + 1
  /\ Raises(c) /\ clean' = Set(clean, c, FALSE) /\ UNCHANGED school

-----------------------------------------------------------------------------
(* login().                                                                *)

LoginParams(c) ==
  /\ Passes(c, "params", "key") /\ UNCHANGED <<school, cacheVars, phase, keyVars, portalVars, clean, faults>>

\* _key: the page is asked for in any case; the key is the cache's or, with a request more, the school's.
Key(c) ==
  /\ IF keyCache # None
     THEN Passes(c, "key", "tickets") /\ key' = Set(key, c, keyCache)
     ELSE Passes(c, "key", "keyput") /\ key' = Set(key, c, school["key"])
  /\ fromCache' = Set(fromCache, c, keyCache # None)
  /\ UNCHANGED <<school, cacheVars, phase, again, portalVars, clean, faults>>
PutKey(c) ==
  /\ Passes(c, "keyput", "tickets") /\ keyCache' = key[c]
  /\ UNCHANGED <<school, mgmtCache, ssoCache, phase, keyVars, portalVars, clean, faults>>

\* The school can read a password encrypted with its key only.
Tickets(c) ==
  /\ at[c] = "tickets"
  /\ IF key[c] = school["key"]
     THEN /\ Passes(c, "tickets", IF phase[c] = "login" THEN "cookies" ELSE "portal")
          /\ LeavesTickets(c) /\ again' = Set(again, c, FALSE)
          /\ UNCHANGED <<cacheVars, phase, portalVars>>
     ELSE Raises(c)
  /\ UNCHANGED <<school, clean, faults>>

\* The cookies of CAS in parallel, again one by one if that failed, and what the reading back
\* does not show; then loginFromCas and the check of the user name.
Cookies(c) ==
  /\ Passes(c, "cookies", "apps")
  /\ UNCHANGED <<school, cacheVars, phase, keyVars, portalVars, clean, faults>>

-----------------------------------------------------------------------------
(* jwxt() and student().                                                   *)

Enters(c) == phase' = Set(phase, c, IF phase[c] = "login" THEN "quick" ELSE phase[c])

\* _resolve_mgmt: a full pass does not look into the cache; an address with a query is not cached.
Apps(c) ==
  /\ at[c] = "apps"
  /\ \/ /\ phase[c] # "full" /\ mgmtCache # None
        /\ Passes(c, "apps", "service") /\ Enters(c)
        /\ mgmt' = Set(mgmt, c, mgmtCache) /\ mgmtKey' = Set(mgmtKey, c, TRUE)
     \/ /\ phase[c] = "full" \/ mgmtCache = None
        /\ mgmt' = Set(mgmt, c, school["mgmt"])
        /\ \/ Passes(c, "apps", "mgmtput") /\ UNCHANGED <<phase, mgmtKey>>
           \/ Passes(c, "apps", "service") /\ Enters(c) /\ mgmtKey' = Set(mgmtKey, c, FALSE)
  /\ UNCHANGED <<school, cacheVars, keyVars, service, clean, faults>>
PutMgmt(c) ==
  /\ Passes(c, "mgmtput", "service") /\ Enters(c)
  /\ mgmtCache' = mgmt[c] /\ mgmtKey' = Set(mgmtKey, c, TRUE)
  /\ UNCHANGED <<school, keyCache, ssoCache, keyVars, mgmt, service, clean, faults>>

\* Where a service leads in the end: a full pass signs on with the password.
SignsOn(c) == IF phase[c] = "full" THEN "key" ELSE "mint"
\* _sso_service: the cache, unless the pass is full; the redirect of the address in force; an
\* address that is not answers without one, and the service is what the code has as a hint.
Service(c) ==
  /\ at[c] = "service"
  /\ \/ /\ phase[c] # "full" /\ ssoCache[mgmt[c]] # None
        /\ Passes(c, "service", "mint") /\ service' = Set(service, c, ssoCache[mgmt[c]])
     \/ /\ phase[c] = "full" \/ ssoCache[mgmt[c]] = None
        /\ IF mgmt[c] = school["mgmt"]
           THEN /\ service' = Set(service, c, school["service"])
                /\ Passes(c, "service", IF phase[c] = "full" THEN "key" ELSE "serviceput")
           ELSE service' = Set(service, c, 0) /\ Passes(c, "service", SignsOn(c))
  /\ UNCHANGED <<school, cacheVars, phase, keyVars, mgmt, mgmtKey, clean, faults>>
PutService(c) ==
  /\ Passes(c, "serviceput", "mint") /\ ssoCache' = [ssoCache EXCEPT ![mgmt[c]] = service[c]]
  /\ UNCHANGED <<school, keyCache, mgmtCache, phase, keyVars, portalVars, clean, faults>>

\* mint_st: CAS gives a ticket for the TGT; for a service that is no longer in force it need not.
Mint(c) ==
  /\ at[c] = "mint"
  /\ \/ Passes(c, "mint", "portal") /\ UNCHANGED <<cacheVars, phase, keyVars, portalVars>>
     \/ service[c] # school["service"] /\ Raises(c)
  /\ UNCHANGED <<school, clean, faults>>

\* The ticket is redeemed, and the management system gives the address of the student portal.
Portal(c) ==
  /\ at[c] = "portal"
  /\ IF mgmt[c] = school["mgmt"] /\ service[c] = school["service"]
     THEN /\ Passes(c, "portal", "entered") /\ clean' = Set(clean, c, FALSE)
          /\ phase' = Set(phase, c, "login") /\ LeavesJ(c) /\ UNCHANGED <<cacheVars, keyVars>>
     ELSE Raises(c) /\ UNCHANGED clean
  /\ UNCHANGED <<school, faults>>

-----------------------------------------------------------------------------

\* The school changes its key, an address or a service.
Change(x) ==
  /\ school["key"] + school["mgmt"] + school["service"] < MaxChanges
  /\ school' = [school EXCEPT ![x] = @ + 1]
  /\ clean' = [c \in Clients |-> FALSE]
  /\ UNCHANGED <<cacheVars, at, phase, keyVars, portalVars, faults>>

\* The time of an entry is over.
Expire ==
  /\ \/ keyCache # None /\ keyCache' = None /\ UNCHANGED <<mgmtCache, ssoCache>>
     \/ mgmtCache # None /\ mgmtCache' = None /\ UNCHANGED <<keyCache, ssoCache>>
     \/ \E v \in Versions : /\ ssoCache[v] # None /\ ssoCache' = [ssoCache EXCEPT ![v] = None]
                            /\ UNCHANGED <<keyCache, mgmtCache>>
  /\ UNCHANGED <<school, at, phase, keyVars, portalVars, clean, faults>>

Moves(c) ==
  \/ LoginParams(c) \/ Key(c) \/ PutKey(c) \/ Tickets(c) \/ Cookies(c) \/ Apps(c) \/ PutMgmt(c)
  \/ Service(c) \/ PutService(c) \/ Mint(c) \/ Portal(c) \/ Fault(c)
EntryNext ==
  \/ \E c \in Clients : Begin(c) \/ Moves(c)
  \/ \E x \in {"key", "mgmt", "service"} : Change(x)
  \/ Expire
EntrySpec == EntryInit /\ [][EntryNext]_entryVars

-----------------------------------------------------------------------------
\* Whatever the caches hold, and whatever other clients read from, write to or clear in them, a
\* client that nothing disturbs gets into the portal: a stale entry costs a retry, not a login.
StaleCachesRecover == \A c \in Clients : clean[c] => at[c] # "failed"
=============================================================================
