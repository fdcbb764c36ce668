---------------------------- MODULE NoticeStore ----------------------------
(***************************************************************************)
(* The notices of the site (app/notices.py): a file of JSON lines that all *)
(* replicas share, its lock, the copy every replica keeps in memory and    *)
(* the mirror in Redis.                                                    *)
(*                                                                         *)
(* A change runs on a thread under the exclusive lock: it reads the file,  *)
(* changes the copy in place and then writes.  The event loop goes on      *)
(* meanwhile and afterwards builds and executes the mirror's transaction.  *)
(* The file is what a reading of it yields (the highest revision of each   *)
(* notice), the number of its lines and whether the last one lacks its     *)
(* end; a line that lacks no more than its end is taken to be torn.  A     *)
(* request takes its time stamp, here its number, before it waits for the  *)
(* lock.                                                                   *)
(***************************************************************************)
EXTENDS Naturals, FiniteSets

CONSTANTS Ids, Replicas,
          Tasks,         \* coroutines that change notices or repeat the mirror
          Home,          \* the replica of a task
          None,          \* no record
          MaxActive, MaxHistory, CompactAfter,   \* notice_active_max, notice_history_max, ...
          MaxTexts,      \* bound: texts of a draft
          MaxChanges,    \* bound: changes asked for
          MaxMishaps     \* bound: writes, mirrors and starts that fail, deaths of a replica

ASSUME BoundsAssumption ==
  /\ MaxActive \in Nat \ {0} /\ MaxHistory \in Nat \ {0} /\ CompactAfter \in Nat \ {0, 1}
  /\ MaxTexts \in Nat \ {0} /\ MaxChanges \in Nat /\ MaxMishaps \in Nat
  /\ IsFiniteSet(Ids) /\ Home \in [Tasks -> Replicas]

\* A NoticeRecord; at is archived_at.
Texts   == 1..MaxTexts
Records == [status : {"draft", "active", "archived"}, text : Texts,
            rev : Nat \ {0}, at : 0..MaxChanges]
First == [status |-> "active", text |-> 1, rev |-> 1, at |-> 0]
Gone  == [First EXCEPT !.status = "deleted"]
ASSUME NoneAssumption ==
  None \notin Records \cup {Gone} \cup [status : {"draft", "active", "archived"}, text : Texts]

VARIABLES disk,      \* the file
          mem,       \* self.records of each replica
          current,   \* does the file's stat equal _state_signature?
          dirty,     \* redis_dirty
          boot,      \* how far initialize() is
          task,      \* what each task is doing
          mirror,    \* the hash in Redis
          born,      \* uuids given out
          latest,    \* history: what the last whole write said of each notice
          torn,      \* history: has a line been torn?
          overlap,   \* history: has a restore met another replica's file or write?
          refused,   \* history: has a write failed?
          changes, mishaps

memVars    == <<mem, current>>
fileVars   == <<disk, latest, torn, overlap, refused>>
countVars  == <<born, changes, mishaps>>
mirrorVars == <<mirror, dirty>>
vars == <<memVars, fileVars, mirrorVars, boot, task, countVars>>

Maps  == [Ids -> Records \cup {None}]
Empty == [n \in Ids |-> None]
\* No more lines than the bound, or than a restored file with one line more.
Longest == IF CompactAfter > Cardinality(Ids) THEN CompactAfter ELSE Cardinality(Ids) + 1
Files == [there : BOOLEAN, kept : Maps, raw : 0..Longest, open : BOOLEAN]

\* "asked": has its stamp, waits for the lock; "write": holds it, has changed the copy and will
\* write rec (None: a deletion); "mirror": the change is in the file; "exec": the transaction
\* for the mirror is built from snap.
NoTask == [at |-> "idle", stamp |-> 0, id |-> None, rec |-> None, compact |-> FALSE, snap |-> Empty]
TaskStates == [at : {"idle", "asked", "write", "mirror", "exec"}, stamp : 0..MaxChanges,
               id : Ids \cup {None}, rec : Records \cup {None}, compact : BOOLEAN, snap : Maps]

\* Types of all variables.
TypeOK ==
  /\ disk \in Files /\ mirror \in Maps /\ latest \in [Ids -> Records \cup {None, Gone}]
  /\ mem \in [Replicas -> Maps] /\ current \in [Replicas -> BOOLEAN]
  /\ dirty \in [Replicas -> BOOLEAN]
  /\ boot \in [Replicas -> {"down", "check", "fetch", "compact", "mirror", "up"}]
  /\ task \in [Tasks -> TaskStates] /\ born \subseteq Ids
  /\ torn \in BOOLEAN /\ overlap \in BOOLEAN /\ refused \in BOOLEAN
  /\ changes \in 0..MaxChanges /\ mishaps \in 0..MaxMishaps

Known(R)  == {n \in Ids : R[n] # None}
Active(R) == {n \in Ids : R[n] # None /\ R[n].status = "active"}
Archived(R) == {n \in Ids : R[n] # None /\ R[n].status = "archived"}

\* The service starts with no file, and what an earlier life may have left in Redis.
Init ==
  /\ \E left \in {S \in SUBSET Ids : Cardinality(S) <= 1} :
       /\ mirror = [n \in Ids |-> IF n \in left THEN First ELSE None]
       /\ born = left
  /\ disk = [there |-> FALSE, kept |-> Empty, raw |-> 0, open |-> FALSE]
  /\ mem = [r \in Replicas |-> Empty]
  /\ current = [r \in Replicas |-> FALSE]
  /\ dirty = [r \in Replicas |-> TRUE] /\ boot = [r \in Replicas |-> "down"]
  /\ task = [t \in Tasks |-> NoTask]
  /\ latest = Empty /\ torn = FALSE /\ overlap = FALSE /\ refused = FALSE
  /\ changes = 0 /\ mishaps = 0

-----------------------------------------------------------------------------
(* The file and the copies.                                                *)

Writing == {t \in Tasks : task[t].at = "write"}

\* _prune_history(): the archived ones beyond the newest MaxHistory.
Pruned(R) ==
  [n \in Ids |-> IF /\ n \in Archived(R)
                    /\ Cardinality({m \in Archived(R) : R[m].at > R[n].at}) >= MaxHistory
                 THEN None ELSE R[n]]

\* _refresh(), with a lock that shuts out writers.
Refreshed(r) == mem' = [mem EXCEPT ![r] = Pruned(disk.kept)] /\ current' = [current EXCEPT ![r] = TRUE]
FileChanged  == current' = [r \in Replicas |-> FALSE]

\* _compact_locked(), and an appended line; the line joins one that was torn.
Compacted(R) == [there |-> TRUE, kept |-> R, raw |-> Cardinality(Known(R)), open |-> FALSE]
Newer(old, new) == IF old = None \/ new.rev > old.rev THEN new ELSE old
Appended(n, rec) ==
  IF disk.open THEN [disk EXCEPT !.open = FALSE]
  ELSE [there |-> TRUE, kept |-> [disk.kept EXCEPT ![n] = Newer(@, rec)],
        raw |-> disk.raw + 1, open |-> FALSE]
Torn == [there |-> TRUE, kept |-> disk.kept, raw |-> IF disk.open THEN disk.raw ELSE disk.raw + 1,
         open |-> TRUE]

\* Mutant: the stat of the file is not looked at.
ServedAnyway(r) == TRUE

\* _read_shared() may go on with the copy it has; how old the copy may get is left open.
Served(r) == current[r]

Read(r) ==
  /\ boot[r] = "up" /\ Writing = {} /\ Refreshed(r)
  /\ UNCHANGED <<fileVars, mirrorVars, boot, task, countVars>>

-----------------------------------------------------------------------------
(* Changes: _mutate() up to the write.                                     *)

Fresh == Pruned(disk.kept)

Room(R) == Cardinality(Active(R)) < MaxActive

ManyLines(R) == Cardinality(Known(R)) >= CompactAfter \/ disk.raw + 1 >= CompactAfter

\* A request for a change.
Ask(t) ==
  /\ task[t].at = "idle" /\ boot[Home[t]] = "up"
  /\ changes < MaxChanges /\ changes' = changes + 1
  /\ task' = [task EXCEPT ![t] = [NoTask EXCEPT !.at = "asked", !.stamp = changes']]
  /\ UNCHANGED <<memVars, fileVars, mirrorVars, boot, born, mishaps>>

\* Mutant: the lock is not waited for.
LockedWithoutWait(t) == task[t].at = "asked"

Locked(t) == task[t].at = "asked" /\ Writing = {}

\* The copy now has what is about to be written.
Begins(t, n, R, rec, compact) ==
  /\ Locked(t)
  /\ mem' = [mem EXCEPT ![Home[t]] = R] /\ current' = [current EXCEPT ![Home[t]] = TRUE]
  /\ task' = [task EXCEPT ![t] = [NoTask EXCEPT !.at = "write", !.id = n, !.rec = rec,
                                                !.compact = compact \/ ManyLines(R)]]
  /\ UNCHANGED <<fileVars, mirrorVars, boot, changes, mishaps>>

Puts(t, n, rec) == Begins(t, n, Pruned([Fresh EXCEPT ![n] = rec]), rec, FALSE)

Create(t, n, status) ==
  /\ n \notin born /\ born' = born \cup {n}
  /\ status = "active" => Room(Fresh)
  /\ Puts(t, n, [First EXCEPT !.status = status])

Allowed == {<<"draft", "draft">>, <<"draft", "active">>, <<"active", "active">>,
            <<"active", "archived">>, <<"archived", "archived">>, <<"archived", "active">>}

\* Mutant: the revision stays.
UpdatedSilently(old, status, edits, stamp) ==
  [old EXCEPT !.status = status, !.text = IF edits THEN @ + 1 ELSE @,
              !.at = IF status = "archived" THEN stamp ELSE 0]

Updated(old, status, edits, stamp) ==
  [status |-> status, text |-> IF edits THEN old.text + 1 ELSE old.text, rev |-> old.rev + 1,
   at |-> IF status = "archived" THEN stamp ELSE 0]

\* Content and level of a notice change while it is a draft, its status along Allowed.
Update(t, n, status, edits) ==
  /\ n \in Known(Fresh)
  /\ LET old == Fresh[n] IN
       /\ edits => old.status = "draft" /\ old.text < MaxTexts
       /\ <<old.status, status>> \in Allowed
       /\ status = "active" /\ old.status # "active" => Room(Fresh)
       /\ Puts(t, n, Updated(old, status, edits, task[t].stamp))
  /\ UNCHANGED born

\* Mutant: a published notice is deleted, too.
DeletableAlways(R) == {n \in Ids : R[n] # None}

Deletable(R) == {n \in Ids : R[n] # None /\ R[n].status = "draft"}

Delete(t, n) ==
  /\ n \in Deletable(Fresh)
  /\ Begins(t, n, [Fresh EXCEPT ![n] = None], None, TRUE)
  /\ UNCHANGED born

\* The operation raises a NoticeError; the copy has been read again.
Refuse(t) ==
  /\ Locked(t) /\ Refreshed(Home[t]) /\ task' = [task EXCEPT ![t] = NoTask]
  /\ UNCHANGED <<fileVars, mirrorVars, boot, countVars>>

-----------------------------------------------------------------------------
(* The write, and its failures.                                            *)

\* What happens to the file, and what it says then, when the write ends.
WritesWhole(t) ==
  LET n == task[t].id
      rec == task[t].rec
  IN /\ disk' = IF task[t].compact THEN Compacted(mem[Home[t]]) ELSE Appended(n, rec)
     /\ latest' = [latest EXCEPT ![n] = IF rec = None THEN Gone ELSE rec]
     /\ FileChanged /\ UNCHANGED torn
WritesPart(t) == /\ ~task[t].compact
                 /\ disk' = Torn /\ torn' = TRUE /\ FileChanged /\ UNCHANGED latest
WritesNothing == UNCHANGED <<disk, latest, torn, current>>

Write(t) ==
  /\ task[t].at = "write" /\ WritesWhole(t)
  /\ task' = [task EXCEPT ![t].at = "mirror"]
  /\ UNCHANGED <<mem, overlap, refused, mirrorVars, boot, countVars>>

Fails == mishaps < MaxMishaps /\ mishaps' = mishaps + 1

\* An OSError: of the write, or of fsync after it.
WriteFails(t) ==
  /\ task[t].at = "write" /\ Fails /\ refused' = TRUE
  /\ WritesNothing \/ WritesPart(t) \/ (~task[t].compact /\ WritesWhole(t))
  /\ task' = [task EXCEPT ![t] = NoTask]
  /\ UNCHANGED <<mem, overlap, mirrorVars, boot, born, changes>>

-----------------------------------------------------------------------------
(* The mirror: _sync_redis().                                              *)

Builds(t) == task' = [task EXCEPT ![t] = [NoTask EXCEPT !.at = "exec", !.snap = mem[Home[t]]]]

MirrorAfterWrite(t) ==
  /\ task[t].at = "mirror" /\ Builds(t)
  /\ UNCHANGED <<memVars, fileVars, mirrorVars, boot, countVars>>

\* sync_redis() of the periodic task.
Backup(t) ==
  /\ task[t].at = "idle" /\ boot[Home[t]] = "up" /\ dirty[Home[t]] /\ Builds(t)
  /\ UNCHANGED <<memVars, fileVars, mirrorVars, boot, countVars>>

Mirrored(r, R) == mirror' = R /\ dirty' = [dirty EXCEPT ![r] = FALSE] /\ UNCHANGED mishaps
\* The transaction, or only its reply, is lost.
NotMirrored(r, R) == mirror' \in {mirror, R} /\ dirty' = [dirty EXCEPT ![r] = TRUE] /\ Fails

Exec(t) ==
  /\ task[t].at = "exec" /\ task' = [task EXCEPT ![t] = NoTask]
  /\ Mirrored(Home[t], task[t].snap) \/ NotMirrored(Home[t], task[t].snap)
  /\ UNCHANGED <<memVars, fileVars, boot, born, changes>>

-----------------------------------------------------------------------------
(* initialize(), and the death of a replica.                               *)

BootGoes(r, point) == boot' = [boot EXCEPT ![r] = point]

BootRead(r) ==
  /\ boot[r] = "down" /\ Writing = {} /\ Refreshed(r) /\ BootGoes(r, "check")
  /\ UNCHANGED <<fileVars, mirrorVars, task, countVars>>

BootCheck(r) ==
  /\ boot[r] = "check" /\ BootGoes(r, IF disk.there THEN "mirror" ELSE "fetch")
  /\ UNCHANGED <<memVars, fileVars, mirrorVars, task, countVars>>

BootFetch(r) ==
  /\ boot[r] = "fetch"
  /\ \/ mirror = Empty /\ BootGoes(r, "mirror") /\ UNCHANGED mem
     \/ mirror # Empty /\ BootGoes(r, "compact") /\ mem' = [mem EXCEPT ![r] = mirror]
  /\ UNCHANGED <<current, fileVars, mirrorVars, task, countVars>>

\* The file is written without its lock.
BootCompact(r) ==
  /\ boot[r] = "compact" /\ BootGoes(r, "mirror")
  /\ disk' = Compacted(mem[r]) /\ FileChanged
  /\ overlap' = (overlap \/ disk.there \/ Writing # {})
  /\ UNCHANGED <<mem, latest, torn, refused, mirrorVars, task, countVars>>

BootMirror(r) ==
  /\ boot[r] = "mirror" /\ BootGoes(r, "up")
  /\ Mirrored(r, mem[r]) \/ NotMirrored(r, mem[r])
  /\ UNCHANGED <<memVars, fileVars, task, born, changes>>

\* An exception before the mirror; the service starts nevertheless.
BootGivesUp(r) ==
  /\ boot[r] \in {"down", "fetch", "compact"} /\ BootGoes(r, "up") /\ Fails
  /\ refused' = TRUE
  /\ UNCHANGED <<memVars, disk, latest, torn, overlap, mirrorVars, task, born, changes>>

\* A write ends in any state, and so may a transaction that was under way.
Crash(r) ==
  /\ boot[r] # "down" /\ Fails
  /\ LET own == {t \in Tasks : Home[t] = r}
         writers == own \cap Writing
     IN /\ \/ UNCHANGED <<disk, latest, torn>> /\ current' = [current EXCEPT ![r] = FALSE]
           \/ \E t \in writers : WritesPart(t) \/ WritesWhole(t)
        /\ mirror' \in {mirror} \cup {task[t].snap : t \in {s \in own : task[s].at = "exec"}}
        /\ task' = [t \in Tasks |-> IF t \in own THEN NoTask ELSE task[t]]
  /\ mem' = [mem EXCEPT ![r] = Empty]
  /\ dirty' = [dirty EXCEPT ![r] = TRUE] /\ BootGoes(r, "down")
  /\ UNCHANGED <<overlap, refused, born, changes>>

-----------------------------------------------------------------------------
Changes(t) == \E n \in Ids :
  \/ \E s \in {"draft", "active"} : Create(t, n, s)
  \/ \E s \in {"draft", "active", "archived"}, e \in BOOLEAN : Update(t, n, s, e)
  \/ Delete(t, n)

Starts(r) == \/ BootRead(r) \/ BootCheck(r) \/ BootFetch(r) \/ BootCompact(r) \/ BootMirror(r)
             \/ BootGivesUp(r)

Next ==
  \/ \E t \in Tasks : \/ Ask(t) \/ Changes(t) \/ Refuse(t) \/ Write(t) \/ WriteFails(t)
                      \/ MirrorAfterWrite(t) \/ Backup(t) \/ Exec(t)
  \/ \E r \in Replicas : Read(r) \/ Starts(r) \/ Crash(r)

Spec == Init /\ [][Next]_vars

-----------------------------------------------------------------------------
(* What must hold.                                                         *)

\* At most notice_active_max notices are active, in the file, for the readers of any replica
\* and in what a restore would bring back, through torn lines, failed writes and deaths
\* (README: 同时上线最多); only a restore that meets another replica's file or write can break it.
ActiveLimit ==
  ~overlap => \A R \in {disk.kept, mirror} \cup {mem[r] : r \in Replicas} :
                Cardinality(Active(R)) <= MaxActive

\* The file goes on saying what the last whole write said of each notice, and a deleted one
\* stays away; only archived ones are forgotten.
WritesKept ==
  ~torn /\ ~overlap => \A n \in Ids : latest[n] # None =>
    \/ disk.kept[n] = latest[n]
    \/ disk.kept[n] = None /\ (latest[n] = Gone \/ latest[n].status = "archived")

\* A copy that is served without reading the file shows what the file says, unless its replica
\* is changing it or a change was refused by the file system (the copy keeps it for a while).
ServedIsWritten ==
  \A r \in Replicas :
    /\ boot[r] = "up" /\ Served(r) /\ ~refused
    /\ \A t \in Writing : Home[t] # r
    => mem[r] = Pruned(disk.kept)

\* The file is the abstract board: nothing published is edited, deleted or a draft again, and
\* it is forgotten only with a full history, although every replica decides by its own reading
\* and stamps may be older than the changes before.
Public(rec) == IF rec = None THEN None ELSE [status |-> rec.status, text |-> rec.text]
Plain(R) == [n \in Ids |-> Public(R[n])]
Board == INSTANCE NoticeBoard WITH board <- Plain(disk.kept)
KeepsBoard == [][~torn' /\ ~overlap' => Board!Next \/ UNCHANGED disk.kept]_vars
=============================================================================
