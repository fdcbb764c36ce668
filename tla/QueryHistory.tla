---------------------------- MODULE QueryHistory ----------------------------
(***************************************************************************)
(* The log of finished queries: each replica appends to a rotating JSONL   *)
(* file of its own (app/querylog.py), keeps the newest entries in memory   *)
(* and adds them to one sorted set in Redis (app/history.py); app/main.py  *)
(* writes an entry to all of them and replays the file into Redis when a   *)
(* write to Redis has failed, and once at the start.                       *)
(*                                                                         *)
(* Entries are numbered in the order of their time stamps, which is their  *)
(* score.  The history is bounded: Limit entries in Redis, in memory and   *)
(* read back from the file.                                                *)
(***************************************************************************)
EXTENDS Integers, FiniteSets, SequencesExt

CONSTANTS Replicas,
          Nobody,        \* not a replica
          Limit,         \* of RedisEventHistory, MemoryEventHistory and the replay
          MaxLines,      \* lines that make a file as large as max_bytes
          Backups,       \* backup_count
          MaxEntries, MaxFaults, MaxCrashes   \* bounds: queries logged, failed writes, deaths

ASSUME HistoryBounds ==
  /\ Nobody \notin Replicas
  /\ Limit \in Nat \ {0} /\ MaxLines \in Nat \ {0} /\ Backups \in Nat
  /\ MaxEntries \in Nat /\ MaxFaults \in Nat /\ MaxCrashes \in Nat

VARIABLES made,      \* entries so far
          home,      \* the replica an entry was made on
          step,      \* where _record_query_log is with an entry
          files,     \* the files of a replica: the current one, then .1, .2, ...
          memory,    \* local_history of a replica, in the deque's order
          redis,     \* the members of gw:v2:query-logs
          mode,      \* is the replica down, starting or serving
          dirty,     \* history_dirty
          replay,    \* the lines a replay has read and is about to write, newest first
          blind,     \* history: a replay failed at the start, missed an entry or read old lines
          faults, crashes

entryVars   == <<made, home, step>>
replicaVars == <<mode, dirty, replay, blind>>
countVars   == <<faults, crashes>>
historyVars == <<entryVars, files, memory, redis, replicaVars, countVars>>

Entries == 1..MaxEntries
Steps   == {"none", "file", "redis", "done", "lost"}
Idle    == <<0>>     \* no replay: no entry has the number 0

\* Types of all variables; every store of the history is bounded.
HistoryTypeOK ==
  /\ made \in 0..MaxEntries
  /\ home \in [Entries -> Replicas \cup {Nobody}] /\ step \in [Entries -> Steps]
  /\ files \in [Replicas -> Seq(Seq(Entries))] /\ \A r \in Replicas : Len(files[r]) \in 1..(Backups + 1)
  /\ memory \in [Replicas -> Seq(Entries)] /\ \A r \in Replicas : Len(memory[r]) <= Limit
  /\ redis \subseteq Entries /\ Cardinality(redis) <= Limit
  /\ mode \in [Replicas -> {"down", "boot", "up"}]
  /\ dirty \in [Replicas -> BOOLEAN] /\ blind \in [Replicas -> BOOLEAN]
  /\ replay \in [Replicas -> Seq(Entries) \cup {Idle}]
  /\ faults \in 0..MaxFaults /\ crashes \in 0..MaxCrashes

HistoryInit ==
  /\ made = 0 /\ home = [e \in Entries |-> Nobody] /\ step = [e \in Entries |-> "none"]
  /\ files = [r \in Replicas |-> << <<>> >>] /\ memory = [r \in Replicas |-> <<>>]
  /\ redis = {}
  /\ mode = [r \in Replicas |-> "down"] /\ dirty = [r \in Replicas |-> TRUE]
  /\ replay = [r \in Replicas |-> Idle] /\ blind = [r \in Replicas |-> FALSE]
  /\ faults = 0 /\ crashes = 0

-----------------------------------------------------------------------------
(* The stores.                                                             *)

Take(s, n) == SubSeq(s, 1, IF n < Len(s) THEN n ELSE Len(s))
Newer(S, e) == {f \in S : f > e}

\* Mutant: the trim keeps one entry less.
TrimmedShort(S) == {e \in S : Cardinality(Newer(S, e)) < Limit - 1}
\* ZREMRANGEBYRANK key 0 -(limit + 1): the Limit highest scores stay.
Trimmed(S) == {e \in S : Cardinality(Newer(S, e)) < Limit}

\* The deque of the memory: an entry moves to the end, and the front falls out.
Remembered(s, e) ==
  LET t == Append(SelectSeq(s, LAMBDA f : f # e), e)
  IN  IF Len(t) > Limit THEN Tail(t) ELSE t

\* The file is moved to .1, .1 to .2 and so on; without backups it is removed.
Rotated(fs) == IF Len(fs[1]) < MaxLines THEN fs ELSE Take(<< <<>> >> \o fs, Backups + 1)
Written(fs, e) == [Rotated(fs) EXCEPT ![1] = Append(@, e)]

\* archive_files(): the backups from the highest number down, the current file last; each
\* is read from its end.  _read_recent_file_logs stops after Limit entries.
Lines(fs)    == FlattenSeq([i \in 1..Len(fs) |-> Reverse(Reverse(fs)[i])])
ReadBack(fs) == Take(Lines(fs), Limit)

\* What the replay is to read, by its docstring (main.py:322): the Limit lines written last,
\* wherever they are.  A place is the number of a file and of a line in it.
Places(fs)   == UNION {{i} \X DOMAIN fs[i] : i \in DOMAIN fs}
Later(fs, p) == {q \in Places(fs) : q[1] < p[1] \/ (q[1] = p[1] /\ q[2] > p[2])}
NewestLines(fs)   == {fs[p[1]][p[2]] : p \in {q \in Places(fs) : Cardinality(Later(fs, q)) < Limit}}

-----------------------------------------------------------------------------
(* _record_query_log: memory, file, Redis.                                 *)

LogQuery(r) ==
  /\ mode[r] = "up" /\ made < MaxEntries
  /\ made' = made + 1
  /\ home' = [home EXCEPT ![made + 1] = r] /\ step' = [step EXCEPT ![made + 1] = "file"]
  /\ memory' = [memory EXCEPT ![r] = Remembered(@, made + 1)]
  /\ UNCHANGED <<files, redis, replicaVars, countVars>>

Reaches(e, s) == step' = [step EXCEPT ![e] = s] /\ UNCHANGED <<made, home>>

WriteFile(e) ==
  /\ step[e] = "file" /\ Reaches(e, "redis")
  /\ files' = [files EXCEPT ![home[e]] = Written(@, e)]
  /\ UNCHANGED <<memory, redis, replicaVars, countVars>>

\* The failure is logged; last_error shows it.
WriteFileFails(e) ==
  /\ step[e] = "file" /\ Reaches(e, "redis")
  /\ faults < MaxFaults /\ faults' = faults + 1
  /\ UNCHANGED <<files, memory, redis, replicaVars, crashes>>

WriteRedis(e) ==
  /\ step[e] = "redis" /\ Reaches(e, "done")
  /\ redis' = Trimmed(redis \cup {e})
  /\ UNCHANGED <<files, memory, replicaVars, countVars>>

InReplay(r, e) == e \in ToSet(replay[r])

\* Mutant: the failure leaves the flag alone.
KeepsFlag(r) == UNCHANGED dirty
\* history_dirty = True
RaisesFlag(r) == dirty' = [dirty EXCEPT ![r] = TRUE]

\* An error or the timeout, which may come after Redis has done the transaction.  A replay
\* under way will clear the flag without having seen the entry.
WriteRedisFails(e) ==
  /\ step[e] = "redis" /\ Reaches(e, "done")
  /\ faults < MaxFaults /\ faults' = faults + 1
  /\ redis' \in {redis, Trimmed(redis \cup {e})}
  /\ RaisesFlag(home[e])
  /\ blind' = [blind EXCEPT ![home[e]] = @ \/ (replay[home[e]] # Idle /\ ~InReplay(home[e], e))]
  /\ UNCHANGED <<files, memory, mode, replay, crashes>>

-----------------------------------------------------------------------------
(* _sync_history_from_file, at the start and from the periodic task.       *)

\* The lines are read in a thread, and fill the memory from the newest on.  Of a file with
\* backups they are not the newest.
ReplayReads(r) ==
  /\ \/ mode[r] = "boot"
     \/ mode[r] = "up" /\ dirty[r]
  /\ replay[r] = Idle
  /\ replay' = [replay EXCEPT ![r] = ReadBack(files[r])]
  /\ memory' = [memory EXCEPT ![r] = FoldLeft(Remembered, @, ReadBack(files[r]))]
  /\ blind' = [blind EXCEPT ![r] = ToSet(ReadBack(files[r])) # NewestLines(files[r])]
  /\ UNCHANGED <<entryVars, files, redis, mode, dirty, countVars>>

Served(r)     == mode' = [mode EXCEPT ![r] = "up"]
ReplayOver(r) == replay' = [replay EXCEPT ![r] = Idle]

\* Mutant: the replay writes the newest line only.
SeededNewest(r) == Trimmed(redis \cup ToSet(Take(replay[r], 1)))
\* seed_newest: ZADD NX of all lines and the trim, in one transaction.
Seeded(r) == Trimmed(redis \cup ToSet(replay[r]))

ReplayWrites(r) ==
  /\ replay[r] # Idle
  /\ redis' = Seeded(r)
  /\ dirty' = [dirty EXCEPT ![r] = FALSE]
  /\ ReplayOver(r) /\ Served(r)
  /\ UNCHANGED <<entryVars, files, memory, blind, countVars>>

\* At the start the flag is cleared all the same, and the replica serves.
ReplayFails(r) ==
  /\ replay[r] # Idle
  /\ faults < MaxFaults /\ faults' = faults + 1
  /\ redis' \in {redis, Seeded(r)}
  /\ ReplayOver(r) /\ Served(r)
  /\ IF mode[r] = "boot"
     THEN dirty' = [dirty EXCEPT ![r] = FALSE] /\ blind' = [blind EXCEPT ![r] = TRUE]
     ELSE UNCHANGED <<dirty, blind>>
  /\ UNCHANGED <<entryVars, files, memory, crashes>>

-----------------------------------------------------------------------------
Start(r) ==
  /\ mode[r] = "down" /\ mode' = [mode EXCEPT ![r] = "boot"]
  /\ UNCHANGED <<entryVars, files, memory, redis, dirty, replay, blind, countVars>>

InFlight(r) == {e \in Entries : home[e] = r /\ step[e] \in {"file", "redis"}}

\* What a process has in memory is gone; files and Redis stay.
Crash(r) ==
  /\ mode[r] # "down" /\ crashes < MaxCrashes /\ crashes' = crashes + 1
  /\ mode' = [mode EXCEPT ![r] = "down"] /\ ReplayOver(r) /\ RaisesFlag(r)
  /\ step' = [e \in Entries |-> IF e \in InFlight(r) THEN "lost" ELSE step[e]]
  /\ memory' = [memory EXCEPT ![r] = <<>>]
  /\ UNCHANGED <<made, home, files, redis, blind, faults>>

Records(e) == WriteFile(e) \/ WriteFileFails(e) \/ WriteRedis(e) \/ WriteRedisFails(e)
Replays(r) == ReplayReads(r) \/ ReplayWrites(r) \/ ReplayFails(r)

HistoryNext ==
  \/ \E r \in Replicas : LogQuery(r) \/ Replays(r) \/ Start(r) \/ Crash(r)
  \/ \E e \in Entries : Records(e)

\* Coroutines are scheduled, the periodic task wakes up for ever and a replica is restarted;
\* the bound of the faults stands for a Redis that is reachable in the end.
Works(r) == Start(r) \/ Replays(r)
HistoryFairness ==
  /\ \A r \in Replicas : WF_historyVars(Works(r))
  /\ WF_historyVars(\E e \in Entries : Records(e))
HistorySpec == HistoryInit /\ [][HistoryNext]_historyVars /\ HistoryFairness

-----------------------------------------------------------------------------
(* Properties.                                                             *)

\* The shared history has the entry, or Limit newer ones instead.
InHistory(e) == e \in redis \/ Cardinality(Newer(redis, e)) >= Limit

\* Whatever order the replicas' writes and replays of old lines arrive in, the shared history
\* only ever gives up an entry for Limit newer ones (history.py:88, 109).
KeepsNewest == [][\A e \in Entries : InHistory(e) => InHistory(e)']_historyVars

InLog(r) == NewestLines(files[r])

\* history_dirty tells the truth: while it is FALSE, the lines written last to a replica's
\* files are in the shared history as soon as their writing is over, through rotations, crashes
\* and failed writes (main.py:587-622, 845).  What the replays of the code lose is excused by
\* name (blind): one that failed at the start, one that an entry of another failed write went
\* past, and one that read a rotated file, which starts with the oldest backup.
CleanMeansShared ==
  \A r \in Replicas :
    mode[r] = "up" /\ ~dirty[r] /\ ~blind[r] =>
      \A e \in InLog(r) : step[e] \in {"done", "lost"} => InHistory(e)

Behind(r) == \E e \in InLog(r) : ~InHistory(e)

\* Once Redis stays reachable, the shared history catches up with the lines written last to
\* every replica's files, unless its last replay was one of the three.
CatchesUp == (\E r \in Replicas : Behind(r)) ~> \A r \in Replicas : Behind(r) => blind[r]
=============================================================================
