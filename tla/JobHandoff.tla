----------------------------- MODULE JobHandoff -----------------------------
(***************************************************************************)
(* What the asynchronous queue promises about handing jobs to workers: a   *)
(* job is offered at most once, taken by at most one worker, and never     *)
(* comes back once it has been taken.  It says nothing of Redis, of locks, *)
(* of statuses or of time; JobQueue implements it as long as its claim     *)
(* lock outlives the critical section.                                     *)
(***************************************************************************)
EXTENDS Integers

CONSTANTS Workers, Jobs

VARIABLES unborn,   \* jobs that may still be offered
          waiting,  \* jobs offered and not taken
          held      \* the job each worker has taken, or 0

handoffVars == <<unborn, waiting, held>>

Init == /\ unborn = Jobs
        /\ waiting = {}
        /\ held = [w \in Workers |-> 0]

\* A submission is accepted: its job waits for a worker.
Offer(j) == /\ j \in unborn
            /\ unborn' = unborn \ {j}
            /\ waiting' = waiting \cup {j}
            /\ UNCHANGED held

\* A submission is refused, deduplicated or lost: its job id is never used.
Discard(j) == /\ j \in unborn
              /\ unborn' = unborn \ {j}
              /\ UNCHANGED <<waiting, held>>

\* A worker takes a waiting job; nobody else can take it afterwards.
Take(w, j) == /\ held[w] = 0
              /\ j \in waiting
              /\ waiting' = waiting \ {j}
              /\ held' = [held EXCEPT ![w] = j]
              /\ UNCHANGED unborn

\* The worker is done with its job, or died.
Drop(w) == /\ held[w] # 0
           /\ held' = [held EXCEPT ![w] = 0]
           /\ UNCHANGED <<unborn, waiting>>

Next == \/ \E j \in Jobs : Offer(j) \/ Discard(j)
        \/ \E w \in Workers : Drop(w) \/ \E j \in Jobs : Take(w, j)

Spec == Init /\ [][Next]_handoffVars
=============================================================================
