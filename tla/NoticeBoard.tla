---------------------------- MODULE NoticeBoard ----------------------------
(***************************************************************************)
(* What the notices promise, whatever file, copies and mirror are behind   *)
(* them: one board that changes by one notice at a time.  A notice that    *)
(* has been published keeps its text and is never a draft again, and it is *)
(* forgotten only for MaxHistory archived ones; only drafts are deleted,   *)
(* and at most MaxActive are active.                                       *)
(***************************************************************************)
EXTENDS Naturals, FiniteSets

CONSTANTS Ids, Texts, MaxActive, MaxHistory, None

VARIABLE board   \* what is known of each notice

Shown == [status : {"draft", "active", "archived"}, text : Texts]
Are(status, b) == {n \in Ids : b[n] # None /\ b[n].status = status}
Boards == {b \in [Ids -> Shown \cup {None}] : Cardinality(Are("active", b)) <= MaxActive}

Init == board \in Boards

Published(old, new) == new # None /\ new.text = old.text /\ new.status # "draft"
Legal(old, new) ==
  \/ old = None /\ new # None /\ new.status \in {"draft", "active"}
  \/ old # None /\ old.status = "draft" /\ (new = None \/ new.status \in {"draft", "active"})
  \/ old # None /\ old.status # "draft" /\ Published(old, new)

\* Is the history full before or after a change from b to c?
Full(b, c) == \/ Cardinality(Are("archived", b)) > MaxHistory
              \/ Cardinality(Are("archived", c)) >= MaxHistory

\* Notice n changes, and archived ones (n, too) may be forgotten with it.
Changed(n, b, c) ==
  /\ Legal(b[n], c[n]) \/ (b[n] # None /\ b[n].status # "draft" /\ c[n] = None /\ Full(b, c))
  /\ \A m \in Ids \ {n} :
       c[m] = b[m] \/ (b[m] # None /\ b[m].status = "archived" /\ c[m] = None /\ Full(b, c))

Change == /\ \E n \in Ids : Changed(n, board, board')
          /\ Cardinality(Are("active", board')) <= MaxActive

\* A board that was lost is rebuilt from a copy.
Restore == board = [n \in Ids |-> None] /\ board' \in Boards

Next == Change \/ Restore
Spec == Init /\ [][Next]_board
=============================================================================
