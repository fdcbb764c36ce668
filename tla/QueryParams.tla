----------------------------- MODULE QueryParams ----------------------------
(***************************************************************************)
(* The semesters and weeks of a query: what a request asks the school for, *)
(* the key under which the answer is kept, and the link to the document    *)
(* with the same weeks (jwxt_core.py).                                     *)
(*                                                                         *)
(* A semester is a number, a later one a greater; the parameter is the     *)
(* sequence of its parts between commas, and whether there is a comma; All *)
(* stands for "all" and -n for "recent:n".  The weeks are a sequence of    *)
(* segments: <<a, b>> for "a-b", <<a>> for "a", <<>> for what cannot be    *)
(* read; not given is None, "" or "all".                                   *)
(***************************************************************************)
EXTENDS Integers, Sequences, FiniteSets

CONSTANTS MaxSemesters,                   \* MAX_SEMESTERS
          WeekMax, MaxSegments, MaxWeeks, \* WEEK_MAX, MAX_WEEK_SEGMENTS, MAX_WEEKS_TOTAL
          DefaultWeeks                    \* the weeks of a request that names none: 1 to 25

\* Every week can be named by a segment of its own.
ASSUME WeeksAssumption ==
  /\ {MaxSemesters, WeekMax, DefaultWeeks} \subseteq Nat \ {0}
  /\ MaxSegments \in Nat /\ MaxSegments >= WeekMax /\ MaxWeeks \in Nat /\ MaxWeeks >= WeekMax

All == 0

SetOf(s)   == {s[i] : i \in DOMAIN s}
UpTo(s, n) == SubSeq(s, 1, IF Len(s) < n THEN Len(s) ELSE n)

-----------------------------------------------------------------------------
(* Semesters.                                                              *)

Within(n) == IF n < 1 THEN 1 ELSE IF n > MaxSemesters THEN MaxSemesters ELSE n

\* main(): semesters lists all there are, the latest first.  A comma after "recent:n" makes its
\* number unreadable.
AskedSemesters(p, current, semesters) ==
  LET past == SelectSeq(semesters, LAMBDA x : x <= current)
  IN  IF p.parts = <<>> THEN IF p.comma THEN {} ELSE {current}
      ELSE IF ~p.comma /\ p.parts[1] = All THEN SetOf(past)
      ELSE IF p.parts[1] < 0 THEN SetOf(UpTo(past, IF p.comma THEN 1 ELSE Within(-p.parts[1])))
      ELSE SetOf(UpTo(p.parts, MaxSemesters))

\* _norm_semesters_key
SemestersKey(p) == SetOf(p.parts)

-----------------------------------------------------------------------------
(* Weeks.                                                                  *)

\* _clamp_week
Clamp(n) == IF n < 1 THEN 1 ELSE IF n > WeekMax THEN WeekMax ELSE n

\* Mutant: a range that runs backwards is empty.
RangeAsGiven(a, b) == [i \in 1..(IF b < a THEN 0 ELSE b - a + 1) |-> a + i - 1]
RangeOf(a, b) == IF b < a THEN RangeAsGiven(b, a) ELSE RangeAsGiven(a, b)

OfSegment(s) ==
  IF s = <<>> THEN <<>>
  ELSE IF Len(s) = 1 THEN <<Clamp(s[1])>> ELSE RangeOf(Clamp(s[1]), Clamp(s[2]))

\* _parse_weeks: the segments one after the other until there are enough weeks, the same week
\* counted as often as it is named; none at all is None.
ParsedWeeks(segments) ==
  LET read == UpTo(segments, MaxSegments)
      out[i \in 0..Len(read)] == IF i = 0 THEN <<>> ELSE out[i - 1] \o OfSegment(read[i])
  IN  SetOf(UpTo(out[Len(read)], MaxWeeks))

\* _weeks_param_error
WeeksError(w) == w.given /\ ParsedWeeks(w.segments) = {}

\* schedule(), export_schedule()
AskedWeeks(w) ==
  LET weeks == IF w.given THEN ParsedWeeks(w.segments) ELSE {}
  IN  IF weeks = {} THEN 1..DefaultWeeks ELSE weeks

\* _schedule_export_suffix: the weeks one by one, or no weeks.
Link(w) ==
  LET weeks == IF w.given THEN ParsedWeeks(w.segments) ELSE {}
      one[S \in SUBSET weeks] ==
        IF S = {} THEN <<>>
        ELSE LET first == CHOOSE x \in S : \A y \in S : x <= y IN <<<<first>>>> \o one[S \ {first}]
  IN  [given |-> weeks # {}, segments |-> one[weeks]]

-----------------------------------------------------------------------------

\* Two requests with the same key of the cache ask for the same semesters, if a comma separates
\* nothing but semesters and no more of them than are admitted.
SemestersShared(p, q, current, semesters) ==
  SemestersKey(p) = SemestersKey(q) =>
    AskedSemesters(p, current, semesters) = AskedSemesters(q, current, semesters)

\* A request that is accepted asks for the weeks it names and for no other, for the default only
\* if it names none; and the document behind its link has the same weeks.
WeeksKept(w) ==
  LET named == UNION {CASE Len(s) = 0 -> {}
                        [] Len(s) = 1 -> {Clamp(s[1])}
                        [] OTHER -> {Clamp(n) : n \in s[1]..s[2] \cup s[2]..s[1]} : s \in SetOf(w.segments)}
      fits  == Len(w.segments) <= MaxSegments /\ WeekMax * Len(w.segments) <= MaxWeeks
  IN  ~WeeksError(w) =>
        /\ AskedWeeks(Link(w)) = AskedWeeks(w) /\ ~WeeksError(Link(w))
        /\ w.given => /\ AskedWeeks(w) \subseteq named
                      /\ fits => AskedWeeks(w) = named
=============================================================================
