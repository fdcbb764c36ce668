---------------------------- MODULE CalendarRules ----------------------------
(***************************************************************************)
(* From an entry of the school's timetable to the weekly events of a feed  *)
(* (calendar/rules.py, build_events of calendar/ics.py).                   *)
(*                                                                         *)
(* A day is counted from the Monday of the first week.  An entry has a day *)
(* of the week (0 is Monday, -1 one not mapped), the segments <<a, b>>     *)
(* of its weeks, a parity, the periods its own text names and those of its *)
(* time code.  A configuration has a table of the times of its periods and *)
(* says what to do when the two sets of periods disagree.                  *)
(***************************************************************************)
EXTENDS Integers, Sequences, SequencesExt

Error == {}         \* a ScheduleDataError, where a set is expected

\* parse_weeks
OfParity(weeks, parity) ==
  {w \in weeks : parity = "any" \/ (parity = "odd" /\ w % 2 = 1) \/ (parity = "even" /\ w % 2 = 0)}
ParseWeeks(segments, parity, maxWeek) ==
  LET weeks == UNION {s[1]..s[2] : s \in segments}
  IN  IF (\E s \in segments : s[1] < 1 \/ s[2] < s[1]) \/ \E w \in weeks : w > maxWeek
      THEN Error
      ELSE OfParity(weeks, parity)

\* resolve_periods: the course's own text, and the time code without it.
Conflict(course, block) == course # {} /\ block # {} /\ ~(course \subseteq block)
ResolvePeriods(course, block, onConflict) ==
  IF course = {} THEN block
  ELSE IF Conflict(course, block) /\ onConflict = "skip" THEN Error
  ELSE course

\* period_window: from the first begin to the last end, of the periods that have times.
PeriodWindow(periods, table) ==
  LET known == periods \cap DOMAIN table
  IN  IF known = {} THEN <<>>
      ELSE <<CHOOSE t \in {table[p][1] : p \in known} : \A p \in known : t <= table[p][1],
             CHOOSE t \in {table[p][2] : p \in known} : \A p \in known : t >= table[p][2]>>

\* week_monday, occurrence_dates
OccurrenceDates(term, day, weeks) ==
  {d \in {7 * (w - 1) + day : w \in weeks} : d >= term.start /\ d \notin term.exdates}

-----------------------------------------------------------------------------
(* Events: a rule "FREQ=WEEKLY;COUNT=n" for every run of weeks.            *)

LastDay(run) == run.start + 7 * (run.count - 1)

\* Mutant: a week without a lesson does not end the run.
Adjoins(run, d)  == (d - LastDay(run)) % 7 = 0
Continues(run, d) == d - LastDay(run) = 7

Longer(runs, d) ==
  IF runs # <<>> /\ Continues(Last(runs), d)
  THEN [runs EXCEPT ![Len(runs)].count = @ + 1]
  ELSE Append(runs, [start |-> d, count |-> 1])
\* The days are visited in their order: runs[n] are the runs of those before n.
WeeklyRuns(dates, end) ==
  LET runs[n \in 0..end] ==
        IF n = 0 THEN <<>>
        ELSE IF n - 1 \in dates THEN Longer(runs[n - 1], n - 1) ELSE runs[n - 1]
  IN  runs[end]

Nothing == [events |-> <<>>, anomalies |-> 0]
\* What build_events makes of one row: the checks in their order.
BuildEvents(entry, term, cfg) ==
  LET periods == ResolvePeriods(entry.course, entry.block, cfg.onConflict)
      window  == PeriodWindow(periods, cfg.table)
      weeks   == ParseWeeks(entry.segments, entry.parity, term.weeks)
      noted   == IF Conflict(entry.course, entry.block) THEN 1 ELSE 0
  IN  IF entry.day = -1 \/ periods = Error THEN [Nothing EXCEPT !.anomalies = 1]
      ELSE IF window = <<>> \/ weeks = Error THEN [Nothing EXCEPT !.anomalies = noted + 1]
      ELSE [events |-> LET runs == WeeklyRuns(OccurrenceDates(term, entry.day, weeks), 7 * term.weeks)
                       IN  [i \in 1..Len(runs) |-> [run |-> runs[i], window |-> window]],
            anomalies |-> noted]

\* The days on which a calendar shows an event (RFC 5545).
Expansion(event) == {event.run.start + 7 * i : i \in 0..event.run.count - 1}

-----------------------------------------------------------------------------

\* A lesson takes place on the day of the week of its entry, in a week that a segment names and the
\* parity admits, from the first day of teaching on and not on a day off.
Lesson(d, entry, term) ==
  LET w == d \div 7 + 1
  IN  /\ d % 7 = entry.day /\ \E s \in entry.segments : s[1] <= w /\ w <= s[2]
      /\ entry.parity = "any" \/ (w % 2 = 1) = (entry.parity = "odd")
      /\ d >= term.start /\ d \notin term.exdates

\* The events of an entry show its lessons, each once and none else, whatever gaps the weeks, the
\* parity, the first day of teaching and the days off leave; no lesson is left out in silence;
\* and an event lasts from the begin of the first to the end of the last of its known periods.
EventsShowLessons(entry, term, cfg) ==
  LET built   == BuildEvents(entry, term, cfg)
      shown   == [i \in DOMAIN built.events |-> Expansion(built.events[i])]
      lessons == {d \in 0..(7 * term.weeks - 1) : Lesson(d, entry, term)}
  IN  /\ built.events # <<>> => UNION {shown[i] : i \in DOMAIN shown} = lessons
      /\ \A i, j \in DOMAIN shown : i # j => shown[i] \cap shown[j] = {}
      /\ built.events = <<>> /\ lessons # {} => built.anomalies > 0
      /\ \A i \in DOMAIN built.events, p \in ResolvePeriods(entry.course, entry.block, cfg.onConflict) :
           p \in DOMAIN cfg.table =>
             /\ built.events[i].window[1] <= cfg.table[p][1]
             /\ cfg.table[p][2] <= built.events[i].window[2]
=============================================================================
