------------------------------ MODULE MCCalendar ------------------------------
(* Instances of CalendarSubscription and CalendarRules for TLC. *)
EXTENDS CalendarSubscription, CalendarRules, TLC

\* Requests are interchangeable; used by the run without liveness properties.
RequestSymmetry == Permutations(Requests)

\* Terms of four weeks that begin in the first or the second week, with up to two days off.
MCTerms == [weeks : {4}, start : {0, 8}, exdates : SUBSET {7, 14}]
MCSegments == {{a, b} : a, b \in (0..5) \X (0..5)}
MCConfigs == {[table |-> [p \in 1..n |-> <<2 * p, 2 * p + 1>>], onConflict |-> c] :
                n \in {1, 3}, c \in {"skip", "trust_course"}}

\* Rows with any two segments of weeks, and rows with any periods.
WeekRows   == [day : {0, 1}, segments : MCSegments, parity : {"any", "odd", "even"},
               course : {{1}}, block : {{}}]
PeriodRows == [day : {-1, 0}, segments : {{}, {<<1, 2>>}}, parity : {"any"},
               course : SUBSET (1..3), block : {{}, {1, 2}}]

AllEvents ==
  /\ \A r \in WeekRows, t \in MCTerms, cfg \in {c \in MCConfigs : 3 \in DOMAIN c.table} :
       EventsShowLessons(r, t, cfg)
  /\ \A r \in PeriodRows, t \in MCTerms, cfg \in MCConfigs : EventsShowLessons(r, t, cfg)
\* Whatever rows the school answers the making or a refresh of a feed with, the events of the feed
\* show their lessons (ics.py: dates that are cut off or excluded never get into a rule).
EventsAreLessons == (\E t \in Tasks : At(t, "create") \/ At(t, "fetch")) => AllEvents
=============================================================================
