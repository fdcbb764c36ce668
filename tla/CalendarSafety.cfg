SPECIFICATION Spec
CONSTANTS
  Semesters = {s1, s2}
  Requests = {r1, r2}
  Scheduler = sched
  None = None
  MaxPerOwner = 2
  MaxFailures = 2
  Batch = 2
  Interval = 1
  Reclaim = 1
  RetryCap = 1
  PauseTicks = 1
  Cooldown = 1
  Expiring = {s1}
  MaxPassword = 2
  MaxMinted = 3
  MaxStarts = 2
  MaxEdits = 0
  MaxCrashes = 0
PROPERTIES AddressNeverReturns
INVARIANTS AddressShownServes EventsAreLessons
SYMMETRY RequestSymmetry
\* Without a subscription and with its requests used up, the service is idle.
CHECK_DEADLOCK FALSE
