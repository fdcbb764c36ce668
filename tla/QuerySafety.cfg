CONSTANTS
  q1 = q1
  q2 = q2
  Queries = {q1, q2}
  Single = {q2}
  WithAll = {q1}
  MaxSemesters = 2
  MaxPages = 2
  PoolWorkers = 2
  Slots = 1
  MaxErrors = 1
SPECIFICATION Spec
PROPERTIES EveryQueryEnds
\* Every query ends.
CHECK_DEADLOCK FALSE
