SPECIFICATION HistorySpec
CONSTANTS
  a = a
  b = b
  Nobody = Nobody
  Replicas <- TwoReplicas
  Limit = 2
  MaxLines = 2
  Backups = 1
  MaxEntries = 3
  MaxFaults = 2
  MaxCrashes = 1
INVARIANTS CleanMeansShared
PROPERTIES KeepsNewest CatchesUp
\* With its entries used up and every replica clean, the history rests.
CHECK_DEADLOCK FALSE
