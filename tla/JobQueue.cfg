SPECIFICATION FairSpec
CONSTANTS
  w1 = w1
  w2 = w2
  s1 = s1
  s2 = s2
  f1 = f1
  f2 = f2
  Nobody = Nobody
  Workers <- MCWorkers
  r1 = r1
  r2 = r2
  Reapers <- MCReapers
  Submitters <- MCSubmitters
  Fingerprints <- MCFingerprints
  MaxJobs = 2
  PendingLimit = 1
  ResultTTL = 2
  ExpiredTTL = 1
  StaleAfter = 2
  RunTimeout = 1
  Slots = 1
  Outcomes = {"success", "failed"}
  LockExpires = FALSE
  SlowRedis = FALSE
  MaxFaults = 2
INVARIANTS PendingWithinLimit SingleOwner QueuedIsCounted OrphansByFaultsOnly
PROPERTIES AtMostOnce SlotIsGivenBack
