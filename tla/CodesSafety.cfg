CONSTANTS
  c1 = c1
  c2 = c2
  d1 = d1
  Nobody = Nobody
  Clients = {c1, c2}
  Docs = {d1}
  MaxCodes = 1
  Capacity = 2
  MaxMinted = 2
  MaxOverruns = 1
SPECIFICATION Spec
INVARIANTS TypeOK UsedOnce OneExport
PROPERTIES KeptForRetry Answered
