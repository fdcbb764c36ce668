CONSTANTS
  c1 = c1
  c2 = c2
  Clients = {c1, c2}
  MaxChanges = 2
  MaxFaults = 1
SPECIFICATION EntrySpec
INVARIANTS StaleCachesRecover
SYMMETRY Symmetry
