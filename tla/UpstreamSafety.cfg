SPECIFICATION Spec
CONSTANTS
  a = a
  b = b
  a1 = a1
  a2 = a2
  b1 = b1
  b2 = b2
  Replicas = {a, b}
  Threads = {a1, a2, b1, b2}
  Home <- TwoEach
  Limit = 1
  Lease = 1
  Cooldown = 1
  MaxOutages = 1
  MaxCrashes = 1
INVARIANTS TypeOK LimitKept LimitDegraded LocalPermitsReturn
SYMMETRY Symmetry
