SPECIFICATION Spec
CONSTANTS
  a = a
  b = b
  a1 = a1
  b1 = b1
  Replicas = {a, b}
  Tasks = {a1, b1}
  Home <- OneEach
  None = None
  Ids = {m, n}
  MaxActive = 1
  MaxHistory = 1
  CompactAfter = 3
  MaxTexts = 2
  MaxChanges = 3
  MaxMishaps = 1
INVARIANTS ActiveLimit WritesKept ServedIsWritten
PROPERTIES KeepsBoard
SYMMETRY Symmetry
