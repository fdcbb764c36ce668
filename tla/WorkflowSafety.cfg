CONSTANTS
  r1 = r1
  j1 = j1
  j2 = j2
  Runs = {r1}
  Jobs = {j1, j2}
  QuerySlots = 2
  LoginSlots = 1
  LlmSlots = 1
  PdfSlots = 1
  MaxLogins = 3
SPECIFICATION Spec
INVARIANTS TypeOK RetryIsFresh
PROPERTIES Answered
\* With every query answered there is nothing to do.
CHECK_DEADLOCK FALSE
