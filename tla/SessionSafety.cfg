SPECIFICATION Spec
CONSTANTS
  Users = {u, v}
  Calls = {c, d}
  Nobody = Nobody
  MaxSessions = 1
  MaxLogins = 2
  MaxMishaps = 1
INVARIANTS LimitKept NoSelfKick
PROPERTIES HandsOutNewest
SYMMETRY Symmetry
