CONSTANTS
  c1 = c1
  c2 = c2
  c3 = c3
  k1 = k1
  k2 = k2
  Calls = {c1, c2, c3}
  Keys = {k1, k2}
  Limit = 2
  MaxItems = 1
  Ttl = 2
  NegTtl = 1
  QueryTime = 2
  Minute = 4
  RateLimit = 2
  LoginLimit = 1
  GatewayLimit = 2
  MaxSkew = 1
  MaxSemesters = 3
  WeekMax = 3
  MaxSegments = 3
  MaxWeeks = 6
  DefaultWeeks = 2
  Workers = 1
  Queue = 1
SPECIFICATION Spec
INVARIANTS TypeOK NoStaleAnswer BucketsLimit GatewayKeeps ParamsKept
SYMMETRY Symmetry
