SPECIFICATION FairSpec
CONSTANTS
  FailureThreshold = 2
  SuccessThreshold = 2
  MaxRequests = 1
  Timeout = 2
  Callers = {c1, c2, c3, c4}
INVARIANTS
  TypeOK
  ProbeBound
  NoWedge
  OpenNotExtended
  CountsBelowThresholds
PROPERTIES
  OpenLastsTimeout
  Recovers
