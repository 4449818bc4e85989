SPECIFICATION Spec
CONSTANTS
  r1 = r1
  r2 = r2
  r3 = r3
  trace1 = trace1
  NoTrace = NoTrace
  Requests = {r1, r2, r3}
  TraceOf <- MCTraceOf
  MaxClock = 1
INVARIANTS
  IdsUnique
CHECK_DEADLOCK FALSE
