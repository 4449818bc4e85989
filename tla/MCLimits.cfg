SPECIFICATION Spec
CONSTANTS
  Keys = {k1, k2}
  Limit = 2
  Window = 2
  Unit = 3
  Rate = 2
  MaxBatch = 2
  MaxTime = 5
  Resources = {r1, r2}
INVARIANTS
  TypeOK
  RefusesOnlyExcess
PROPERTIES
  ImplementsContract
