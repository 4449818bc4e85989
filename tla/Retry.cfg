SPECIFICATION FairSpec
CONSTANTS
  MaxRetriesBound = 2
  Backoffs = {1, 3, 8}
  Multipliers = {1, 3}
INVARIANTS
  TypeOK
  OneLateCall
  ResultJustified
  WaitBounded
PROPERTIES
  Terminates
CHECK_DEADLOCK FALSE
