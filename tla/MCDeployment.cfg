SPECIFICATION FairSpec
CONSTANTS
  h1 = h1
  g1 = g1
  g2 = g2
  c1 = c1
  c2 = c2
  HTTPCalls = {h1}
  GRPCCalls = {g1, g2}
  ConnectCalls = {c1, c2}
  OpenEnded = {g2, c2}
  Configs <- MCConfigs
  Blank = Blank
  NoTarget = NoTarget
  NoScheme = NoScheme
  Empty = Empty
INVARIANTS
  TypeOK
  StoppedDoorsQuiet
  FatalJustified
  InstancesConfiguredAlike
PROPERTIES
  ShutdownEnds
CHECK_DEADLOCK FALSE
