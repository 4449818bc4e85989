SPECIFICATION Spec
CONSTANTS
  a1 = a1
  a2 = a2
  a3 = a3
  v1 = v1
  v2 = v2
  g1 = g1
  g2 = g2
  h1 = h1
  w1 = w1
  q1 = q1
  NoVersion = NoVersion
  Addresses = {a1, a2, a3}
  VersionOf <- MCVersionOf
  WeightOf <- MCWeightOf
  Hash <- MCHash
  Wanted <- MCWanted
  SharedCalls = {g1, g2}
  FreshCalls = {h1}
  WeightedCalls = {w1}
  Queries = {}
  Duplicates = TRUE
  MaxEndpoints = 3
  MaxRecent = 3
  MaxConcurrent = 2
INVARIANTS
  HealthFollowsReports
