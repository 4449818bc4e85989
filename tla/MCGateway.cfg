SPECIFICATION FairSpec
CONSTANTS
  FailureThreshold = 1
  SuccessThreshold = 2
  MaxRequests = 1
  Timeout = 1
  h1 = h1
  h2 = h2
  g1 = g1
  c1 = c1
  t1 = t1
  t2 = t2
  Empty = Empty
  Engines = {"engine"}
  Segments = {"run", "v2"}
  VSegments = {"v2"}
  Tenants = {t1, t2}
  Registered = {t1}
  Hosts <- MCHosts
  HTTPRequests = {h1, h2}
  GRPCRequests = {g1}
  ConnectRequests = {c1}
  CallOf <- MCCallOf
  Installed <- MCInstalled
  QuotaLimit <- MCQuotaLimit
  Capacity = 2
  MaxTicks = 1
INVARIANTS
  TypeOK
  RateLimitShared
  QuotaConserved
  MetricsAccount
  DoorsAgree
PROPERTIES
  EveryRequestEnds
CHECK_DEADLOCK FALSE
