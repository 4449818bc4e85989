SPECIFICATION SpecWithHistories
CONSTANTS
  FailureThreshold = 1
  SuccessThreshold = 2
  MaxRequests = 1
  Timeout = 1
  t1 = t1
  Empty = Empty
  Engines = {"engine"}
  Segments = {"run"}
  VSegments = {}
  Tenants = {t1}
  Registered = {t1}
  Hosts <- MCHosts
  HTTPRequests = {h1, h2, h3, h4}
  GRPCRequests = {g1}
  ConnectRequests = {}
  CallOf <- MCCallOf
  Installed <- MCInstalled
  QuotaLimit <- MCQuotaLimit
  Capacity = 3
  MaxTicks = 1
  Watched = "http"
PROPERTIES
  BreakerImplements
  LimiterImplements
SYMMETRY MCSymmetry
CHECK_DEADLOCK FALSE
