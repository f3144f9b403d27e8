SPECIFICATION Spec
CONSTANTS
  d1 = d1
  d2 = d2
  e1 = e1
  i1 = i1
  i2 = i2
  Deliveries = {d1, d2}
  NoDelivery = NoDelivery
  Tests = {}
  Endpoints = {e1}
  EndpointOf <- OneEndpoint
  Instances = {i1, i2}
  MaxAttempts = 3
  Backoff <- ThreeTicks
  Timeout = 2
  ClaimBatch = 2
  ClaimLease = 2
  MaxRetries = 1
  MaxRotations = 0
  MaxFaults = 1
  MaxCrashes = 0
SYMMETRY Symmetry
INVARIANTS TypeOK AttemptsMatchStatus LeasesDisjoint
CHECK_DEADLOCK FALSE
