SPECIFICATION FairSpec
CONSTANTS
  d1 = d1
  d2 = d2
  e1 = e1
  i1 = i1
  i2 = i2
  Deliveries = {d1}
  NoDelivery = NoDelivery
  Tests = {d1}
  Endpoints = {e1}
  EndpointOf <- OneEndpoint
  Instances = {i1, i2}
  MaxAttempts = 3
  Backoff <- ThreeTicks
  Timeout = 2
  ClaimBatch = 1
  ClaimLease = 2
  MaxRetries = 2
  MaxRotations = 1
  MaxFaults = 2
  MaxCrashes = 1
PROPERTIES EventuallySettled
CHECK_DEADLOCK FALSE
