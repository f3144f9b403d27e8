SPECIFICATION Spec
CONSTANTS
  c1 = c1
  c2 = c2
  t1 = t1
  w1 = w1
  w2 = w2
  a1 = a1
  a2 = a2
  Campaigns = {c1}
  NoCampaign = NoCampaign
  Audience <- TwoSubscribers
  Tenants = {t1}
  TenantOf <- OneTenant
  Timed = {}
  Pipes = {1, 2}
  NoPipe = NoPipe
  Workers = {w1, w2}
  Admins = {a1}
  Requests = {"paused", "running"}
  BatchSize = 1
  MaxSendErrors = 0
  MsgQCap = 1
  NextPipesCap = 1
  MaxRequests = 2
  MaxFaults = 0
  MaxCrashes = 0
INVARIANTS DroppedAreResumed
CHECK_DEADLOCK FALSE
