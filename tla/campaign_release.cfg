SPECIFICATION FairSpec
CONSTANTS
  c1 = c1
  c2 = c2
  t1 = t1
  w1 = w1
  w2 = w2
  a1 = a1
  a2 = a2
  Campaigns = {c1, c2}
  NoCampaign = NoCampaign
  Audience <- TwoCampaigns
  Tenants = {t1}
  TenantOf <- OneTenant
  Timed = {c2}
  Pipes = {1, 2}
  NoPipe = NoPipe
  Workers = {w1}
  Admins = {a1}
  Requests = {"paused", "running", "cancelled", "autopause"}
  BatchSize = 1
  MaxSendErrors = 1
  MsgQCap = 1
  NextPipesCap = 1
  MaxRequests = 0
  MaxFaults = 1
  MaxCrashes = 1
PROPERTIES PipeReleased
CHECK_DEADLOCK FALSE
