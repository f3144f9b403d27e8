SPECIFICATION FairSpec
CONSTANTS
  j1 = j1
  j2 = j2
  b1 = b1
  b2 = b2
  b3 = b3
  h1 = h1
  h2 = h2
  Jobs = {j1}
  NoJob = NoJob
  Batches = {b1, b2}
  NoBatch = NoBatch
  JobOf <- OneJob
  Handlers = {h1, h2}
  MaxSubmissions = 1
  MaxMishaps = 0
PROPERTIES EndedJobsAreReconciled
CHECK_DEADLOCK FALSE
