SPECIFICATION Spec
CONSTANTS
  j1 = j1
  j2 = j2
  b1 = b1
  b2 = b2
  b3 = b3
  h1 = h1
  h2 = h2
  Jobs = {j1}
  NoJob = NoJob
  Batches = {b1, b2, b3}
  NoBatch = NoBatch
  JobOf <- JobAndImport
  Handlers = {h1, h2}
  MaxSubmissions = 1
  MaxMishaps = 2
SYMMETRY Symmetry
INVARIANTS TypeOK NothingSettledEarly BilledWhatScrubAccepted RecordedJobsGoAway
CHECK_DEADLOCK FALSE
