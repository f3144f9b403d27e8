SPECIFICATION FairSpec
CONSTANTS
  s1 = s1
  s2 = s2
  Sessions = {s1, s2}
  NoSession = NoSession
  Rows <- MCRows
  Bad <- MCBad
  FirstBatches <- MCFirstBatches
  BatchSize = 2
  MaxEvents = 3
INVARIANTS TypeOK CountsMatch FinishedSavesWhatWasRead
PROPERTIES StatusSettles
CHECK_DEADLOCK FALSE
