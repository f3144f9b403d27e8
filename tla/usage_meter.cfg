SPECIFICATION FairSpec
CONSTANTS
  sent = sent
  checked = checked
  installed = installed
  Sends = {sent, installed}
  Checks = {checked}
  Billable = {sent, checked}
  Amounts = {1, 2}
  MaxAdds = 3
  MaxFaults = 1
  MaxDoubts = 1
  MaxStarts = 2
INVARIANTS TypeOK Conserved CleanShutdownLosesNothing
PROPERTIES EveryCountLands
CHECK_DEADLOCK FALSE
