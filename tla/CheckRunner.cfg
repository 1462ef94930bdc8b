SPECIFICATION FairSpec
CONSTANTS
  mounts = mounts
  arr = arr
  Checks = {mounts, arr}
  Order <- TwoChecks
  MaxRuns = 2
CHECK_DEADLOCK FALSE
INVARIANTS
  Accounted
  OwnFindings
PROPERTIES
  RunReturns
  SendersEnd
