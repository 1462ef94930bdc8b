SPECIFICATION FairSpec
CONSTANTS
  Msgs = {m1}
  Retries = 2
  MaxNetFaults = 3
  MaxStoreFaults = 1
  MaxCrashes = 1
  MaxCancels = 1
CHECK_DEADLOCK FALSE
INVARIANTS
  AckMeansStored
  ActedIsRecorded
PROPERTIES
  CallReturns
  Delivered
