SPECIFICATION FairSpec
CONSTANTS
  Servers = {"peer", "web"}
  Jobs = {"cycle", "digest"}
  MaxRequests = 2
  MaxFirings = 3
CHECK_DEADLOCK FALSE
INVARIANTS
  JobsBeforeClose
  NilMeansAsked
PROPERTIES
  RunReturns
  FailureFatal
