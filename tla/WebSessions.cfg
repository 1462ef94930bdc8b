SPECIFICATION Spec
CONSTANTS
  Reqs = {r1, r2}
  Nodes = {"pi", "nas"}
  First = "pi"
  Items = {"candidate", "disk", "mount"}
  NodeOf <- MCNodeOf
  Stale = {"candidate"}
  Before <- MCBefore
  TTL = 1
  RecentWindow = 1
  HistoryLimit = 1
  MaxTime = 2
  MaxSessions = 2
  MaxStarts = 2
  MaxRequests = 4
  MaxChanges = 1
SYMMETRY Alike
CHECK_DEADLOCK FALSE
INVARIANTS
  Admitted
  FormsJudged
  PageTruthful
