SPECIFICATION Spec
CONSTANTS
  pi = pi
  nas = nas
  fast = fast
  daily = daily
  tv = tv
  film = film
  Nodes = {pi, nas}
  Checks = {fast}
  Entities = {tv}
  Reporters <- PeerReporters
  NodeOf <- PeerNodeOf
  Selections <- PeerSelections
  SnoozeDays = {1}
  MaxTime = 2
  MaxFlips = 3
  MaxFaults = 1
  MaxSeen = 1
INVARIANTS
  SettledAccurate
PROPERTIES
  ResolvedFrozen
  ResolveMeansGone
  RefinesLifecycle
