SPECIFICATION FairSpec
CONSTANTS
  pi = pi
  nas = nas
  fast = fast
  daily = daily
  tv = tv
  film = film
  Nodes = {pi}
  Checks = {fast}
  Entities = {tv, film}
  Reporters <- OverlapReporters
  NodeOf <- OverlapNodeOf
  Selections <- OverlapSelections
  SnoozeDays = {1}
  MaxTime = 1
  MaxFlips = 2
  MaxFaults = 1
  MaxSeen = 1
INVARIANTS
  OneActiveRow
PROPERTIES
  SnoozeHeld
  OpenMeansSeen
  Converges
