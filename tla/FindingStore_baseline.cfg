SPECIFICATION Spec
CONSTANTS
  pi = pi
  nas = nas
  fast = fast
  daily = daily
  tv = tv
  film = film
  Nodes = {pi}
  Checks = {fast, daily}
  Entities = {tv}
  Reporters <- DaemonReporters
  NodeOf <- DaemonNodeOf
  Selections <- DaemonSelections
  SnoozeDays = {1}
  MaxTime = 1
  MaxFlips = 1
  MaxFaults = 0
  MaxSeen = 1
PROPERTIES
  DeltaBaseline
