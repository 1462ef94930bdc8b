SPECIFICATION Spec
CONSTANTS
  Cmds = {c1, c2}
  Daemon = daemon
  Torrents = {"film", "show"}
  Content <- MCContent
  Saved <- MCSaved
  DownloadsDirs <- MCDownloads
  RecycleDirs <- MCRecycle
  Leftovers <- MCLeftovers
  Configs <- MCConfigs
  MaxEvents = 3
  MaxProcesses = 2
  MaxFaults = 1
SYMMETRY Alike
CHECK_DEADLOCK FALSE
INVARIANTS
  RowsTell
  OnlyWhenAllowed
  Recorded
PROPERTIES
  NoUnimportedLoss
