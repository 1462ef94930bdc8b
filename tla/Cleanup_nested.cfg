SPECIFICATION Spec
CONSTANTS
  Cmds = {c1}
  Daemon = daemon
  Torrents = {"show"}
  Content <- DeepContent
  Saved <- DeepContent
  DownloadsDirs <- MCDownloads
  RecycleDirs <- MCRecycle
  Leftovers <- MCLeftovers
  Configs <- MCConfigs
  MaxEvents = 2
  MaxProcesses = 1
  MaxFaults = 0
CHECK_DEADLOCK FALSE
INVARIANTS
  OrphansUntracked
