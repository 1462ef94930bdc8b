SPECIFICATION FairSpec
CONSTANTS
  Procs = {"daemon", "tester"}
  Daemon = "daemon"
  Tester = "tester"
  Last = 2
  Items <- MCItems
  Section <- MCSection
  Severity <- MCSeverity
  Score <- MCScore
  TopN = 1
  PeerStaleAfter = 1
  Retention = 2
  MaxTime = 3
  MaxEvents = 2
  MaxMails = 2
  MaxFaults = 1
CHECK_DEADLOCK FALSE
INVARIANTS
  SchemaWhole
  DigestTruthful
  PeerSectionHonest
  OutboxTells
PROPERTIES
  RowsSettle
  DaemonUp
