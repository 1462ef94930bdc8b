SPECIFICATION FairSpec
CONSTANTS
  Decisions = {d1, d2}
  Entities = {"sonarr:1", "radarr:1"}
  Configured = {"sonarr:1"}
  BadKeys = {"plex:1", "sonarr:99999999999999999999"}
  LongKeys = {"sonarr:99999999999999999999"}
  MaxApiFaults = 2
  MaxStoreFaults = 1
  MaxCuts = 1
  MaxKills = 1
CHECK_DEADLOCK FALSE
INVARIANTS
  FollowUpsAfterDelete
  ExecutedIsDone
  TrailAgrees
PROPERTIES
  Drained
