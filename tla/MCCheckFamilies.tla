-------------------------- MODULE MCCheckFamilies --------------------------
(* CheckFamilies for TLC: two moments to the horizon of days, the other limits one moment. *)
EXTENDS CheckFamilies

MCStudied == DOMAIN Calls

\* The default points, with the days of a moment to suit.
MCWeights ==
  [DaysHorizon |-> 2, DaysMaxPoints |-> 40, NeverWatchedAfter |-> 1,
   WatchedFullPoints |-> 15, WatchedPartialPoints |-> -10,
   EndedPoints |-> 10, ContinuingPoints |-> -15, SizePerGB |-> 1, SizeMaxPoints |-> 15,
   OwnerPoints |-> -5, OtherPoints |-> 10, AgePerMoment |-> 2, AgeMaxPoints |-> 10,
   CandidateThreshold |-> 70, WatchlistThreshold |-> 50]

MCLimits ==
  [QueueStuckAfter |-> 1, QBitStalledAfter |-> 1, OverseerrStuckAfter |-> 1,
   IndexerFailureWindow |-> 1, NotImportedAfter |-> 1, ArrHistoryWindow |-> 2,
   PlexScanStaleAfter |-> 1, DiskWarn |-> 85, DiskCrit |-> 92, DirWarn |-> 85, ImageWarn |-> 10,
   SpikeMin |-> 1, SpikePercent |-> 100, HistoryRows |-> 2]

\* A large title nobody monitors, and one that goes on and has no date.
MCTitles ==
  {[ended |-> TRUE, monitored |-> FALSE, size |-> 20, added |-> 1],
   [ended |-> FALSE, monitored |-> TRUE, size |-> 1, added |-> 0]}

\* Watches have to grow older than twice the horizon, the rest older than the windows.
MCMaxTime == [c \in MCStudied |-> IF c = "staleness_scan" THEN 6 ELSE 4]
=============================================================================
