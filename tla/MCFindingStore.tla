--------------------------- MODULE MCFindingStore ---------------------------
(* Instances of FindingStore for TLC. *)
EXTENDS FindingStore, TLC

CONSTANTS pi, nas, fast, daily, tv, film

\* The Pi's file: its own cycle and the reports the NAS pushes.
PeerReporters == {"cycle", "inbound"}
PeerNodeOf == [cycle |-> pi, inbound |-> nas]
PeerSelections == [r \in PeerReporters |-> {{fast}}]

\* `healarr check run` of a check that a daemon cycle also runs.
OverlapReporters == {"cycle", "cli"}
OverlapNodeOf == [r \in OverlapReporters |-> pi]
OverlapSelections == [r \in OverlapReporters |-> {{fast}}]

\* The daemon alone: two cadences of the Pi.
DaemonReporters == {"cycle5m", "cycleDaily"}
DaemonNodeOf == [r \in DaemonReporters |-> pi]
DaemonSelections == [cycle5m |-> {{fast}}, cycleDaily |-> {{daily}}]

=============================================================================
