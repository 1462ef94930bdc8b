------------------------------ MODULE MCDigest ------------------------------
(* Digest for TLC: a staleness candidate on each node, a plan and a decision. *)
EXTENDS Digest

MCItems == {"ownStale", "peerStale", "plan", "decision"}
MCSection == [ownStale |-> "own", peerStale |-> "peer", plan |-> "plans", decision |-> "decisions"]
MCSeverity == [ownStale |-> "warn", peerStale |-> "warn", plan |-> "info", decision |-> "info"]
MCScore == [ownStale |-> 80, peerStale |-> 90, plan |-> 0, decision |-> 0]
=============================================================================
