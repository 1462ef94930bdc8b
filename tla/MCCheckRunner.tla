---------------------------- MODULE MCCheckRunner ----------------------------
(* An instance of CheckRunner for TLC. *)
EXTENDS CheckRunner

CONSTANTS mounts, arr

TwoChecks == <<mounts, arr>>

=============================================================================
