---------------------------- MODULE MCWebSessions ----------------------------
(* WebSessions for TLC: two requests at a time, a candidate on the Pi and two other findings on the NAS, one of
   them new; a history page has room for one row of each node. *)
EXTENDS WebSessions, TLC

MCNodeOf == [candidate |-> "pi", disk |-> "nas", mount |-> "nas"]
MCBefore == [candidate |-> "open", disk |-> "open", mount |-> "never"]
Alike == Permutations(Reqs)
=============================================================================
