----------------------------- MODULE DecisionExec -----------------------------
(***************************************************************************)
(* Keep and delete decisions: the web page's POST and `healarr decide`     *)
(* create a pending decisions row and carry it out at once                 *)
(* (decision.Execute), several of them concurrently and about the same     *)
(* entity.  A delete is a sequence of calls to Sonarr or Radarr, Overseerr *)
(* and the peer with no transaction around it, followed by a remediations  *)
(* row and the decision's final status.  The caller's context (the HTTP    *)
(* request, the terminal) can end between any two of them.                 *)
(***************************************************************************)
EXTENDS Integers, FiniteSets

CONSTANTS
  Decisions,       \* decision ids, one executor each
  Entities,        \* entity keys of the form sonarr:<id> or radarr:<id>
  Configured,      \* those of a configured client
  BadKeys,         \* entity keys that parseEntityKey rejects
  LongKeys,        \* those that look right but have more digits than an id
  MaxApiFaults,    \* bound: failing calls to other programs
  MaxStoreFaults,  \* bound: failing statements
  MaxCuts,         \* bound: contexts that end
  MaxKills         \* bound: processes that die

ASSUME DecisionAssumption ==
  /\ Configured \subseteq Entities
  /\ BadKeys \cap Entities = {} /\ LongKeys \subseteq BadKeys
  /\ MaxApiFaults \in Nat /\ MaxStoreFaults \in Nat
  /\ MaxCuts \in Nat /\ MaxKills \in Nat

VARIABLES
  enabled,   \* cfg.Actions.Enabled, fixed when the programs start
  kind,      \* kind[d]: "keep" or "delete", "none" before d is created
  entity,    \* entity[d]: the entity key it is about
  pc,        \* pc[d]: the next step of d's executor
  status,    \* status[d]: the decisions row, "none" before it is created
  outcome,   \* outcome[d]: what the executor is about to record
  known,     \* the decisions whose lookup found the TVDB or TMDB id
  rem,       \* rem[d]: the remediations row of d
  snoozed,   \* entities a keep has snoozed (see FindingStore)
  library,   \* entities Sonarr and Radarr still have
  declined,  \* entities whose Overseerr request is declined
  hinted,    \* decisions whose torrents the peer was told to delete
  cut,       \* decisions whose context has ended
  apiFaults, storeFaults, cuts, kills

stack == <<library, declined, hinted>>
request == <<enabled, kind, entity>>
faults == <<apiFaults, storeFaults, cuts, kills>>
vars == <<request, pc, status, outcome, known, rem, snoozed, stack, cut, faults>>

-----------------------------------------------------------------------------

Goto(d, step) == pc' = [pc EXCEPT ![d] = step]

Decide(d, o, step) == outcome' = [outcome EXCEPT ![d] = o] /\ Goto(d, step)

\* A call fails: because the context is done, or for a reason of its own.
ApiFault(d) ==
  IF d \in cut THEN apiFaults' = apiFaults
  ELSE apiFaults < MaxApiFaults /\ apiFaults' = apiFaults + 1

StoreFault(d) ==
  IF d \in cut THEN storeFaults' = storeFaults
  ELSE storeFaults < MaxStoreFaults /\ storeFaults' = storeFaults + 1

Live(d) == d \notin cut

Init ==
  /\ enabled \in BOOLEAN
  /\ kind = [d \in Decisions |-> "none"]
  /\ entity = [d \in Decisions |-> "none"]
  /\ pc = [d \in Decisions |-> "new"]
  /\ status = [d \in Decisions |-> "none"]
  /\ outcome = [d \in Decisions |-> "none"]
  /\ known = {}
  /\ rem = [d \in Decisions |-> "none"]
  /\ snoozed = {} /\ library = Entities /\ declined = {} /\ hinted = {}
  /\ cut = {}
  /\ apiFaults = 0 /\ storeFaults = 0 /\ cuts = 0 /\ kills = 0

\* Store.CreateDecision: a new pending row.
CreateDecision(d, knd, e) ==
  /\ pc[d] = "new"
  /\ kind' = [kind EXCEPT ![d] = knd]
  /\ entity' = [entity EXCEPT ![d] = e]
  /\ status' = [status EXCEPT ![d] = "pending"]
  /\ Goto(d, "load")
  /\ UNCHANGED <<enabled, outcome, known, rem, snoozed, stack, cut, faults>>

\* The page's POST: only the two kinds and entity keys of the right form are
\* accepted; the form does not limit the digits of the id.
HandleDecisionsPost(d) ==
  \E knd \in {"keep", "delete"}, e \in Entities \cup LongKeys : CreateDecision(d, knd, e)

\* `healarr decide keep|delete <key>`: any key is accepted.
RunDecide(d) ==
  \E knd \in {"keep", "delete"}, e \in Entities \cup BadKeys : CreateDecision(d, knd, e)

\* The runner cannot build its clients (web only: the command builds them
\* before it creates the decision), or DecisionByID fails.
LoadFails(d) ==
  /\ pc[d] = "load" /\ StoreFault(d)
  /\ Goto(d, "end")
  /\ UNCHANGED <<request, status, outcome, known, rem, snoozed, stack, cut, apiFaults, cuts, kills>>

\* Execute and executeDelete up to the first call: the outcome that is already
\* decided, and the next step.
Dispatched(d) ==
  CASE kind[d] = "keep" -> <<"none", "snooze">>
    [] kind[d] = "delete" /\ ~enabled -> <<"blocked", "remediate">>
    [] kind[d] = "delete" /\ enabled /\ entity[d] \notin Configured ->
         <<"failed", "remediate">>
    [] OTHER -> <<"none", "lookup">>

Dispatch(d) ==
  /\ pc[d] = "load" /\ Live(d)
  /\ Decide(d, Dispatched(d)[1], Dispatched(d)[2])
  /\ UNCHANGED <<request, status, known, rem, snoozed, stack, cut, faults>>

\* executeKeep: SnoozeEntity, and "failed" when it does not work.
Snooze(d) ==
  /\ pc[d] = "snooze"
  /\ \/ /\ Live(d) /\ snoozed' = snoozed \cup {entity[d]}
        /\ Decide(d, "executed", "mark") /\ UNCHANGED storeFaults
     \/ /\ StoreFault(d) /\ Decide(d, "failed", "mark") /\ UNCHANGED snoozed
  /\ UNCHANGED <<request, status, known, rem, stack, cut, apiFaults, cuts, kills>>

\* lookupSonarrSeries / lookupRadarrMovie: best effort.
Lookup(d) ==
  /\ pc[d] = "lookup"
  /\ \/ /\ Live(d) /\ UNCHANGED apiFaults
        /\ known' = IF entity[d] \in library THEN known \cup {d} ELSE known
     \/ /\ ApiFault(d) /\ UNCHANGED known
  /\ Goto(d, "delete")
  /\ UNCHANGED <<request, status, outcome, rem, snoozed, stack, cut, storeFaults, cuts, kills>>

\* DeleteSeries / DeleteMovie succeeds.
Delete(d) ==
  /\ pc[d] = "delete" /\ Live(d) /\ entity[d] \in library
  /\ library' = library \ {entity[d]}
  /\ Goto(d, "decline")
  /\ UNCHANGED <<request, status, outcome, known, rem, snoozed, declined, hinted, cut, faults>>

\* Mutants: the error of the delete call is only logged; the follow-up steps
\* are taken all the same.
DeleteFails_Executed(d) ==
  /\ pc[d] = "delete"
  /\ ApiFault(d) \/ (Live(d) /\ entity[d] \notin library /\ UNCHANGED apiFaults)
  /\ Decide(d, "executed", "remediate")
  /\ UNCHANGED <<request, status, known, rem, snoozed, stack, cut, storeFaults, cuts, kills>>

DeleteFails_GoesOn(d) ==
  /\ pc[d] = "delete"
  /\ ApiFault(d) \/ (Live(d) /\ entity[d] \notin library /\ UNCHANGED apiFaults)
  /\ Goto(d, "decline")
  /\ UNCHANGED <<request, status, outcome, known, rem, snoozed, stack, cut, storeFaults, cuts, kills>>

\* It fails: failDelete.  An entity that is gone already is an error too.
DeleteFails(d) ==
  /\ pc[d] = "delete"
  /\ ApiFault(d) \/ (Live(d) /\ entity[d] \notin library /\ UNCHANGED apiFaults)
  /\ Decide(d, "failed", "remediate")
  /\ UNCHANGED <<request, status, known, rem, snoozed, stack, cut, storeFaults, cuts, kills>>

\* The entity is deleted but the answer is lost to a timeout or to the end of
\* the context: a failure like any other to failDelete.
DeleteLost(d) ==
  /\ pc[d] = "delete" /\ entity[d] \in library /\ ApiFault(d)
  /\ library' = library \ {entity[d]}
  /\ Decide(d, "failed", "remediate")
  /\ UNCHANGED <<request, status, known, rem, snoozed, declined, hinted, cut, storeFaults, cuts, kills>>

\* declineOverseerrRequests: best effort, skipped without an Overseerr client or
\* an external id, which a title the app does have may lack.
Decline(d) ==
  /\ pc[d] = "decline"
  /\ \/ /\ Live(d) /\ d \in known
        /\ declined' = declined \cup {entity[d]} /\ UNCHANGED apiFaults
     \/ UNCHANGED <<declined, apiFaults>>
     \/ /\ d \in known /\ ApiFault(d) /\ UNCHANGED declined
  /\ Goto(d, "hint")
  /\ UNCHANGED <<request, status, outcome, known, rem, snoozed, library, hinted, cut, storeFaults, cuts, kills>>

\* sendQbitDeleteHint: best effort (PeerChannel has the delivery).
SendHint(d) ==
  /\ pc[d] = "hint"
  /\ \/ /\ Live(d) /\ hinted' = hinted \cup {d} /\ UNCHANGED apiFaults
     \/ /\ Live(d) /\ UNCHANGED <<hinted, apiFaults>>  \* no peer, or no hashes
     \/ /\ ApiFault(d) /\ UNCHANGED hinted
  /\ Decide(d, "executed", "remediate")
  /\ UNCHANGED <<request, status, known, rem, snoozed, library, declined, cut, storeFaults, cuts, kills>>

\* recordDeleteRemediation: a failure is only logged.
RecordRemediation(d) ==
  /\ pc[d] = "remediate"
  /\ \/ /\ Live(d) /\ rem' = [rem EXCEPT ![d] = outcome[d]] /\ UNCHANGED storeFaults
     \/ /\ StoreFault(d) /\ UNCHANGED rem
  /\ Goto(d, "mark")
  /\ UNCHANGED <<request, status, outcome, known, snoozed, stack, cut, apiFaults, cuts, kills>>

\* Mutants: every finished decision is marked executed; only "executed" is written.
Marked_Executed(d) == "executed"
Marked_OnlyExecuted(d) == IF outcome[d] = "executed" THEN "executed" ELSE status[d]

\* The status MarkDecision writes.
Marked(d) == outcome[d]

\* Store.MarkDecision, the last step of every path.
MarkDecision(d) ==
  /\ pc[d] = "mark"
  /\ \/ /\ Live(d) /\ status' = [status EXCEPT ![d] = Marked(d)] /\ UNCHANGED storeFaults
     \/ /\ StoreFault(d) /\ UNCHANGED status
  /\ Goto(d, "end")
  /\ UNCHANGED <<request, outcome, known, rem, snoozed, stack, cut, apiFaults, cuts, kills>>

\* The browser goes away, Ctrl-C, or the daemon is told to stop.
Cut(d) ==
  /\ Live(d) /\ pc[d] \notin {"new", "end"}
  /\ cuts < MaxCuts /\ cuts' = cuts + 1
  /\ cut' = cut \cup {d}
  /\ UNCHANGED <<request, pc, status, outcome, known, rem, snoozed, stack, apiFaults, storeFaults, kills>>

\* The process is killed.
Kill(d) ==
  /\ pc[d] \notin {"new", "end"}
  /\ kills < MaxKills /\ kills' = kills + 1
  /\ Goto(d, "end")
  /\ UNCHANGED <<request, status, outcome, known, rem, snoozed, stack, cut, apiFaults, storeFaults, cuts>>

Executor(d) ==
  \/ LoadFails(d) \/ Dispatch(d) \/ Snooze(d) \/ Lookup(d) \/ Delete(d)
  \/ DeleteFails(d) \/ DeleteLost(d) \/ Decline(d) \/ SendHint(d)
  \/ RecordRemediation(d) \/ MarkDecision(d)

Next == \E d \in Decisions : 
  \/ HandleDecisionsPost(d) \/ RunDecide(d) \/ Executor(d) \/ Cut(d) \/ Kill(d)

Spec == Init /\ [][Next]_vars

\* An executor that was started runs on: its calls have timeouts.
FairSpec == Spec /\ \A d \in Decisions : WF_vars(Executor(d))

-----------------------------------------------------------------------------

Outcomes == {"none", "executed", "failed", "blocked"}

\* Every variable keeps its type.
TypeOK ==
  /\ pc \in [Decisions -> {"new", "load", "snooze", "lookup", "delete", "decline",
                           "hint", "remediate", "mark", "end"}]
  /\ status \in [Decisions -> Outcomes \cup {"pending"}]
  /\ outcome \in [Decisions -> Outcomes] /\ rem \in [Decisions -> Outcomes]
  /\ known \in SUBSET Decisions /\ hinted \in SUBSET Decisions /\ cut \in SUBSET Decisions
  /\ enabled \in BOOLEAN /\ kind \in [Decisions -> {"none", "keep", "delete"}]
  /\ entity \in [Decisions -> Entities \cup BadKeys \cup {"none"}]
  /\ snoozed \in SUBSET (Entities \cup BadKeys)
  /\ library \in SUBSET Entities /\ declined \in SUBSET Entities
  /\ apiFaults \in Nat /\ storeFaults \in Nat /\ cuts \in Nat /\ kills \in Nat

\* The stack follows the library: an Overseerr request is declined, and the
\* peer told to delete torrents, only for an entity that Sonarr or Radarr has
\* really given up, however the delete failed and whoever else is at work.
FollowUpsAfterDelete ==
  /\ declined \cap library = {}
  /\ \A d \in hinted : entity[d] \notin library

\* A delete that its row or its remediation calls executed has happened, of
\* several deletes of one entity at most one is called so, and the entity of
\* an executed keep is snoozed.
ExecutedIsDone ==
  /\ \A d \in Decisions :
       kind[d] = "keep" /\ status[d] = "executed" => entity[d] \in snoozed
  /\ \A d \in Decisions :
       kind[d] = "delete" /\ "executed" \in {status[d], rem[d]} => entity[d] \notin library
  /\ \A d, e \in Decisions :
       /\ d # e /\ entity[d] = entity[e] /\ kind[d] = "delete" /\ kind[e] = "delete"
       => ~("executed" \in {status[d], rem[d]} /\ "executed" \in {status[e], rem[e]})

\* The two records of a delete never contradict each other, and the status
\* never gets ahead of the remediation unless the store failed.
TrailAgrees ==
  \A d \in Decisions : kind[d] = "delete" /\ status[d] \notin {"none", "pending"} =>
    \/ rem[d] = status[d]
    \/ rem[d] = "none" /\ storeFaults > 0

\* With actions disabled nothing of the media stack changes, and a delete that
\* runs to its end is on record as blocked.
GateHolds ==
  ~enabled =>
    /\ library = Entities /\ declined = {} /\ hinted = {}
    /\ \A d \in Decisions : kind[d] = "delete" => status[d] \in {"none", "pending", "blocked"}

\* No decision stays pending: every path of Execute ends in MarkDecision, the
\* gated delete, the malformed key and the client that is not configured
\* included.  Only a failing statement, a context that ended or a process that
\* died leaves a pending row behind, and then nothing takes it up again.
Drained ==
  \A d \in Decisions :
    (status[d] = "pending") ~> (status[d] # "pending" \/ storeFaults + cuts + kills > 0)

\* web/handlers_decisions.go: "Delete decisions record a remediations row on
\* every outcome (decision.Execute's recordDeleteRemediation), so that table
\* is this page's only durable trail for what happened to a delete."  Not an
\* invariant: the row of a request whose context has ended is not written.
OutcomeRecorded ==
  \A d \in Decisions :
    kind[d] = "delete" /\ pc[d] = "end" /\ outcome[d] # "none" => rem[d] # "none"

=============================================================================
