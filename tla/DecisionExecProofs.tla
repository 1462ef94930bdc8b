-------------------------- MODULE DecisionExecProofs --------------------------
(***************************************************************************)
(* What DecisionExec guarantees for any number of decisions and entities,  *)
(* failing calls and statements, ended contexts and killed processes.      *)
(*                                                                         *)
(* The records follow the steps (Progress): until the last two steps of an *)
(* executor nothing is recorded, and then only what it has decided, so     *)
(* whatever is recorded leads back to the outcome.  A delete that is under *)
(* way past its call, or decided to be executed, is a `Winner': its entity *)
(* has left the library, the library never gets one back, and only a call  *)
(* that finds the entity there makes a winner, so an entity has one.       *)
(***************************************************************************)
EXTENDS DecisionExec, TLAPS

Before == {"load", "snooze", "lookup", "delete", "decline", "hint"}
Calls == {"lookup", "delete", "decline", "hint"}

\* Which decisions are at which step, and what they can have recorded there.
Progress ==
  \A d \in Decisions :
    /\ pc[d] = "new" <=> kind[d] = "none"
    /\ pc[d] # "new" => entity[d] \in Entities \cup BadKeys
    /\ pc[d] = "new" => status[d] = "none" /\ d \notin hinted
    /\ pc[d] \in Before \cup {"new"} => outcome[d] = "none"
    /\ pc[d] \in Before \cup {"new", "remediate"} => rem[d] = "none"
    /\ pc[d] \in Before \cup {"remediate", "mark"} => status[d] = "pending"
    /\ pc[d] \in {"remediate", "mark"} => outcome[d] # "none"
    /\ pc[d] = "snooze" => kind[d] = "keep"
    /\ pc[d] \in Calls \cup {"remediate"} => kind[d] = "delete"
    /\ pc[d] \in Calls => enabled /\ entity[d] \in Configured
    /\ rem[d] \in {"none", outcome[d]}
    /\ status[d] \in {"none", "pending", outcome[d]}

\* Only a failed statement or an ended context skips a remediations row, and
\* with an ended context the status is not written either.
RowSkipped ==
  \A d \in Decisions : kind[d] = "delete" /\ rem[d] = "none" =>
    /\ pc[d] = "mark" => storeFaults > 0 \/ d \in cut
    /\ status[d] \notin {"none", "pending"} => storeFaults > 0

Winner(d) == kind[d] = "delete" /\ (pc[d] \in {"decline", "hint"} \/ outcome[d] = "executed")

\* What the media stack has seen of the decisions.
StackAgrees ==
  /\ \A d \in Decisions : Winner(d) => entity[d] \notin library
  /\ \A d, e \in Decisions : Winner(d) /\ Winner(e) /\ d # e => entity[d] # entity[e]
  /\ \A d \in Decisions : kind[d] = "keep" /\ outcome[d] = "executed" => entity[d] \in snoozed
  /\ declined \cap library = {}
  /\ \A d \in hinted : entity[d] \notin library

\* Behind the gate no call is made.
Gate ==
  ~enabled =>
    /\ library = Entities /\ declined = {} /\ hinted = {}
    /\ \A d \in Decisions : kind[d] = "delete" => outcome[d] \in {"none", "blocked"}

DecisionInv == TypeOK /\ Progress /\ RowSkipped /\ StackAgrees /\ Gate

-----------------------------------------------------------------------------

\* Nothing is decided and nothing has happened.
LEMMA InitDecision == Init => DecisionInv
BY DecisionAssumption
   DEF Init, DecisionInv, TypeOK, Progress, RowSkipped, StackAgrees, Gate, Winner,
       Before, Calls, Outcomes, DecisionAssumption

\* A new decision, from the page or from the command.
LEMMA CreateKeepsDecision ==
  ASSUME DecisionInv, NEW d \in Decisions, NEW knd \in {"keep", "delete"},
         NEW e \in Entities \cup BadKeys, CreateDecision(d, knd, e)
  PROVE  DecisionInv'
BY DEF CreateDecision, Goto, request, stack, faults, DecisionInv, TypeOK, Progress, RowSkipped,
       StackAgrees, Gate, Winner, Before, Calls, Outcomes

\* A step of an executor.
LEMMA ExecutorKeepsDecision ==
  ASSUME DecisionInv, NEW d \in Decisions, Executor(d)
  PROVE  DecisionInv'
<1> USE DecisionAssumption DEF DecisionAssumption, Goto, Decide, ApiFault, StoreFault, Live, request, stack, faults,
        DecisionInv, TypeOK, Progress, RowSkipped, StackAgrees, Gate, Winner, Before, Calls, Outcomes
<1>1. CASE LoadFails(d) BY <1>1 DEF LoadFails
<1>2. CASE Dispatch(d) BY <1>2 DEF Dispatch, Dispatched
<1>3. CASE Snooze(d) BY <1>3 DEF Snooze
<1>4. CASE Lookup(d) BY <1>4 DEF Lookup
<1>5. CASE Delete(d) BY <1>5 DEF Delete
<1>6. CASE DeleteFails(d) BY <1>6 DEF DeleteFails
<1>7. CASE DeleteLost(d) BY <1>7 DEF DeleteLost
<1>8. CASE Decline(d) BY <1>8 DEF Decline
<1>9. CASE SendHint(d) BY <1>9 DEF SendHint
<1>10. CASE RecordRemediation(d) BY <1>10 DEF RecordRemediation
<1>11. CASE MarkDecision(d) BY <1>11 DEF MarkDecision, Marked
<1> QED BY <1>1, <1>2, <1>3, <1>4, <1>5, <1>6, <1>7, <1>8, <1>9, <1>10, <1>11 DEF Executor

\* Every behaviour keeps the invariant.
THEOREM DecisionInvariant == Spec => []DecisionInv
<1>1. DecisionInv /\ [Next]_vars => DecisionInv'
  <2> SUFFICES ASSUME DecisionInv, [Next]_vars PROVE DecisionInv' OBVIOUS
  <2>1. ASSUME NEW d \in Decisions, HandleDecisionsPost(d) PROVE DecisionInv'
    BY <2>1, CreateKeepsDecision, DecisionAssumption DEF HandleDecisionsPost, DecisionAssumption
  <2>2. ASSUME NEW d \in Decisions, RunDecide(d) PROVE DecisionInv'
    BY <2>2, CreateKeepsDecision DEF RunDecide
  <2>3. ASSUME NEW d \in Decisions, Executor(d) PROVE DecisionInv'
    BY <2>3, ExecutorKeepsDecision
  <2>4. ASSUME NEW d \in Decisions, Cut(d) PROVE DecisionInv'
    BY <2>4 DEF Cut, Live, request, stack, DecisionInv, TypeOK, Progress, RowSkipped, StackAgrees,
                Gate, Winner, Before, Calls, Outcomes
  <2>5. ASSUME NEW d \in Decisions, Kill(d) PROVE DecisionInv'
    BY <2>5 DEF Kill, Goto, request, stack, DecisionInv, TypeOK, Progress, RowSkipped, StackAgrees,
                Gate, Winner, Before, Calls, Outcomes
  <2>6. CASE UNCHANGED vars
    BY <2>6 DEF vars, request, stack, faults, DecisionInv, TypeOK, Progress, RowSkipped, StackAgrees,
                Gate, Winner, Before, Calls, Outcomes
  <2> QED BY <2>1, <2>2, <2>3, <2>4, <2>5, <2>6 DEF Next
<1> QED BY InitDecision, <1>1, PTL DEF Spec

-----------------------------------------------------------------------------

\* An Overseerr request is declined and the peer told to delete torrents only
\* for an entity that has left the library, whatever failed and whoever else
\* is deleting it.
THEOREM FollowUpsAfterDeleteHolds == Spec => []FollowUpsAfterDelete
<1>1. DecisionInv => FollowUpsAfterDelete
  BY DEF DecisionInv, StackAgrees, FollowUpsAfterDelete
<1> QED BY <1>1, DecisionInvariant, PTL

\* What a row or a remediation calls executed has been done, and of several
\* deletes of one entity at most one is called so.
THEOREM ExecutedIsDoneHolds == Spec => []ExecutedIsDone
<1>1. DecisionInv => ExecutedIsDone
  <2> SUFFICES ASSUME DecisionInv PROVE ExecutedIsDone OBVIOUS
  <2>1. \A d \in Decisions : "executed" \in {status[d], rem[d]} => outcome[d] = "executed"
    BY DEF DecisionInv, Progress
  <2> QED BY <2>1 DEF DecisionInv, StackAgrees, Winner, ExecutedIsDone
<1> QED BY <1>1, DecisionInvariant, PTL

\* The status of a delete and its remediations row agree, and the row is
\* missing only where the store failed.
THEOREM TrailAgreesHolds == Spec => []TrailAgrees
<1>1. DecisionInv => TrailAgrees
  BY DEF DecisionInv, Progress, RowSkipped, TrailAgrees
<1> QED BY <1>1, DecisionInvariant, PTL

\* With actions disabled the media stack stays as it is, and a delete ends
\* blocked if it gets to a status at all.
THEOREM GateHeld == Spec => []GateHolds
<1>1. DecisionInv => GateHolds
  BY DEF DecisionInv, Progress, Gate, GateHolds
<1> QED BY <1>1, DecisionInvariant, PTL

=============================================================================
