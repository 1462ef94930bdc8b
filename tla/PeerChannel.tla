----------------------------- MODULE PeerChannel -----------------------------
(***************************************************************************)
(* The channel between the two nodes: peer.HTTPClient with its timeout and *)
(* retries on one side, the peer server and the agent's handlers on the    *)
(* other.  A handler works in several steps, each its own transaction; its *)
(* context ends when the client hangs up, but what it has begun may still  *)
(* complete, so every attempt of a message can leave effects behind        *)
(* although the client has long moved on to the next one.                  *)
(***************************************************************************)
EXTENDS Integers, FiniteSets

CONSTANTS
  Msgs,            \* calls the client makes, one message each
  Retries,         \* peer.DefaultRetries
  MaxNetFaults,    \* bound: attempts that time out or lose their connection
  MaxStoreFaults,  \* bound: statements that fail on either node
  MaxCrashes,      \* bound: restarts of the receiving daemon
  MaxCancels       \* bound: callers that give up

ASSUME ChannelAssumption == Retries \in Nat

VARIABLES
  call,      \* call[m]: the caller's doWithRetry
  kind,      \* kind[m]: a report, a (qbit_delete) decision or a heartbeat
  flaw,      \* flaw[m]: what is wrong with the message, if anything
  enabled,   \* cfg.Actions.Enabled of the receiving node
  ctxDone,   \* the messages whose caller's context has ended
  req,       \* req[q]: the handler of request q = <<m, attempt>>
  saved,     \* saved[m]: reports SaveReport committed for m
  recorded,  \* recorded[m]: inbound peer_messages rows of m
  acted,     \* acted[m]: qBittorrent deletes attempted for m
  noted,     \* noted[m]: qbit_delete remediations rows of m
  logged,    \* logged[m]: outbound peer_messages rows of m
  netFaults, storeFaults, crashes, cancels

server == <<saved, recorded, acted, noted>>
bounds == <<netFaults, storeFaults, crashes, cancels>>
input == <<kind, flaw, enabled>>
vars == <<call, input, ctxDone, req, server, logged, bounds>>

-----------------------------------------------------------------------------

Kinds == {"report", "decision", "heartbeat"}
Flaws == {"none", "token", "body", "ownNode"}
Requests == Msgs \X (0..Retries)
Results == {"none", "ok", "unauthorized", "refused", "unavailable", "cancelled"}
Replies == {"none", "2xx", "401", "4xx", "5xx"}
Steps == {"none", "sent", "save", "record", "act", "note", "hung", "reply", "closed"}

CallType == [pc : {"new", "await", "backoff", "returned", "end"},
             attempt : 0..Retries, result : Results]

Now(m) == <<m, call[m].attempt>>

\* The client no longer waits for q: the handler's context is cancelled.
HungUp(q) == ~(call[q[1]].pc = "await" /\ call[q[1]].attempt = q[2])

At(step) == [pc |-> step, reply |-> "none"]
Replying(code) == [pc |-> "reply", reply |-> code]

Init ==
  /\ call = [m \in Msgs |-> [pc |-> "new", attempt |-> 0, result |-> "none"]]
  /\ kind = [m \in Msgs |-> "heartbeat"] /\ flaw = [m \in Msgs |-> "none"]
  /\ enabled \in BOOLEAN
  /\ ctxDone = {}
  /\ req = [q \in Requests |-> At("none")]
  /\ saved = [m \in Msgs |-> 0] /\ recorded = [m \in Msgs |-> 0]
  /\ acted = [m \in Msgs |-> 0] /\ noted = [m \in Msgs |-> 0]
  /\ logged = [m \in Msgs |-> 0]
  /\ netFaults = 0 /\ storeFaults = 0 /\ crashes = 0 /\ cancels = 0

-----------------------------------------------------------------------------
(* The client: doWithRetry. *)

\* PushReport, SendDecision or Heartbeat: the first attempt.  The token, the
\* size of the body and the node name are whatever the two configurations say.
Send(m) ==
  /\ call[m].pc = "new"
  /\ \E k \in Kinds, f \in Flaws :
       kind' = [kind EXCEPT ![m] = k] /\ flaw' = [flaw EXCEPT ![m] = f]
  /\ call' = [call EXCEPT ![m].pc = "await"]
  /\ req' = [req EXCEPT ![Now(m)] = At("sent")]
  /\ UNCHANGED <<enabled, ctxDone, server, logged, bounds>>

Returns(m, result) == [call[m] EXCEPT !.pc = "returned", !.result = result]

\* Mutants: an attempt's own timeout is taken for the caller's cancellation;
\* the attempts are not counted.
AfterFailure_TimeoutIsCancel(m) == Returns(m, "cancelled")

AfterFailure_Forever(m) ==
  IF m \in ctxDone THEN Returns(m, "cancelled")
  ELSE [call[m] EXCEPT !.pc = "backoff", !.attempt = 0]

\* A transport error, a timeout or a 5xx: whether the caller gave up is
\* answered by its own context, else the attempt is retried while any is left.
AfterFailure(m) ==
  CASE m \in ctxDone -> Returns(m, "cancelled")
    [] m \notin ctxDone /\ call[m].attempt < Retries -> [call[m] EXCEPT !.pc = "backoff"]
    [] OTHER -> Returns(m, "unavailable")

\* How doWithRetry takes an answer with status code.
Answered(m, code) ==
  CASE code = "2xx" -> Returns(m, "ok")
    [] code = "401" /\ m \notin ctxDone -> Returns(m, "unauthorized")
    [] code = "4xx" /\ m \notin ctxDone -> Returns(m, "refused")
    [] OTHER -> AfterFailure(m)

\* The answer arrives before the timeout.
Receive(m) ==
  LET code == req[Now(m)].reply IN
  /\ call[m].pc = "await" /\ code # "none"
  /\ req' = [req EXCEPT ![Now(m)] = At("closed")]
  /\ call' = [call EXCEPT ![m] = Answered(m, code)]
  /\ UNCHANGED <<input, ctxDone, server, logged, bounds>>

\* http.Client.Timeout, a refused or a broken connection, a lost answer.
AttemptFails(m) ==
  /\ call[m].pc = "await"
  /\ IF req[Now(m)].pc = "closed" \/ m \in ctxDone
     THEN netFaults' = netFaults
     ELSE netFaults < MaxNetFaults /\ netFaults' = netFaults + 1
  /\ call' = [call EXCEPT ![m] = AfterFailure(m)]
  /\ UNCHANGED <<input, ctxDone, req, server, logged, storeFaults, crashes, cancels>>

\* waitFor ends: the next attempt, or the caller's cancellation.
Retry(m) ==
  /\ call[m].pc = "backoff" /\ m \notin ctxDone
  /\ call' = [call EXCEPT ![m].pc = "await", ![m].attempt = @ + 1]
  /\ req' = [req EXCEPT ![<<m, call[m].attempt + 1>>] = At("sent")]
  /\ UNCHANGED <<input, ctxDone, server, logged, bounds>>

StopWaiting(m) ==
  /\ call[m].pc = "backoff" /\ m \in ctxDone
  /\ call' = [call EXCEPT ![m] = Returns(m, "cancelled")]
  /\ UNCHANGED <<input, ctxDone, req, server, logged, bounds>>

\* SavePeerMessage writes the outbound row; it is lost, with a log line, when
\* the store fails or the context is done.
SaveOutbound(m) ==
  \/ /\ m \notin ctxDone
     /\ logged' = [logged EXCEPT ![m] = @ + 1] /\ UNCHANGED storeFaults
  \/ /\ m \notin ctxDone
     /\ storeFaults < MaxStoreFaults /\ storeFaults' = storeFaults + 1
     /\ UNCHANGED logged
  \/ m \in ctxDone /\ UNCHANGED <<logged, storeFaults>>

\* pushReport records the attempt, whatever its outcome.
LogReport(m) == kind[m] = "report" /\ SaveOutbound(m)

\* So does SendHeartbeat; its caller logs the error of a lost row.
LogHeartbeat(m) == kind[m] = "heartbeat" /\ SaveOutbound(m)

\* sendQbitDeleteHint leaves no outbound row.
LogNothing(m) == kind[m] = "decision" /\ UNCHANGED <<logged, storeFaults>>

\* The caller has its result.
Logged(m) ==
  /\ call[m].pc = "returned"
  /\ call' = [call EXCEPT ![m].pc = "end"]
  /\ LogReport(m) \/ LogHeartbeat(m) \/ LogNothing(m)
  /\ UNCHANGED <<input, ctxDone, req, server, netFaults, crashes, cancels>>

\* The daemon shuts down or the browser closes the page that caused the call.
Cancel(m) ==
  /\ call[m].pc \in {"await", "backoff"} /\ m \notin ctxDone
  /\ cancels < MaxCancels /\ cancels' = cancels + 1
  /\ ctxDone' = ctxDone \cup {m}
  /\ UNCHANGED <<input, call, req, server, logged, netFaults, storeFaults, crashes>>

-----------------------------------------------------------------------------
(* The server: authMiddleware, decodeBody, and the agent's handlers. *)

\* Mutant: a decision is executed before it is recorded.
Routed_ActFirst(m) == IF kind[m] = "decision" THEN At("act") ELSE At("save")

\* authMiddleware, decodeBody, and the checks a handler starts with.
Routed(m) ==
  CASE flaw[m] = "token" -> Replying("401")
    [] flaw[m] = "body" -> Replying("4xx")
    [] flaw[m] = "ownNode" /\ kind[m] = "report" -> Replying("5xx")
    [] flaw[m] = "none" /\ kind[m] = "report" -> At("save")
    [] OTHER -> At("record")

Handle(q) ==
  /\ req[q].pc = "sent"
  /\ req' = [req EXCEPT ![q] = Routed(q[1])]
  /\ UNCHANGED <<input, call, ctxDone, server, logged, bounds>>

\* ReceiveReport: Store.SaveReport commits.
SaveReport(q) ==
  /\ req[q].pc = "save"
  /\ saved' = [saved EXCEPT ![q[1]] = @ + 1]
  /\ req' = [req EXCEPT ![q] = At("record")]
  /\ UNCHANGED <<input, call, ctxDone, recorded, acted, noted, logged, bounds>>

\* ReceiveDecision goes on to executeQbitDelete; the others are done.
AfterRecord(m) == IF kind[m] = "decision" THEN At("act") ELSE Replying("2xx")

\* recordInbound.
RecordInbound(q) ==
  /\ req[q].pc = "record"
  /\ recorded' = [recorded EXCEPT ![q[1]] = @ + 1]
  /\ req' = [req EXCEPT ![q] = AfterRecord(q[1])]
  /\ UNCHANGED <<input, call, ctxDone, saved, acted, noted, logged, bounds>>

\* executeQbitDelete calls qBittorrent, which takes any time and may fail.
DeleteTorrents(q) ==
  /\ req[q].pc = "act" /\ enabled
  /\ acted' = [acted EXCEPT ![q[1]] = @ + 1]
  /\ req' = [req EXCEPT ![q] = At("note")]
  /\ UNCHANGED <<input, call, ctxDone, saved, recorded, noted, logged, bounds>>

\* executeQbitDelete does not get that far: actions disabled, no hashes in
\* the payload, no client, or the context is already done.
SkipDelete(q) ==
  /\ req[q].pc = "act"
  /\ req' = [req EXCEPT ![q] = At("note")]
  /\ UNCHANGED <<input, call, ctxDone, server, logged, bounds>>

\* The call to qBittorrent has reached it but does not come back.
HangInDelete(q) ==
  /\ req[q].pc = "act" /\ enabled
  /\ acted' = [acted EXCEPT ![q[1]] = @ + 1]
  /\ req' = [req EXCEPT ![q] = At("hung")]
  /\ UNCHANGED <<input, call, ctxDone, saved, recorded, noted, logged, bounds>>

\* recordQbitDeleteRemediation.
RecordRemediation(q) ==
  /\ req[q].pc = "note"
  /\ noted' = [noted EXCEPT ![q[1]] = @ + 1]
  /\ req' = [req EXCEPT ![q] = Replying("2xx")]
  /\ UNCHANGED <<input, call, ctxDone, saved, recorded, acted, logged, bounds>>

\* Mutant: a message that could not be recorded is acknowledged.
AfterStoreFault_Acked(q) ==
  IF req[q].pc = "save" THEN Replying("5xx") ELSE Replying("2xx")

\* A failed save or record is an internal error; a failed remediation row is
\* only logged.
AfterStoreFault(q) ==
  IF req[q].pc \in {"save", "record"} THEN Replying("5xx") ELSE Replying("2xx")

\* The statement fails, or the handler's context ended with the connection.
StoreFails(q) ==
  /\ req[q].pc \in {"save", "record", "note"}
  /\ IF HungUp(q)
     THEN storeFaults' = storeFaults
     ELSE storeFaults < MaxStoreFaults /\ storeFaults' = storeFaults + 1
  /\ req' = [req EXCEPT ![q] = AfterStoreFault(q)]
  /\ UNCHANGED <<input, call, ctxDone, server, logged, netFaults, crashes, cancels>>

\* The receiving daemon dies and comes back: its handlers are gone.
Crash ==
  /\ crashes < MaxCrashes /\ crashes' = crashes + 1
  /\ req' = [q \in Requests |-> IF req[q].pc = "none" THEN req[q] ELSE At("closed")]
  /\ UNCHANGED <<input, call, ctxDone, server, logged, netFaults, storeFaults, cancels>>

ClientStep(m) ==
  Send(m) \/ Receive(m) \/ AttemptFails(m) \/ Retry(m) \/ StopWaiting(m) \/ Logged(m)

Handler(q) ==
  \/ Handle(q) \/ SaveReport(q) \/ RecordInbound(q) \/ DeleteTorrents(q)
  \/ SkipDelete(q) \/ RecordRemediation(q)

Next ==
  \/ \E m \in Msgs : ClientStep(m) \/ Cancel(m)
  \/ \E q \in Requests : Handler(q) \/ HangInDelete(q) \/ StoreFails(q)
  \/ Crash

Spec == Init /\ [][Next]_vars

\* The client's goroutine runs and its timers fire; a handler of the other
\* node makes progress unless it hangs or its node restarts.
FairSpec ==
  /\ Spec
  /\ \A m \in Msgs : WF_vars(ClientStep(m))
  /\ \A q \in Requests : WF_vars(Handler(q))

-----------------------------------------------------------------------------

\* Every variable keeps its type.
TypeOK ==
  /\ call \in [Msgs -> CallType]
  /\ kind \in [Msgs -> Kinds] /\ flaw \in [Msgs -> Flaws] /\ enabled \in BOOLEAN
  /\ ctxDone \in SUBSET Msgs
  /\ req \in [Requests -> [pc : Steps, reply : Replies]]
  /\ \A f \in {saved, recorded, acted, noted, logged} : f \in [Msgs -> Nat]
  /\ netFaults \in Nat /\ storeFaults \in Nat /\ crashes \in Nat /\ cancels \in Nat

\* An acknowledgement is never given in advance: when the call succeeds the
\* message is in peer_messages and a report is in the store, whichever of its
\* attempts did it and whatever failed on the way.
AckMeansStored ==
  \A m \in Msgs : call[m].result = "ok" =>
    recorded[m] >= 1 /\ (kind[m] = "report" => saved[m] >= 1)

\* Every torrent delete and every remediation row stands on a recorded
\* message of its own attempt: the audit log is never behind the actions.
ActedIsRecorded ==
  \A m \in Msgs : acted[m] <= recorded[m] /\ noted[m] <= recorded[m]

\* A refusal, which no caller repeats, means that no attempt of the message
\* left anything behind: what has been stored is never reported as refused.
RefusedLeavesNothing ==
  \A m \in Msgs : call[m].result \in {"unauthorized", "refused"} =>
    saved[m] = 0 /\ recorded[m] = 0 /\ acted[m] = 0

\* A call returns although the peer never answers: its attempts are bounded
\* and each has its timeout, so a cycle or a request handler is not held up.
CallReturns == \A m \in Msgs : (call[m].pc = "await") ~> (call[m].result # "none")

\* As long as no more attempts fail than there are retries, whether they time
\* out, break, meet a failing store or a restart, and the caller waits, a
\* sound message gets through.
Delivered ==
  \A m \in Msgs : (call[m].pc = "await" /\ flaw[m] = "none") ~>
    (call[m].result = "ok" \/ m \in ctxDone \/ netFaults + storeFaults + crashes > Retries)

\* handler.go, on ReceiveDecision: "a problem executing it can't make the Pi
\* retry redelivering (and re-attempting) the same decision".  Not an
\* invariant: a delete that outlasts the client's timeout is sent again.
DecisionOnce == \A m \in Msgs : acted[m] <= 1

=============================================================================
