------------------------------- MODULE Digest -------------------------------
(***************************************************************************)
(* The Pi's mails: the daily digest (agent.SendDigest), which reads the     *)
(* store one statement after the other while cycles, pushed reports and     *)
(* decisions go on, `healarr notify test` in a second process, the outbox   *)
(* both write, and the nightly pruning of peer_messages that the digest     *)
(* judges the peer by.  Both processes open the file first (StoreFile) and  *)
(* either may be killed at any moment; systemd starts the daemon again.     *)
(*                                                                          *)
(* What the digest lists is a set of items, each read from one of four      *)
(* places; `always' and `ever' are history: what was there all the time,    *)
(* or at some time, since the digest began to read.                         *)
(***************************************************************************)
EXTENDS StoreFile, Sequences, FiniteSetsExt

CONSTANTS
  Daemon, Tester,    \* `healarr agent serve', `healarr notify test'
  Items,             \* findings, cleanup plans and decisions that may come and go
  Section,           \* Section[i]: "own", "peer", "plans" or "decisions"
  Severity,          \* Severity[i], "critical", "warn" or "info"
  Score,             \* Score[i]: the score of a staleness_scan finding, 0 for any other item
  TopN,              \* stalenessTopN
  PeerStaleAfter, Retention,  \* config.Agent, in units of the clock
  MaxTime, MaxEvents, MaxMails, MaxFaults  \* bounds; a kill is a fault

ASSUME ProcsAssumption == Procs = {Daemon, Tester} /\ Daemon # Tester
ASSUME ItemsAssumption ==
  /\ IsFiniteSet(Items) /\ Section \in [Items -> {"own", "peer", "plans", "decisions"}]
  /\ Score \in [Items -> Int] /\ TopN \in Nat
ASSUME ClockAssumption == PeerStaleAfter \in Nat /\ Retention \in Nat

VARIABLES
  now,         \* the clock: a unit is longer than a request or a digest takes
  status,      \* status[i]: "absent", "open" or "snoozed" (findings only)
  messages,    \* inbound peer_messages: kind and received_at
  peerReport,  \* when the peer's latest report was saved, -1: there is none
  inbound,     \* ReceiveReport is between its two transactions
  outbox,      \* email_outbox: who wrote the row and its status
  delivered,   \* delivered[r]: how often msmtp delivered the mail of row r
  refused,     \* rows for which msmtp reported an error
  pc, row,     \* pc[p]: where p is; row[p]: the outbox row it works on, 0: none
  view,        \* the DigestInput being built
  always, ever,
  heard, heardBefore,  \* history: when a report was last recorded, up to now and when the digest began; -1: never
  cut,         \* history: rows whose writer was killed or whose mark failed
  events, faults

mailVars == <<outbox, delivered, refused, row, cut>>
worldVars == <<status, messages, peerReport, inbound, heard>>
historyVars == <<always, ever, heardBefore>>
vars == <<fileVars, now, worldVars, mailVars, pc, view, historyVars, events, faults>>

Findings == {i \in Items : Section[i] \in {"own", "peer"}}
Staleness == {i \in Findings : Score[i] > 0}
Reading == {"own", "message", "report", "findings", "plans", "decisions"}
EmptyView == [shown |-> {}, stale |-> {}, peer |-> "none", last |-> -1, report |-> -1, judged |-> -1,
              subject |-> <<0, 0>>]

TypeOK ==
  /\ FileTypeOK
  /\ now \in 0..MaxTime
  /\ status \in [Items -> {"absent", "open", "snoozed"}]
  /\ messages \subseteq [kind : {"report", "heartbeat"}, at : 0..MaxTime]
  /\ peerReport \in -1..MaxTime /\ inbound \in BOOLEAN
  /\ outbox \in Seq([by : Procs, status : {"pending", "sent", "failed"}])
  /\ delivered \in [1..Len(outbox) -> Nat]
  /\ refused \union cut \subseteq 1..Len(outbox)
  /\ pc \in [Procs -> Reading \union {"off", "opening", "idle", "enqueue", "send", "hung", "sent", "failed", "close"}]
  /\ row \in [Procs -> 0..MaxMails]
  /\ view.shown \subseteq Items /\ view.stale \subseteq Staleness
  /\ view.peer \in {"none", "unavailable", "stale", "fresh"}
  /\ heard \in -1..MaxTime /\ heardBefore \in -1..heard
  /\ always \subseteq ever /\ ever \subseteq Items \X {"listed", "open"}

Init ==
  /\ FileInit
  /\ now = 0
  /\ status = [i \in Items |-> "absent"]
  /\ messages = {} /\ peerReport = -1 /\ inbound = FALSE
  /\ outbox = <<>> /\ delivered = <<>> /\ refused = {} /\ cut = {}
  /\ pc = [p \in Procs |-> "off"] /\ row = [p \in Procs |-> 0]
  /\ view = EmptyView /\ always = {} /\ ever = {}
  /\ heard = -1 /\ heardBefore = -1
  /\ events = 0 /\ faults = 0

-----------------------------------------------------------------------------
(* What the statements read. *)

(* OpenFindings returns open and snoozed rows alike; plans and decisions are there or not. *)
Listed(sec) == {i \in Items : Section[i] = sec /\ status[i] # "absent"}

(* openStalenessFindings: the staleness findings that are not snoozed. *)
OpenStaleness(sec) == {i \in Listed(sec) : Score[i] > 0 /\ status[i] # "snoozed"}

\* Mutant: heartbeats count as signs of a fresh report.
LastPeerMessageAt_AnyKind == Max({m.at : m \in messages} \union {-1})

(* LastPeerMessageAt(peer, "report"): the newest received_at, -1 when there is none. *)
LastPeerMessageAt == Max({m.at : m \in {x \in messages : x.kind = "report"}} \union {-1})

(* The order of collectStalenessFindings: by score, and this node's first among equal scores. *)
Ahead(i, j) == Score[i] > Score[j] \/ (Score[i] = Score[j] /\ Section[i] = "own" /\ Section[j] = "peer")

(* What buildStalenessLines may keep of the candidates: the first TopN in that order; which of two equals of one
   node comes first is up to the rows they were read from. *)
StalenessLines(candidates) ==
  {kept \in SUBSET candidates :
     /\ Cardinality(kept) = TopN \/ (kept = candidates /\ Cardinality(kept) <= TopN)
     /\ \A i \in kept, j \in candidates \ kept : ~Ahead(j, i)}

CountSeverity(items, sev) == Cardinality({i \in items : Section[i] \in {"own", "peer"} /\ Severity[i] = sev})

(* DigestInput.Subject: critical and warn findings of both nodes. *)
Subject(shown) == <<CountSeverity(shown, "critical"), CountSeverity(shown, "warn")>>

-----------------------------------------------------------------------------
(* SendDigest: each action is one statement of the store. *)

(* Bounded: everything that comes from outside the two processes. *)
Event == events < MaxEvents /\ events' = events + 1

Goto(p, place) == pc' = [pc EXCEPT ![p] = place]

NotedIn(st) == {<<i, "listed">> : i \in {x \in Items : st[x] # "absent"}}
                 \union {<<i, "open">> : i \in {x \in Items : st[x] = "open"}}

(* When SendDigest returns, what it read is gone. *)
Forget(p) ==
  IF p = Daemon THEN view' = EmptyView /\ always' = {} /\ ever' = {} /\ heardBefore' = -1
                ELSE UNCHANGED <<view, historyVars>>

(* The cron job of a Pi with a sender and a recipient (digestEnabled). *)
StartDigest ==
  /\ pc[Daemon] = "idle" /\ Len(outbox) < MaxMails
  /\ Goto(Daemon, "own")
  /\ view' = EmptyView
  /\ always' = NotedIn(status) /\ ever' = NotedIn(status) /\ heardBefore' = heard
  /\ UNCHANGED <<fileVars, now, worldVars, mailVars, events, faults>>

Read(place, next, newView) ==
  /\ pc[Daemon] = place
  /\ Goto(Daemon, next)
  /\ view' = newView
  /\ UNCHANGED <<fileVars, now, worldVars, mailVars, historyVars, events, faults>>

WithSection(v, sec) == [v EXCEPT !.shown = @ \union Listed(sec), !.stale = @ \union OpenStaleness(sec)]

(* LatestReport (its counters are left out) and OpenFindings of this node. *)
ReadOwn == Read("own", "message", WithSection(view, "own"))

(* buildPeerSection: no report message, no section. *)
ReadMessageAt ==
  LET last == LastPeerMessageAt IN
  IF last = -1 THEN Read("message", "plans", [view EXCEPT !.peer = "unavailable", !.judged = now])
               ELSE Read("message", "report", [view EXCEPT !.last = last])

ReadPeerReport == Read("report", "findings", [view EXCEPT !.report = peerReport])

\* Mutant: a stale peer's findings are left out.
ReadPeerFindings_FreshOnly ==
  Read("findings", "plans",
       [(IF now - view.last > PeerStaleAfter THEN view ELSE WithSection(view, "peer")) EXCEPT
          !.judged = now, !.peer = IF now - view.last > PeerStaleAfter THEN "stale" ELSE "fresh"])

(* OpenFindings of the peer, then the comparison of a.now() with the last report message. *)
ReadPeerFindings ==
  Read("findings", "plans",
       [WithSection(view, "peer") EXCEPT
          !.judged = now, !.peer = IF now - view.last > PeerStaleAfter THEN "stale" ELSE "fresh"])

(* recentCleanupPlans: an item of "plans" is there while the newest planned row of its kind is less than a day
   old. *)
ReadPlans == Read("plans", "decisions", [view EXCEPT !.shown = @ \union Listed("plans")])

(* RenderDigest with its subject, the staleness lines and both nodes' sections. *)
Rendered(v, lines) == [v EXCEPT !.stale = lines, !.subject = Subject(v.shown)]

(* PendingDecisions and BuildDigest. *)
ReadDecisions ==
  \E lines \in StalenessLines(view.stale) :
    Read("decisions", "enqueue", Rendered([view EXCEPT !.shown = @ \union Listed("decisions")], lines))

(* A statement before EnqueueEmail, or EnqueueEmail itself, fails: SendDigest returns and leaves no row. *)
DigestFails ==
  /\ pc[Daemon] \in Reading \union {"enqueue"} /\ faults < MaxFaults
  /\ Goto(Daemon, "idle")
  /\ Forget(Daemon)
  /\ faults' = faults + 1
  /\ UNCHANGED <<fileVars, now, worldVars, mailVars, events>>

-----------------------------------------------------------------------------
(* The outbox, written by SendDigest and runNotifyTest in the same order: enqueue, send, mark. *)

EnqueueEmail(p) ==
  /\ pc[p] = "enqueue" /\ Len(outbox) < MaxMails
  /\ outbox' = Append(outbox, [by |-> p, status |-> "pending"])
  /\ delivered' = Append(delivered, 0)
  /\ row' = [row EXCEPT ![p] = Len(outbox')]
  /\ Goto(p, "send")
  /\ UNCHANGED <<fileVars, now, worldVars, refused, cut, view, historyVars, events, faults>>

(* msmtp exits with zero after it has delivered the mail, and with an error before or after it did. *)
MsmtpEnds(p) ==
  /\ \/ Goto(p, "sent") /\ delivered' = [r \in DOMAIN delivered |-> delivered[r] + IF r = row[p] THEN 1 ELSE 0]
        /\ UNCHANGED <<refused, faults>>
     \/ /\ faults < MaxFaults /\ faults' = faults + 1
        /\ Goto(p, "failed")
        /\ refused' = refused \union ({row[p]} \ {0})
        /\ \E n \in {0, 1} :
             delivered' = [r \in DOMAIN delivered |-> delivered[r] + IF r = row[p] THEN n ELSE 0]
  /\ UNCHANGED <<fileVars, now, worldVars, outbox, row, cut, view, historyVars, events>>

(* MsmtpSender.Send: cmd.Run waits for msmtp.  A dry-run test has no row. *)
Send(p) == pc[p] = "send" /\ MsmtpEnds(p)

(* msmtp hangs: Send has no timeout, and its context ends with the process only.  Cron skips the digests that
   are due meanwhile. *)
MsmtpHangs(p) ==
  /\ pc[p] = "send"
  /\ Goto(p, "hung")
  /\ UNCHANGED <<fileVars, now, worldVars, mailVars, view, historyVars, events, faults>>

(* It may come back after any time, or never. *)
HungMsmtpEnds(p) == pc[p] = "hung" /\ MsmtpEnds(p)

(* SendDigest returns to cron; runNotifyTest closes the store and ends, at once after a dry run. *)
AfterMail(p) == IF p = Daemon THEN "idle" ELSE IF row[p] = 0 THEN "off" ELSE "close"

\* Mutant: the row is marked sent whatever msmtp answered.
Marked_Sent(p, result) == IF row[p] = 0 THEN outbox ELSE [outbox EXCEPT ![row[p]].status = "sent"]

Marked(p, result) == IF row[p] = 0 THEN outbox ELSE [outbox EXCEPT ![row[p]].status = result]

\* Mutant: a failed send returns before it is marked.
MarkEmail_OnlySent(p) ==
  /\ pc[p] \in {"sent", "failed"}
  /\ outbox' = IF pc[p] = "failed" THEN outbox ELSE Marked(p, pc[p])
  /\ Goto(p, AfterMail(p))
  /\ row' = [row EXCEPT ![p] = 0]
  /\ Forget(p)
  /\ UNCHANGED <<fileVars, now, worldVars, delivered, refused, cut, events, faults>>

(* MarkEmailSent or MarkEmailFailed. *)
MarkEmail(p) ==
  /\ pc[p] \in {"sent", "failed"}
  /\ outbox' = Marked(p, pc[p])
  /\ Goto(p, AfterMail(p))
  /\ row' = [row EXCEPT ![p] = 0]
  /\ Forget(p)
  /\ UNCHANGED <<fileVars, now, worldVars, delivered, refused, cut, events, faults>>

(* The mark fails: SendDigest logs it, runNotifyTest reports it; the row stays as it is. *)
MarkFails(p) ==
  /\ pc[p] \in {"sent", "failed"} /\ row[p] # 0 /\ faults < MaxFaults
  /\ Goto(p, AfterMail(p))
  /\ cut' = cut \union {row[p]}
  /\ row' = [row EXCEPT ![p] = 0]
  /\ Forget(p)
  /\ faults' = faults + 1
  /\ UNCHANGED <<fileVars, now, worldVars, outbox, delivered, refused, events>>

-----------------------------------------------------------------------------
(* The two processes. *)

processVars == <<now, worldVars, mailVars, view, historyVars>>

(* runNotifyTest: a dry run sends without the store, any other opens it first. *)
RunNotifyTest ==
  /\ pc[Tester] = "off" /\ Event
  /\ \E dryRun \in BOOLEAN : Goto(Tester, IF dryRun THEN "send" ELSE "opening")
  /\ UNCHANGED <<fileVars, processVars, faults>>

(* systemd starts the daemon, and starts it again when it failed. *)
StartDaemon ==
  /\ pc[Daemon] = "off"
  /\ Goto(Daemon, "opening")
  /\ UNCHANGED <<fileVars, processVars, events, faults>>

(* openAgentStore: Open, up to its result, which ends the process or lets it go on. *)
OpenAgentStore(p) ==
  /\ pc[p] = "opening"
  /\ Ping(p) \/ OpenStep(p)
  /\ pc' = CASE conn'[p].st = "open"   -> [pc EXCEPT ![p] = IF p = Daemon THEN "idle" ELSE "enqueue"]
             [] conn'[p].st = "closed" -> [pc EXCEPT ![p] = "off"]
             [] OTHER                  -> pc
  /\ UNCHANGED <<processVars, events, faults>>

OpenAgentStoreFails(p) ==
  /\ pc[p] = "opening" /\ faults < MaxFaults
  /\ OpenFails(p)
  /\ Goto(p, "off")
  /\ faults' = faults + 1
  /\ UNCHANGED <<processVars, events>>

(* EnqueueEmail of the test fails. *)
EnqueueFails ==
  /\ pc[Tester] = "enqueue" /\ faults < MaxFaults
  /\ Goto(Tester, "close")
  /\ faults' = faults + 1
  /\ UNCHANGED <<fileVars, processVars, events>>

CloseStore ==
  /\ pc[Tester] = "close"
  /\ Close(Tester)
  /\ Goto(Tester, "off")
  /\ UNCHANGED <<processVars, events, faults>>

(* A process is killed at any point; what it holds in memory is gone. *)
Kill(p) ==
  /\ pc[p] # "off" /\ faults < MaxFaults
  /\ faults' = faults + 1
  /\ IF conn[p].st = "closed" THEN UNCHANGED fileVars ELSE Close(p)
  /\ Goto(p, "off")
  /\ cut' = cut \union ({row[p]} \ {0})
  /\ row' = [row EXCEPT ![p] = 0]
  /\ Forget(p)
  /\ inbound' = IF p = Daemon THEN FALSE ELSE inbound
  /\ UNCHANGED <<now, status, messages, peerReport, heard, outbox, delivered, refused, events>>

-----------------------------------------------------------------------------
(* What goes on in the daemon meanwhile. *)

Up == conn[Daemon].st = "open"
Building == pc[Daemon] \in Reading

(* The items change; the history notes it while a digest is read. *)
Change(newStatus) ==
  /\ status' = newStatus
  /\ always' = IF Building THEN always \intersect NotedIn(newStatus) ELSE always
  /\ ever' = IF Building THEN ever \union NotedIn(newStatus) ELSE ever
  /\ UNCHANGED heardBefore

(* A saved report: findings open and resolve; a snooze goes on, ends or is resolved. *)
Reported(sec) ==
  {s \in [Items -> {"absent", "open", "snoozed"}] :
     \A i \in Items : \/ s[i] = status[i]
                      \/ Section[i] = sec /\ s[i] # "snoozed"}

(* RunCycle of this node; the nightly cleanup plans; decisions made and carried out. *)
Refresh(sec) ==
  /\ Up /\ Event
  /\ \E s \in Reported(sec) \ {status} : Change(s)
  /\ UNCHANGED <<fileVars, now, messages, peerReport, inbound, heard, mailVars, pc, view, faults>>

(* SnoozeEntity: the user keeps a staleness candidate. *)
Snooze(i) ==
  /\ Up /\ Event
  /\ i \in Staleness /\ status[i] = "open"
  /\ Change([status EXCEPT ![i] = "snoozed"])
  /\ UNCHANGED <<fileVars, now, messages, peerReport, inbound, heard, mailVars, pc, view, faults>>

(* ReceiveReport, first transaction: the peer's report and its findings. *)
ReceiveReport ==
  /\ Up /\ ~inbound /\ Event
  /\ \E s \in Reported("peer") : Change(s)
  /\ peerReport' = now
  /\ inbound' = TRUE
  /\ UNCHANGED <<fileVars, now, messages, heard, mailVars, pc, view, faults>>

(* ReceiveReport, second transaction (recordInbound), which may fail. *)
RecordReport ==
  /\ inbound
  /\ inbound' = FALSE
  /\ \/ messages' = messages \union {[kind |-> "report", at |-> now]} /\ heard' = now /\ UNCHANGED faults
     \/ faults < MaxFaults /\ faults' = faults + 1 /\ UNCHANGED <<messages, heard>>
  /\ UNCHANGED <<fileVars, now, status, peerReport, mailVars, pc, view, historyVars, events>>

ReceiveHeartbeat ==
  /\ Up /\ Event
  /\ messages' = messages \union {[kind |-> "heartbeat", at |-> now]}
  /\ UNCHANGED <<fileVars, now, status, peerReport, inbound, heard, mailVars, pc, view, historyVars, faults>>

(* prunePeerMessages of runNightlyMaintenance. *)
Kept == {m \in messages : m.at >= now - Retention}

PrunePeerMessages ==
  /\ Up /\ Kept # messages
  /\ messages' = Kept
  /\ UNCHANGED <<fileVars, now, status, peerReport, inbound, heard, mailVars, pc, view, historyVars, events, faults>>

(* A request, the opening of a file and a digest take seconds, so the clock waits for them; it does not wait for
   an msmtp that hangs. *)
Tick ==
  /\ now < MaxTime /\ ~inbound
  /\ pc[Tester] \in {"off", "hung"} /\ pc[Daemon] \in {"off", "idle", "hung"}
  /\ now' = now + 1
  /\ UNCHANGED <<fileVars, worldVars, mailVars, pc, view, historyVars, events, faults>>

DigestStep ==
  ReadOwn \/ ReadMessageAt \/ ReadPeerReport \/ ReadPeerFindings \/ ReadPlans \/ ReadDecisions
MailStep(p) == EnqueueEmail(p) \/ Send(p) \/ MarkEmail(p)

Next ==
  \/ StartDigest \/ DigestStep \/ DigestFails
  \/ \E p \in Procs :
       \/ MailStep(p) \/ MsmtpHangs(p) \/ HungMsmtpEnds(p) \/ MarkFails(p)
       \/ OpenAgentStore(p) \/ OpenAgentStoreFails(p) \/ Kill(p)
  \/ RunNotifyTest \/ StartDaemon \/ EnqueueFails \/ CloseStore
  \/ \E sec \in {"own", "plans", "decisions"} : Refresh(sec)
  \/ \E i \in Items : Snooze(i)
  \/ ReceiveReport \/ RecordReport \/ ReceiveHeartbeat \/ PrunePeerMessages \/ Tick

Spec == Init /\ [][Next]_vars

(* Processes go on (every statement ends, with an error if need be) and systemd starts the daemon whenever it is
   down.  Nothing is assumed of msmtp: it may hang, and nothing says that one that hangs comes back. *)
FairSpec ==
  /\ Spec
  /\ WF_vars(DigestStep) /\ WF_vars(StartDaemon) /\ WF_vars(CloseStore)
  /\ \A p \in Procs : WF_vars(MailStep(p)) /\ WF_vars(OpenAgentStore(p))

-----------------------------------------------------------------------------
(* Properties. *)

Complete == pc[Daemon] \in {"enqueue", "send", "hung", "sent", "failed"}
ShownSections == IF view.peer = "unavailable" THEN {"own"} ELSE {"own", "peer"}
Throughout(how) == {i \in Items : <<i, how>> \in always}
AtSomeTime(how) == {i \in Items : <<i, how>> \in ever}

(* The digest's reads are no snapshot, but it lists everything that was there all the while it read (of a silent
   peer too, unless it has no section at all) and nothing that never was; the subject line never counts
   less than the critical and warn findings that lasted; a snoozed candidate is never put forward, and a
   candidate that lasted is missing only behind TopN better ones (SendDigest, buildPeerSection,
   openStalenessFindings, Subject). *)
DigestTruthful ==
  Complete =>
    /\ {i \in Throughout("listed") : Section[i] \in ShownSections \union {"plans", "decisions"}} \subseteq view.shown
    /\ view.shown \subseteq AtSomeTime("listed")
    /\ LET lasted == {i \in Throughout("listed") : Section[i] \in ShownSections} IN
         \A k \in 1..2 : Subject(lasted)[k] <= view.subject[k]
    /\ view.stale \subseteq AtSomeTime("open")
    /\ \A i \in Throughout("open") \intersect Staleness :
         (Section[i] \in ShownSections /\ i \notin view.stale) =>
           Cardinality({j \in view.stale : Score[j] >= Score[i]}) >= TopN

(* A peer is called fresh only if the report shown was saved at most PeerStaleAfter ago, however many heartbeats
   came since, and it is called unavailable only if no report of it was recorded within the retention time,
   although old messages are pruned and reports arrive in two transactions (buildPeerSection,
   LastPeerMessageAt, PrunePeerMessages). *)
PeerSectionHonest ==
  Complete =>
    /\ view.peer = "fresh" => view.judged - view.report <= PeerStaleAfter
    /\ view.peer \in {"fresh", "stale"} => view.report >= view.last
    /\ view.peer = "unavailable" => heardBefore = -1 \/ view.judged - heardBefore > Retention

(* The outbox tells what happened to mails: no mail is handed to msmtp before it has a row or twice, a row says
   sent only if the mail was delivered, and failed only if msmtp said so (EnqueueEmail, Send, MarkEmailSent and
   MarkEmailFailed). *)
OutboxTells ==
  \A r \in DOMAIN outbox :
    /\ delivered[r] <= 1
    /\ outbox[r].status = "sent" => delivered[r] = 1
    /\ outbox[r].status = "failed" => r \in refused

(* The row's writer is in an msmtp call that hangs. *)
Hangs(r) == \E p \in Procs : pc[p] = "hung" /\ row[p] = r

(* Every row is settled, unless msmtp hangs, or its writer was killed (also while msmtp hung) or could not write
   the mark: those stay pending for ever, since nothing drains PendingEmails.  However long msmtp hung, the row
   is settled once it has come back (SendDigest, runNotifyTest, MsmtpSender.Send). *)
RowsSettle ==
  \A r \in 1..MaxMails :
    (r \in DOMAIN outbox) ~> (r \in cut \/ Hangs(r) \/ (r \in DOMAIN outbox /\ outbox[r].status # "pending"))

(* Whatever happens while both processes open a new file, the daemon ends up with a store: a collision of two
   migrations never leaves a file that cannot be opened. *)
DaemonUp == []<>(conn[Daemon].st = "open")
=============================================================================
