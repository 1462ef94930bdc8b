---------------------------- MODULE FindingStore ----------------------------
(***************************************************************************)
(* The findings and reports tables of one node's SQLite file               *)
(* (internal/store) and the processes that write them: the daemon's        *)
(* cadence cycles (agent.RunCycle), `healarr check run`, and the reports a *)
(* peer pushes.  Each of them builds a report from checks that look at the *)
(* world one after the other (check.Run) and saves it in one transaction   *)
(* (Store.SaveReport); a keep decision snoozes an entity                   *)
(* (Store.SnoozeEntity).                                                   *)
(*                                                                         *)
(* `present' is the world the checks look at: the problems that really     *)
(* exist.  `settled', `ranEver' and `kept' are history variables: no       *)
(* action reads them.                                                      *)
(***************************************************************************)
EXTENDS Integers, Sequences, FiniteSets

CONSTANTS
  Nodes,       \* config.Node: the NAS and the Pi
  Checks,      \* check ids
  Entities,    \* entity keys
  Reporters,   \* processes that run checks and save the report
  NodeOf,      \* NodeOf[r]: the node whose report reporter r writes
  Selections,  \* Selections[r]: the sets of checks r may select for one run
  SnoozeDays,  \* the snooze lengths a keep decision may ask for
  MaxTime,     \* bound: last value of the clock
  MaxFlips,    \* bound: how often the world changes
  MaxFaults,   \* bound: failed checks, failed saves and killed runs
  MaxSeen      \* bound: seen_count saturates here

ASSUME ReportersAssumption ==
  /\ NodeOf \in [Reporters -> Nodes]
  /\ Selections \in [Reporters -> SUBSET SUBSET Checks]

ASSUME BoundsAssumption ==
  /\ MaxTime \in Nat /\ MaxFlips \in Nat /\ MaxFaults \in Nat
  /\ MaxSeen \in Nat \ {0}
  /\ SnoozeDays \subseteq Nat \ {0}

VARIABLES
  now,       \* the clock, in the seconds formatTime stores
  findings,  \* findings[k]: the rows ever inserted for key k, oldest first
  latest,    \* latest[n]: the row LatestReport returns for node n
  job,       \* job[r]: the run reporter r is in
  present,   \* the keys whose problem exists in the world right now
  flips, faults,
  settled,   \* history: keys reported since their problem last changed
  ranEver,   \* history: ranEver[n]: checks in the Ran of some saved report
  kept       \* history: kept[k]: until when the user asked to keep k quiet

dbVars == <<findings, latest>>
historyVars == <<settled, ranEver, kept>>
vars == <<now, findings, latest, job, present, flips, faults, settled, ranEver, kept>>

-----------------------------------------------------------------------------
(* Rows.  The key of a row is (node, check_id, entity_key). *)

Keys == Nodes \X Checks \X Entities
NodeOfKey(k) == k[1]
CheckOfKey(k) == k[2]
EntityOfKey(k) == k[3]

NoTime == -1  \* SQL NULL in a time column
Times == Nat \cup {NoTime}

Row == [status     : {"open", "snoozed", "resolved"},
        firstSeen  : Nat,
        lastSeen   : Nat,
        until      : Times,
        resolvedAt : Times,
        seen       : 1..MaxSeen]

Active(row) == row.status \in {"open", "snoozed"}

\* A snooze that the report generated at time g does not end.
StillSnoozed(row, g) == row.status = "snoozed" /\ row.until > g

\* Mutant: every refresh reopens the row, as before snoozes were honoured.
RefreshedRow_AlwaysOpen(row, g) ==
  [row EXCEPT !.lastSeen = g, !.status = "open", !.until = NoTime]

RefreshedRow(row, g) ==
  [status     |-> IF StillSnoozed(row, g) THEN "snoozed" ELSE "open",
   firstSeen  |-> row.firstSeen,
   lastSeen   |-> g,
   until      |-> IF StillSnoozed(row, g) THEN row.until ELSE NoTime,
   resolvedAt |-> row.resolvedAt,
   seen       |-> IF row.seen < MaxSeen THEN row.seen + 1 ELSE row.seen]

NewRow(g) ==
  [status |-> "open", firstSeen |-> g, lastSeen |-> g,
   until |-> NoTime, resolvedAt |-> NoTime, seen |-> 1]

ResolvedRow(row, g) == [row EXCEPT !.status = "resolved", !.resolvedAt = g]

SnoozedRow(row, u) == [row EXCEPT !.status = "snoozed", !.until = u]

-----------------------------------------------------------------------------
(* What each statement of the transaction does to the rows of one key. *)

\* Mutant: the UPDATE matches open rows only, so a snoozed key is inserted anew.
HasActive_OpenOnly(rows) == \E i \in 1..Len(rows) : rows[i].status = "open"

HasActive(rows) == \E i \in 1..Len(rows) : Active(rows[i])

\* UPDATE ... WHERE key matches AND status IN ('open', 'snoozed')
UpdateOpenFinding(rows, g) ==
  [i \in 1..Len(rows) |-> IF Active(rows[i]) THEN RefreshedRow(rows[i], g) ELSE rows[i]]

InsertFinding(rows, g) == Append(rows, NewRow(g))

\* Mutant: only open rows are resolved, a snoozed one stays for ever.
ResolveMissingFinding_OpenOnly(rows, g) ==
  [i \in 1..Len(rows) |-> IF rows[i].status = "open" THEN ResolvedRow(rows[i], g) ELSE rows[i]]

ResolveMissingFinding(rows, g) ==
  [i \in 1..Len(rows) |-> IF Active(rows[i]) THEN ResolvedRow(rows[i], g) ELSE rows[i]]

\* Mutant: the snooze forgets its status filter.
SnoozeFinding_AnyStatus(rows, u) == [i \in 1..Len(rows) |-> SnoozedRow(rows[i], u)]

SnoozeFinding(rows, u) ==
  [i \in 1..Len(rows) |-> IF Active(rows[i]) THEN SnoozedRow(rows[i], u) ELSE rows[i]]

\* Mutant: the resolving UPDATE forgets the node.
UpsertFindings_AnyNode(k, rows, n, g, ran, found) ==
  CASE k \in found /\ HasActive(rows) -> UpdateOpenFinding(rows, g)
    [] k \in found /\ ~HasActive(rows) -> InsertFinding(rows, g)
    [] k \notin found /\ CheckOfKey(k) \in ran -> ResolveMissingFinding(rows, g)
    [] OTHER -> rows

\* The rows of key k after a report of node n generated at g, whose
\* successful checks are ran and whose findings are the keys in found.
UpsertFindings(k, rows, n, g, ran, found) ==
  CASE k \in found /\ HasActive(rows) -> UpdateOpenFinding(rows, g)
    [] k \in found /\ ~HasActive(rows) -> InsertFinding(rows, g)
    [] k \notin found /\ NodeOfKey(k) = n /\ CheckOfKey(k) \in ran ->
         ResolveMissingFinding(rows, g)
    [] OTHER -> rows

NoReport == [at |-> NoTime, ran |-> {}]

\* ORDER BY generated_at DESC, id DESC: a later insert wins a tie.
LatestOf(old, g, ran) == IF g >= old.at THEN [at |-> g, ran |-> ran] ELSE old

-----------------------------------------------------------------------------
(* Runs. *)

IdleJob == [pc |-> "idle", at |-> 0, todo |-> {}, ran |-> {}, found |-> {},
            prev |-> {}, stale |-> {}]

JobType == [pc     : {"idle", "running"},
            at     : Nat,             \* Report.GeneratedAt
            todo   : SUBSET Checks,   \* selected and not finished yet
            ran    : SUBSET Checks,   \* Report.Ran
            found  : SUBSET Keys,     \* Report.Findings
            prev   : SUBSET Checks,   \* checks whose metrics Deps.Previous has
            stale  : SUBSET Keys]     \* history: changed since r looked at it

Init ==
  /\ now = 0
  /\ findings = [k \in Keys |-> << >>]
  /\ latest = [n \in Nodes |-> NoReport]
  /\ job = [r \in Reporters |-> IdleJob]
  /\ present = {}
  /\ flips = 0 /\ faults = 0
  /\ settled = {}
  /\ ranEver = [n \in Nodes |-> {}]
  /\ kept = [k \in Keys |-> NoTime]

\* RunCycle / runCheckRun up to check.Run: LatestReport becomes
\* Deps.Previous and the report is stamped with the time the run starts.
StartRun(r) ==
  /\ job[r].pc = "idle"
  /\ \E sel \in Selections[r] \ {{}} :
       job' = [job EXCEPT ![r] =
                 [IdleJob EXCEPT !.pc = "running", !.at = now, !.todo = sel,
                                 !.prev = latest[NodeOf[r]].ran]]
  /\ UNCHANGED <<now, dbVars, present, flips, faults, historyVars>>

\* Mutant: one failing entity makes the check report all of its entities.
CheckRan_WholeCheck(r, c) ==
  /\ job[r].pc = "running" /\ c \in job[r].todo
  /\ job' = [job EXCEPT
       ![r].todo = @ \ {c}, ![r].ran = @ \cup {c},
       ![r].found = @ \cup {k \in Keys : /\ NodeOfKey(k) = NodeOf[r] /\ CheckOfKey(k) = c
                                        /\ \E p \in present : CheckOfKey(p) = c}]
  /\ UNCHANGED <<now, dbVars, present, flips, faults, historyVars>>

\* The findings check c of reporter r returns when it looks now.
Sightings(r, c) == {k \in present : NodeOfKey(k) = NodeOf[r] /\ CheckOfKey(k) = c}

WithResult(j, c, keys) ==
  [j EXCEPT !.todo = @ \ {c}, !.ran = @ \cup {c}, !.found = @ \cup keys]

\* A check of run r succeeds: it joins Ran and its findings join Findings.
CheckRan(r, c) ==
  /\ job[r].pc = "running" /\ c \in job[r].todo
  /\ job' = [job EXCEPT ![r] = WithResult(@, c, Sightings(r, c))]
  /\ UNCHANGED <<now, dbVars, present, flips, faults, historyVars>>

\* Mutant: a failed check is appended to Ran as well.
CheckFailed_CountedAsRan(r, c) ==
  /\ job[r].pc = "running" /\ c \in job[r].todo
  /\ faults < MaxFaults /\ faults' = faults + 1
  /\ job' = [job EXCEPT ![r].todo = @ \ {c}, ![r].ran = @ \cup {c}]
  /\ UNCHANGED <<now, dbVars, present, flips, historyVars>>

\* A check of run r fails, times out, panics or is not configured: it joins
\* Errors or Skipped, which SaveReport stores but acts on in no way.
CheckFailed(r, c) ==
  /\ job[r].pc = "running" /\ c \in job[r].todo
  /\ faults < MaxFaults /\ faults' = faults + 1
  /\ job' = [job EXCEPT ![r].todo = @ \ {c}]
  /\ UNCHANGED <<now, dbVars, present, flips, historyVars>>

\* The whole of Store.SaveReport, committed.
SaveReport(r) ==
  LET j == job[r]  n == NodeOf[r] IN
  /\ j.pc = "running" /\ j.todo = {}
  /\ findings' = [k \in Keys |-> UpsertFindings(k, findings[k], n, j.at, j.ran, j.found)]
  /\ latest' = [latest EXCEPT ![n] = LatestOf(@, j.at, j.ran)]
  /\ job' = [job EXCEPT ![r] = IdleJob]
  /\ settled' = settled \cup
       {k \in Keys \ j.stale : NodeOfKey(k) = n /\ CheckOfKey(k) \in j.ran}
  /\ ranEver' = [ranEver EXCEPT ![n] = @ \cup j.ran]
  /\ UNCHANGED <<now, present, flips, faults, kept>>

\* The run ends without a committed report: SaveReport rolls back, the
\* process is killed, or --dry-run never opens the store.
AbandonRun(r) ==
  /\ job[r].pc = "running"
  /\ faults < MaxFaults /\ faults' = faults + 1
  /\ job' = [job EXCEPT ![r] = IdleJob]
  /\ UNCHANGED <<now, dbVars, present, flips, historyVars>>

\* Store.SnoozeEntity: every active finding of e, whatever check or node.
SnoozeEntity(e, days) ==
  LET u == now + days IN
  /\ findings' = [k \in Keys |-> IF EntityOfKey(k) = e
                                 THEN SnoozeFinding(findings[k], u) ELSE findings[k]]
  /\ kept' = [k \in Keys |-> IF EntityOfKey(k) = e /\ HasActive(findings[k])
                             THEN u ELSE kept[k]]
  /\ UNCHANGED <<now, latest, job, present, flips, faults, settled, ranEver>>

-----------------------------------------------------------------------------
(* The environment. *)

Tick ==
  /\ now < MaxTime /\ now' = now + 1
  /\ UNCHANGED <<dbVars, job, present, flips, faults, historyVars>>

\* A problem appears or goes away.  A run that has already looked at it
\* holds a stale observation from here on.
WorldChanges(k) ==
  /\ flips < MaxFlips /\ flips' = flips + 1
  /\ present' = IF k \in present THEN present \ {k} ELSE present \cup {k}
  /\ job' = [r \in Reporters |->
               IF NodeOf[r] = NodeOfKey(k) /\ CheckOfKey(k) \in job[r].ran
               THEN [job[r] EXCEPT !.stale = @ \cup {k}] ELSE job[r]]
  /\ settled' = settled \ {k}
  /\ UNCHANGED <<now, dbVars, faults, ranEver, kept>>

Next ==
  \/ \E r \in Reporters : StartRun(r) \/ SaveReport(r) \/ AbandonRun(r)
  \/ \E r \in Reporters, c \in Checks : CheckRan(r, c) \/ CheckFailed(r, c)
  \/ \E e \in Entities, d \in SnoozeDays : SnoozeEntity(e, d)
  \/ \E k \in Keys : WorldChanges(k)
  \/ Tick

Spec == Init /\ [][Next]_vars

\* The schedulers start cycles for ever (cron entries), a check that hangs is
\* cut off by its timeout, and a report that is complete gets saved; faults
\* are bounded by MaxFaults.
FairSpec ==
  /\ Spec
  /\ \A r \in Reporters :
       /\ WF_vars(StartRun(r))
       /\ WF_vars(\E c \in Checks : CheckRan(r, c))
       /\ WF_vars(SaveReport(r))

-----------------------------------------------------------------------------
(* Properties. *)

\* Reporter r may report on key k.
Covers(r, k) ==
  NodeOf[r] = NodeOfKey(k) /\ \E sel \in Selections[r] : CheckOfKey(k) \in sel

\* A single reporter reports on k: the daemon's cadences partition the checks
\* of a node (and SkipIfStillRunning keeps a cadence from overlapping itself),
\* and only the peer pushes the peer's.  `healarr check run` makes a second one.
Exclusive(k) ==
  \A r, s \in Reporters : Covers(r, k) /\ Covers(s, k) => r = s

\* Every variable keeps its type.
TypeOK ==
  /\ now \in Nat /\ flips \in Nat /\ faults \in Nat
  /\ findings \in [Keys -> Seq(Row)]
  /\ latest \in [Nodes -> [at : Times, ran : SUBSET Checks]]
  /\ job \in [Reporters -> JobType]
  /\ present \in SUBSET Keys /\ settled \in SUBSET Keys
  /\ ranEver \in [Nodes -> SUBSET Checks]
  /\ kept \in [Keys -> Times]

\* However saves, retried saves and snoozes interleave, a key has at most one
\* open or snoozed row, and it is the newest one: the partial unique index
\* findings_open_key never rejects an insert of SaveReport, and every reader
\* of OpenFindings sees a problem once.
OneActiveRow ==
  \A k \in Keys : \A i \in 1..Len(findings[k]) :
    Active(findings[k][i]) => i = Len(findings[k])

\* History is append-only: a resolved row is never touched again, neither by
\* a late report nor by a snooze of its entity.
ResolvedFrozen ==
  [][\A k \in Keys : \A i \in 1..Len(findings[k]) :
       findings[k][i].status = "resolved" =>
         /\ i \in 1..Len(findings'[k])
         /\ findings'[k][i] = findings[k][i]]_vars

\* A snoozed row returns to open only once the snooze has run out, whichever
\* report refreshes it and however long ago that report's run started.
SnoozeHeld ==
  [][\A k \in Keys : \A i \in 1..Len(findings[k]) :
       findings[k][i].status = "snoozed" /\ findings'[k][i].status = "open"
         => now >= findings[k][i].until]_vars

\* A finding is resolved only when its problem is really gone, or changed
\* after the run that resolves it looked: a check that failed, timed out or
\* was skipped, and a report of other checks or of the other node, resolve
\* nothing.
ResolveMeansGone ==
  [][\A k \in Keys :
       HasActive(findings[k]) /\ ~HasActive(findings'[k]) =>
         \/ k \notin present
         \/ \E r \in Reporters : job'[r] # job[r] /\ k \in job[r].stale]_vars

\* A step inserts a row for the key, moves a row's last_seen or seen_count, or
\* reopens a row.
Sighted(rows, new) ==
  \/ Len(new) > Len(rows)
  \/ \E i \in 1..Len(rows) :
       \/ new[i].lastSeen # rows[i].lastSeen \/ new[i].seen # rows[i].seen
       \/ rows[i].status # "open" /\ new[i].status = "open"

\* A row is inserted, refreshed or reopened only for a problem that exists, or
\* that changed after the saving run looked at it: whatever else fails,
\* overlaps or is kept, no report puts on record a sighting of a problem that
\* its own check did not see.
OpenMeansSeen ==
  [][\A k \in Keys : Sighted(findings[k], findings'[k]) =>
       \/ k \in present
       \/ \E r \in Reporters : job'[r] # job[r] /\ k \in job[r].stale]_vars

\* The table behaves like one incident per key: its newest row.
Newest(k) == findings[k][Len(findings[k])]

Lifecycle == INSTANCE FindingLifecycle WITH
  clock    <- now,
  status   <- [k \in Keys |-> IF findings[k] = << >> THEN "none" ELSE Newest(k).status],
  wakes    <- [k \in Keys |-> IF findings[k] = << >> THEN NoTime ELSE Newest(k).until],
  incident <- [k \in Keys |-> Len(findings[k])]

\* However runs, saves and snoozes interleave, what readers see of the table
\* is the life cycle FindingLifecycle allows: one report touches one node, a
\* keep sleeps an entity's running findings all at once and none before its
\* time, and a problem that returns is a new row.
RefinesLifecycle == Lifecycle!LifeSpec

\* For a key of a single reporter: once a report that looked after the last
\* change of its problem is saved, the open findings tell the truth about it,
\* and nothing a slower, failing or other run does later undoes that until the
\* world changes again.
SettledAccurate ==
  \A k \in settled : Exclusive(k) => (HasActive(findings[k]) <=> k \in present)

\* For a key of a single reporter, the times of a row are in order although a
\* report is stamped when its run starts and saved when it ends.
TimesOrdered ==
  \A k \in Keys : Exclusive(k) =>
    \A i \in 1..Len(findings[k]) :
      LET row == findings[k][i] IN
      /\ row.firstSeen <= row.lastSeen
      /\ row.status = "resolved" => row.lastSeen <= row.resolvedAt

\* Once faults and changes stop, the open findings become exactly the problems
\* that exist and stay so, overlapping runs or not: a failed save, a killed run
\* or a check that errors delays a finding, it never loses one.
Converges ==
  <>[](\A k \in Keys : HasActive(findings[k]) <=> k \in present)

\* docs/runbook.md: a kept finding "drops off this page and the digest's
\* STALENESS section entirely, reappearing once staleness.snooze_days has
\* elapsed".  Not an invariant: a kept finding that resolves and returns
\* before its time is inserted as a new, open row (see the README).
KeepQuiet ==
  \A k \in Keys : now < kept[k] =>
    \A i \in 1..Len(findings[k]) : findings[k][i].status # "open"

\* docs/runbook.md: delta checks "compare against yesterday's number" through
\* Deps.Previous: a check that has run successfully before finds its own
\* metrics in the previous report.
DeltaBaseline ==
  [][\A r \in Reporters : job[r].pc = "idle" /\ job'[r].pc = "running" =>
       ranEver[NodeOf[r]] \cap job'[r].todo \subseteq job'[r].prev]_vars

=============================================================================
