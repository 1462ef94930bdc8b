# healarr in TLA+

healarr watches and repairs a home media stack from two nodes: a **Pi** (web page, digests, Sonarr,
Radarr, Overseerr, Plex) and a **NAS** (disks, qBittorrent). On each node a daemon runs checks on several
cadences and keeps what they find in one SQLite file; the NAS pushes its reports to the Pi; a person
looks at the page or a digest and decides to keep or delete what has gone stale. This directory models
that program: what its processes do to the shared state, in which orders, and what happens when
something fails half way.

## Inventory

| component | state | operations | hard because | correct when |
|---|---|---|---|---|
| findings and reports store (`store/findings.go`, `reports.go`) | findings rows, reports | SaveReport, SnoozeEntity, LatestReport | reports are stamped at the start of a run and saved at its end; several processes save | one live row per problem; nothing resolved that was not looked at; snoozes hold; truth is reached |
| check runner (`check/runner.go`) | goroutines, channels, the report | Run, runOne | deadline races answer; stuck system calls; late answers | each check counted once; late answers dropped; a run always returns |
| cadence cycles (`agent/cycle.go`) | previous report | RunCycle, pushReport | overlapping cadences; push fails | see above; a push failure never fails the cycle |
| peer channel (`peer/*`, `agent/handler.go`) | in-flight requests, peer_messages | PushReport, SendDecision, Heartbeat, Receive* | timeouts, retries, lost answers, non-atomic handlers, cancelled contexts | an ack means stored; a refusal means not stored; bounded calls |
| decisions (`decision/*`, `store/decisions.go`, web POST, `decide`) | decisions, remediations, the media stack | Execute (keep, delete) | many calls without a transaction; concurrent executors; cancelled requests | follow-ups only after a real delete; the trail agrees with what happened; the gate holds |
| agent lifecycle, schedule (`agent/run.go`, `schedule.go`) | servers, cron entries | Run, Schedule, jobs | bind failures, shutdown order, skipped overlaps | every server ends; no job after stop |
| digest and outbox (`agent/digest.go`, `notify`, `store/email.go`) | email_outbox, peer_messages | SendDigest, `notify test`, pruning | reads that are no snapshot; crash between enqueue and mark; pruning under the freshness test | what lasted is listed, nothing is made up; a row tells what became of its mail |
| cleanup (`cleanup/*`, `agent/cleanupjob.go`) | plans, files, torrents | Plan, Execute | time of check, partial failure | only what the plan allows is removed |
| staleness (`staleness/*`) | none | scorer, collector | windows of several services meet in one score | time alone does not rejuvenate a title |
| web pages and sessions (`web/*`) | sessions, CSRF key, rendered forms | login, logout, pages, forms | concurrent requests, expiry between two locks, restarts | no handler without a live session; a form counts for its session only; pages tell what was so |
| migrations, opening (`store/migrate.go`, `store.go`) | tables, schema version | Open, migrate, Close | two processes open a new file | the file holds exactly the migrations up to its version |
| check families (`checks/*`) | findings of each check, previous metrics | 18 checks | outages in the middle of a run, services that change between two calls, time | an outage is told; time alone heals nothing; no false accusation |
| clients, config, remaining commands | none of their own | API calls, parsing | external systems | per function |

Interaction: cron starts `RunCycle`, which calls `check.Run`, saves through `Store.SaveReport` and on the
NAS calls `peer.PushReport`; the Pi's peer server calls `ReceiveReport`, which saves into the same tables
the Pi's own cycles write. The page and `healarr decide` call `decision.Execute`, whose keep writes the
findings table and whose delete ends in a `qbit_delete` message back to the NAS. The digest reads all of
these tables; `healarr check run`, `healarr decide`, `healarr cleanup` and `healarr notify test` are second
processes on the same file, and each opens it through the same migrations.

## Modules

| module | models | state and actions |
|---|---|---|
| `FindingStore` | the findings and reports tables and everything that writes them | `findings[k]` are the rows of key (node, check, entity), oldest first; `latest`, `job[r]` (a run of reporter r: a cadence, a command or the peer). `StartRun` = RunCycle/runCheckRun up to check.Run; `CheckRan`/`CheckFailed` = one check; `SaveReport` = the whole transaction; `AbandonRun`; `SnoozeEntity`; `WorldChanges` and `Tick` are the environment |
| `FindingLifecycle` | abstract: one incident per key | opens, sleeps, wakes, resolves; `FindingStore!RefinesLifecycle` maps the newest row to it |
| `CheckRunner` | check.Run and runOne in detail | goroutine `<<run, check>>`, its channel, the select, deadlines, checks that never return, cancellation |
| `PeerChannel` | peer client, peer server, agent handlers | `call[m]` is doWithRetry, `req[<<m, attempt>>]` a handler; every store statement and the qBittorrent call is a step, the caller's own row of an outbound report or heartbeat included (`Logged`); hang-ups, store failures, restarts, cancellations |
| `DecisionExec` | creating and executing decisions | `pc[d]` walks Execute; `library`, `declined`, `hinted` are the media stack; `status`, `rem` the two records; `Cut` ends the context, `Kill` the process |
| `AgentLifecycle` | the daemon from Run to the closing of the store | `pc` walks Agent.Run and runAgentServe; `serv[s]` and `chan[s]` are a server's ListenAndServe and its result channel, `busy` the servers with a request in flight, `job[j]` a cron entry; `ctxDone`, `runDone` are the two contexts. Signals, failing binds and listeners, hanging requests and blocked jobs happen at any moment |
| `Cleanup` | planners, executors, `healarr cleanup`, the nightly planning job | `proc[a]` is a command or the daemon's job with what it has read and still has to remove; `files`, `aged`, `torrents`, `seeded`, `imported`, `unused` are the disk, qBittorrent, the *arr history and Docker; `rows` the remediations. `Query` and `List` are the two reads of a plan, `RemoveItem` one item, `ExecuteSeeded`, `ExecuteDocker` one call, all behind `ActionsAllowed`, Execute's own gate; a command whose clients cannot be built is `refused`; a path is the sequence of its names |
| `StoreFile` | store.Open, migrate and Close on one file | `conn[p]` is a process's handle and the migrations it still has to apply, `schema` what the file holds, `version` what it says; reading the version and each migration are separate steps |
| `Digest` (extends StoreFile) | SendDigest, `notify test`, the outbox, peer freshness and pruning | `pc[p]` walks the daemon's digest and the test command; each `Read*` is one statement, `view` the DigestInput; `EnqueueEmail`, `Send`, `MarkEmail` the three steps of a mail, and `MsmtpHangs` and `HungMsmtpEnds` a msmtp that takes its time, perhaps for ever; `Refresh`, `Snooze`, `ReceiveReport`/`RecordReport` (two transactions), `ReceiveHeartbeat`, `PrunePeerMessages` go on meanwhile; `Kill` at any point, `StartDaemon` is systemd |
| `WebSessions` | internal/web | `sessions` and `start` (which stands for the process's random key) are the server's memory, `forms` the tokens that ever left it; `Lookup` and `Compare` are the two halves of `sessionTable.valid`; `rows` are the findings with their status and last_seen; a page reads one node after the other (`ReadFirst`, `ReadSecond`) before `Render`, the history page within its window and up to its limit (`InHistory`, `Newest`); `Restart` |
| `Staleness` | the staleness collector's join and the scorer, as operators | one operator per score component, `SeriesItem`, `MovieItem`, `Band` |
| `CheckFamilies` (extends Staleness) | the checks of internal/checks and staleness_scan | `check` is picked at the start; `Calls[check]` are its calls in order, `world[call]` what a service would answer, `current` what the run in progress knows; `Answer`, `Fail`, `SkipCall` one call, `EndRan`, `EndInError` the report; one operator per check says what it makes of the answers (`ArrHealth`, `MountRace`, `NotImported`, ...); `Tolerated`, of one operator per check again (`AppUnreachable`, `ProbeFailed`, ...), says which failed call a check turns into a finding and which ends it; `Imported` and `Cut` are what a history is reduced to; its specification is `FamilySpec`, so that `CheckProofs` can extend it next to CheckRunner |
| `MC*` | instances for TLC | |
| `FindingStoreProofs`, `PeerChannelProofs`, `DecisionExecProofs`, `AgentLifecycleProofs`, `CleanupProofs`, `DigestProofs`, `WebSessionsProofs` | proofs about the module of that name (`DigestProofs` also about StoreFile) | |
| `CheckProofs` | proofs about CheckRunner and, as `Families`, CheckFamilies | |

FindingStore's `CheckRan` and `CheckFailed` summarise what CheckRunner shows of a single check: exactly one
of Ran, Skipped and Errors, with findings only in the first case. PeerChannel's `SaveReport` step is
FindingStore's action of the same name for the reporter `inbound`; DecisionExec's `Snooze` is its
`SnoozeEntity`, and its `SendHint` one message of PeerChannel. Digest and WebSessions take from FindingStore what
a saved report and a keep may do to the rows (`Reported`, `SnoozeEntity`, `ResolveMissingFinding`), WebSessions hands a form to
DecisionExec (`HandleDecisionsPost`), and CheckFamilies' `EndRan` and `EndInError` restate the rule of
`upsertFindings` for one check: one that ran replaces its findings, one that did not leaves them.

What is abstracted: text, metrics values, severities and the order of findings inside a report; time
is a counter that moves on its own; the world the checks look at is the set `present`. SQLite serialises
transactions (one connection per process and file locks between them), so a transaction is one step.
History variables (`settled`, `ranEver`, `kept`, `stale`, Cleanup's `touched`,
`wanted`, `everImported`, `lost`, `since`, Digest's `always`, `ever`, `heard`, `heardBefore`, `cut`, WebSessions'
`ended`, `arrivedLive`, `unexpired`, `always`, `ever`, CheckFamilies' `still`) are read by properties only.

## Runs

| run | question | answer |
|---|---|---|
| `findings` | own and pushed reports in one file, failures, keeps, a changing world | the nodes do not touch each other's findings, resolved rows are frozen, only gone problems are resolved, settled findings are true, and the table refines FindingLifecycle |
| `findings_overlap` | `check run` overlaps a cycle of the same check | one live row, snoozes hold, no row is opened, reopened or refreshed for a problem nobody saw, and the open findings converge to the existing problems. Not kept there: an older report saved last resolves a finding of a newer one until the next cycle, so `SettledAccurate` speaks of the keys a single reporter covers (`Exclusive`) |
| `findings_baseline` (violation) | runbook: delta checks compare with yesterday | the previous report may be of another cadence |
| `runner` | answers in time, late, never | each check is accounted for once, late answers are dropped, runs return, senders end |
| `peer` | retries against a multi-step handler that may hang, fail or restart | ack means stored, acted means recorded, calls return, up to Retries failures are survived |
| `decisions` | two decisions at once, gate on or off, malformed and overlong keys, every kind of failure | follow-ups only after a delete, records agree, every decision is resolved unless the store, the context or the process failed |
| `agent` | a signal or a failing server at any moment, requests that hang, jobs that block | the daemon always ends, with the failing server's error; it reports success only if asked to stop; no job meets a closed store |
| `cleanup` | two commands of any kinds and the nightly job, with failures, while torrents come and go | content is lost only after an import, a drop, or when its torrent was added after the command had asked qBittorrent; rows tell who removed something; every planner of a night and every command that is not refused leaves exactly one row, and a refused one has touched nothing; the gates hold |
| `cleanup_nested` (violation) | comment on the orphan rule | a torrent two levels below a downloads directory does not protect its entry, which is planned for removal |
| `digest` | a digest and a test mail while everything they read changes, both processes opening a new file, kills, one failing statement or mail, and a msmtp that hangs | the file is never half migrated and the daemon always gets it open again; the digest lists what lasted and nothing that never was; fresh, stale and unavailable are honest; the outbox tells what happened, and every row is settled unless its writer was cut off or msmtp hangs for ever |
| `web` | two requests at once with any cookie and any form ever issued, logins, logouts, expiry, restarts, findings that change between the two reads of a page | no handler runs without a session that was live, a form counts exactly for the session and process that rendered it, pages tell what was so, the history page within its window and as far as it has room |
| `checks` | each check, run again and again while its services change, fail and time passes | an outage is an error or a finding, never health (`OutageTold`); without a change no finding of an age or a score fades (`TimeNeverHeals`); a download that was imported under its id is not reported as not imported (`FlaggedIsUnimported`) |

Further things the models show, for which no run of their own is kept (`KeepQuiet`, `DecisionOnce` and
`OutcomeRecorded` are stated in their modules; naming one in the cfg yields the trace):

* `docs/runbook.md:235-237` says a kept finding drops off until `snooze_days` have elapsed. `insertFinding`
  (`store/findings.go:101`) opens a new, unsnoozed row when the finding resolves and returns meanwhile (`KeepQuiet`).
* `agent/handler.go:77-80` says a problem while executing a decision can't make the Pi redeliver it. A delete that
  outlasts the client's timeout is sent again and attempted again (`handler.go:86`, `DecisionOnce`).
* `web/handlers_decisions.go:133-136` says a delete records a remediation on every outcome. The row of a request that
  was cancelled is written with the same, ended context (`decision/execute.go:113`, `OutcomeRecorded`).
* `docs/decisions.md:209` and `docs/runbook.md:115` say that a transient outage cannot make findings disappear. A failed
  call in arr_health (`checks/arr/health.go:144-149`) and in wrong_file_type (`checks/qbit/wrong_file.go:51-61`) is a
  finding of its own and the check counts as run, so the item findings it did not see again are resolved until the
  next run. What holds is `OutageTold`: something is always said about the outage.
* A watch older than twice `days_horizon` is outside the history Collect asks for, so the title turns into one that was
  never watched and its score can fall; `TimeNeverHeals` is stated up to that age (`WatchesInWindow`).
* `agent/digest.go:111-113` and `docs/runbook.md:171` speak of a peer that has never reported. Once pruning has removed its
  messages, a peer that has been silent longer than the retention is announced in the same way
  (`PeerSectionHonest` has the retention in it).
* Nothing takes up a `pending` row of email_outbox: a kill between enqueue and mark leaves it for ever (`RowsSettle` has
  its exception). And msmtp may have delivered a mail whose row says failed (`OutboxTells` promises nothing there).
* `cli/cmd_cleanup.go:70-72` says that runCleanup always records exactly one remediations row, except with --dry-run. A
  command whose clients cannot be built is refused before its plan (`cmd_cleanup.go:90-92`) and leaves none (`DepsFail`);
  `Recorded` says so, and that nothing was touched. The nightly job does leave its rows in the same case.
* A digest or a test whose msmtp hangs leaves its row pending as long as that lasts: `MsmtpSender.Send`
  (`notify/sender.go:37-49`) has no timeout, its context ends with the process, and cron skips the digests that are due
  meanwhile (`MsmtpHangs`, `Hangs` in `RowsSettle`).
* An import without a download id, such as one made by hand, is skipped (`checks/qbit/history.go:43-50`), so the download is
  reported as not imported although it was; `FlaggedIsUnimported` speaks of imports under the torrent's id.
* The history page shows what was seen in the last seven days, at most 200 rows of each node, the latest first
  (`web/handlers_history.go:32`, `store/history.go:17-27`). `PageTruthful` promises no more: a row that was there all the
  while may be missing when as many rows, seen no earlier, have taken its place (`Crowded`).
* `web/handlers_decisions.go:45-47` says the page's key pattern matches what `decision.parseEntityKey` accepts. A key with
  more digits than an id holds matches it, is stored as a decision and fails only when it is executed
  (`LongKeys` of DecisionExec). Two spellings of one id, such as sonarr:7 and sonarr:007, would be two entities there; no
  module distinguishes them.
* The comment on `sessionTable.valid` (`web/auth.go:75-76`) says expired sessions are lazily evicted rather than left to leak for ever. Only their own
  cookie evicts them: a session whose browser never returns stays until the restart.
* A decisions page that was rendered before a keep still carries a valid form, so it can post a delete for an
  entity that has been kept meanwhile.

* `check/runner.go:56-57` calls the leak "bounded: at most one goroutine per stuck check". In CheckRunner every
  run of a stuck check abandons another goroutine, so the number grows with the cycles.
* `agent/handler.go:79-80` says that the outcome of a torrent delete is "durably recorded as a remediations row".
  In PeerChannel the row of a delete that outlasts the client is written with a cancelled context
  (`StoreFails` with `HungUp`) and is lost.
* `store/decisions.go:62-63` lists pending rows "for the decision runner to drain". Nothing does: in DecisionExec
  a row whose executor was cut short stays pending, which is why `Drained` has its exception.
* `agent/run.go:111-112` says that when ctx fires first, Run "waits for both servers' own (ctx-triggered) graceful
  shutdown to finish". In AgentLifecycle, after a signal during the initial cycle, `SelectServer` may take the nil
  of the server that has already shut down, and Run returns without waiting for the other.

**Bounds.** Two reporters suffice for every conflict of the upsert: it treats keys independently, and two
saves can overlap in every order. Three world changes allow appear, vanish, reappear; two ticks allow a
snooze to be pending, due and over (one tick and two changes in `findings_overlap`, with two entities).
`seen_count` saturates at 1 since no property reads it. CheckRunner has two runs of two checks: a late
answer can meet the same check in the next run and another check in its own. PeerChannel has one message
(messages share nothing but the store's append-only tables) and keeps the code's two retries, so three
handlers can be at work at once; three network faults let every attempt fail. DecisionExec has two
executors that pick any kind and key, two malformed keys among them of which the page takes the one that only has too
many digits, with two failing calls, one failing statement, one ended context and
one kill. AgentLifecycle has the code's two servers, each configured or not, with one request in flight each,
and two jobs of the six (jobs meet only in the wait for all of them) with three firings, so that a job can run
twice and overlap the other. Cleanup starts two processes (two commands, or one and the nightly job), which is what
a conflict takes; three outside events allow add, reach the target, import, and add, age; one fault hits any one call
or process; the passing run's torrents lie at most one folder below the downloads directory, the violating run's
lie deeper. `Alike` permutes the commands (in WebSessions the requests), which no definition tells apart.
Digest has two migrations, so that a second process can come between them; four items, one for each place a digest
reads and two with different scores behind a top list of one; three units of time, so that a report can be fresh, stale
and pruned; two outside events, two mails and one fault, which hits any statement, mail or process. The clock
stands still while a request, a digest or an opening is under way: those take seconds, the limits are hours and days.
WebSessions has two sessions, two processes and four requests, two at a time: a login for each session and two
requests that race, before or after an expiry or a restart. A session's life and the window of the history page are one
unit each there, which leaves moments on, before and after the ends of both (the code has 30 and 7 days; nothing compares
them with each other); three items on two nodes, one of them new, with room for one row of a node on the history page, so
that it can be full; a row's last_seen is any moment up to now, as reports arrive late. CheckFamilies runs one check at a time, since checks
share nothing but the previous metrics (`OtherCycle`); one mount, library, download or title stands for each
loop, with two apps, paths or torrents where an error in the middle of the loop matters; two changes of the services
allow appear and vanish or two services, one failed call is an outage; a history of two rows stands for Tautulli's 5000, so that a third falls out; four moments exceed every window of the
instance, six twice the staleness horizon.

**Deadlock** is not checked in CheckRunner, PeerChannel, DecisionExec, AgentLifecycle, Cleanup, Digest and
WebSessions, whose instances have a finite amount of work.

**Fairness.** FindingStore: cron starts cycles again and again, `check.Run` ends (`RunReturns` of `runner`), and a
report that is complete is saved unless a (bounded) fault hits it. CheckRunner: the Go scheduler runs what
is runnable and timers fire; nothing is assumed about checks, so one that never returns is among the
behaviours. PeerChannel: the client's own steps and timers; a handler makes progress unless it hangs in
qBittorrent (`HangInDelete`), which is always possible. DecisionExec: an executor's calls all have timeouts,
so it goes on; users need not act. AgentLifecycle: goroutines that can run do, the timeout of a server's shutdown
fires, and a job ends unless it is blocked on a context that is not done; requests need not end and nobody
need send a signal. Digest: statements end, with an error if need be, and what follows them is done; a msmtp that does not
hang ends; one that hangs need never come back (`HungMsmtpEnds` has no fairness); and systemd starts a daemon
that failed again (`Restart=on-failure`, `deploy/systemd/healarr.service:11`); nobody need run a test or send a report.
The other specifications state safety only.

## Proofs

TLAPS proves the following for every value of the constants: any number of nodes, checks, reporters, messages, decisions,
torrents, requests, sessions, items and faults. Each invariant below was checked by TLC on the run of its module
before it was proved.

**FindingStore.**

* `TypeCorrect`, `OneActiveRowHolds`: inductive with `ClockOK` (a run is not stamped in the
  future). The argument goes through `RowsStep`: whatever action happens, the rows of one key are
  left alone, refreshed, appended to (only when none is live), resolved or snoozed (`NextRows`).
* `ResolvedFrozenHolds`, `SnoozeHeldHolds`: action properties from the same case split; the second needs
  `ClockOK`, because a snooze is compared with the stamp of the report and not with the clock.
* `ResolveMeansGoneHolds`, `OpenMeansSeenHolds`: need what a run knows: about every key its finished checks
  cover it has the truth, except about problems that changed since it looked (`JobSees`). A sighting is any step that
  inserts a row, reopens one or refreshes its last_seen (`Sighted`); that only a save takes one is part of the case split.
* `SettledAccurateHolds`: for a key that one reporter covers. The invariant says in addition that no run in
  flight holds a stale view of a settled problem (`SettledFresh`); that needs `JobSelected`, a run handles only
  the checks it selected, to exclude a second run on the same key.
* `RefinesLifecycleHolds`: the table implements FindingLifecycle. A save is `Reported` of the reporter's node (that a run's
  findings are of its own node is part of `JobSees`), a keep is `Kept`, the clock `Passes`, everything else
  stutters. It needs OneActiveRow, since the newest row stands for the key; `ClockOK`, since `Wakes` compares with the
  clock and the code with the stamp; and `Awake`, that an open row carries no snooze, or a refresh would not be a stutter.
* `TimesOrderedHolds` (no run names it: the bounds of `findings` are too small for it to be worth one): for a key of one
  reporter, whose run in flight is stamped after every sighting that is stored (`RunIsNewer`).

**CheckRunner and CheckFamilies** (`CheckProofs`).

* `AccountedHolds`, `OwnFindingsHolds`: OwnFindings is not inductive; that no late answer gets in rests on the channels, each
  of which only ever holds the answer of its own goroutine (`RunnerInv`).
* `OutageToldHolds`: a run that goes on has only seen failures its check tolerates (`OutageInv`), and for each of those
  `FailureTold` finds the warning. No assumption on limits, weights, titles or the checks studied is needed.
* `FlaggedIsUnimportedHolds`: while no service has changed since the run began, its answers still hold (`FlagInv`); the window
  is fixed before the histories are asked for and the clock only moves on. Its hypothesis is that the window is a number. It
  speaks of imports under the torrent's id; those without one never enter the argument, as they never enter the check.

**PeerChannel.** `AckMeansStoredHolds`, `RefusedLeavesNothingHolds`: every place of a handler says what has been stored
(`HandlerKnows`), every reply what its caller may conclude (`CallerKnows`), and nothing is in flight before a message
is sent (`Quiet`). `ActedIsRecordedHolds` is a matter of counting: every handler that may still act stands on a row that
nobody has used (`Backed`).

**DecisionExec.** `FollowUpsAfterDeleteHolds`, `ExecutedIsDoneHolds`, `TrailAgreesHolds`, `GateHeld` follow from `DecisionInv`:
the records follow the executor's steps (`Progress`), and a delete past its call is a `Winner`, of which an entity has one,
because the library never gets an entity back.

**AgentLifecycle.** `JobsBeforeCloseHolds`, `NilMeansAskedHolds`: the invariant adds where a nil can come from (a
server ends well only when runCtx is done, and until Run leaves its select only a signal ends runCtx) and
that cron is stopped before the wait for its jobs (`Contexts`, `NilResults`, `CronOrder`).

**Cleanup.** `OnlyWhenAllowedHolds`, `RowsTellHolds`, `RecordedHolds`: a process acts only between its plan and its row
(`Tells`), and the nightly job has accounted for the planners it has left (`Records`); a command that was refused has neither row
nor removal, and any other one ends with exactly one row, unless the statement failed. `NoUnimportedLossHolds` is about
what a plan is based on while people and programs go on (`Knows`): the torrents that were asked for or came later, and
imports that were seen. Its hypothesis `FlatLayout` says that an entry of a downloads directory which holds a download is
one the rule for orphans can recognise. The code does not ensure that; where it fails, the property fails too, and
the violating run `cleanup_nested` shows it. `MCCleanup` has TLC evaluate `FlatLayout` on the passing run's layout.

**StoreFile and Digest.** `DigestImplementsStoreFile`: what the daemon and `notify test` do with the file is StoreFile's, so
`FileSchemaWhole` carries over (`SchemaWholeHolds`). `OutboxTellsHolds`: which row a process holds and how far its mail is
(`MailInv`). `PeerSectionHonestHolds`: what is known of the peer at every stage of a digest, with the pruning that
may have removed its messages (`PeerInv`). `DigestTruthfulHolds`: the history variables bracket what has been read so far,
and a candidate that is left out has enough better ones ahead (`ViewInv`, `BestAhead`).

**WebSessions.** `AdmittedHolds`, `FormsJudgedHolds`: session ids are used once and an expiry is never written again
(`TableKept`), which makes the two halves of `valid` agree about the request (`Visit`). `PageTruthfulHolds`: a page
rests on what was present while it was read (`Reading`); where the history page leaves a row out, the rows that took its
place were read with it (`Crowded`).

**Assumptions.** `ReportersAssumption` (a reporter writes for one node of the set), `OrderAssumption` (the registry has no
check twice), `PlannersAssumption` (what `PlannersForNode` lists for the two nodes), `ProcsAssumption` (a daemon and a test
command), `ItemsAssumption`, `NodesAssumption` (two nodes, read in one order), `ClockAssumption` and the other bounds, which
are natural numbers. The bounds are arbitrary there, so the theorems hold for any number of runs, changes and faults.

**Only model-checked.** Liveness, which is outside the prover's reach: `Converges`; `RunReturns` and `SendersEnd` of
CheckRunner; `RunReturns` and `FailureFatal` of AgentLifecycle; `CallReturns`, `Delivered`, `Drained`, `RowsSettle` and
`DaemonUp`. `TimeNeverHeals`: it compares two runs of any of fifteen checks, and for the staleness
score needs that a quotient grows with its numerator, nonlinear arithmetic the SMT solver does not
find. The violating runs (`DeltaBaseline`, `OrphansUntracked`) refute their properties, so there is nothing to prove.

## Plan

1. Done: FindingStore, FindingLifecycle, CheckRunner, PeerChannel, DecisionExec, AgentLifecycle, Cleanup; first theorems.
2. Done: StoreFile, Digest, WebSessions, Staleness, CheckFamilies.
3. Done: every safety invariant and every action property that a passing run checks, except TimeNeverHeals, as a theorem; two refinements.
4. Left: TimeNeverHeals check by check (the ages first, the monotony of the score as lemmas of Staleness); that CheckRunner
   implements what FindingStore's CheckRan and CheckFailed say of one check; further properties of the peers' two clocks.

## Not modelled

* Service clients: request building and decoding, and the outcomes of a call are all the models use of them. `httpx` does not
  retry, so a call answers or fails; qBittorrent's second login after a 403 (`withAuth`) happens inside one call.
* Configuration loading and validation: pure functions of a file that is read once, at the start. Their results are the
  constants and initial choices of the models (`config`, `enabled`, `Limits`, `Weights`).
* Rendering of pages and mails, and the commands that make one API call and print the answer: they keep no state and
  have no order to get wrong.
* `Checkpoint`: it moves pages from the log into the file and changes no row. With `synchronous=NORMAL` a power loss may
  undo the last transactions; the models' crashes are those of processes, which lose nothing that was committed.
* The bodies of the digest beyond which items it lists (`DigestInput` counters, wording, grouping by check).
* A partial import: a torrent is one file in Cleanup, imported or not. One record under the torrent's hash is enough for
  `SeededDone` (`checks/qbit/history.go:20-51`), so of a pack that was imported in part the seeded cleanup takes the torrent,
  and the orphans cleanup later the files nobody imported; `NoUnimportedLoss` does not reach that case.
* The order of Tautulli's rows: Collect asks for 5000 rows and names no order; `Cut` keeps the newest, Tautulli's own default.
* What the other programs do (Sonarr, Radarr, Overseerr, Plex, Tautulli, Docker, qBittorrent) is only modelled as the
  answers a call to them can have.
