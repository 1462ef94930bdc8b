------------------------------- MODULE Cleanup -------------------------------
(***************************************************************************)
(* The cleanups of one node: `healarr cleanup <kind>` plans and, when the  *)
(* configuration allows it, removes recycle-bin entries, downloads that    *)
(* qBittorrent does not know, seeded torrents or unused images; the daemon *)
(* plans all of them every night and removes nothing.  Commands and the    *)
(* daemon are processes of their own, and meanwhile people add and drop    *)
(* torrents and the *arr apps import them.                                 *)
(*                                                                         *)
(* A path is the sequence of its names, so it is clean by construction;    *)
(* sizes and counts are left out.  A torrent is one file: a pack of which   *)
(* the history shows a part counts as imported, as it does in the code.     *)
(***************************************************************************)
EXTENDS Naturals, Sequences, SequencesExt, FiniteSets

CONSTANTS
  Cmds,           \* invocations of `healarr cleanup`
  Daemon,         \* the nightly planning job
  Torrents,
  Content, Saved, \* a torrent's ContentPath, and its SavePath joined with its Name
  DownloadsDirs, RecycleDirs,
  Leftovers,      \* files that are there from the start
  Configs,        \* the configurations to look at
  MaxEvents,      \* bound: things that happen outside healarr
  MaxProcesses,   \* bound: processes that get started
  MaxFaults       \* bound: failing calls and killed processes

Actors == Cmds \cup {Daemon}
Planners == <<"recycle", "orphans", "docker", "seeded">>
Kinds == ToSet(Planners)
Config == [node : {"pi", "nas"}, enabled : BOOLEAN, dryRun : BOOLEAN,
           services : SUBSET {"qbit", "arr"}]
Files == Leftovers \cup {Content[t] : t \in Torrents}

ASSUME CleanupAssumption ==
  /\ Daemon \notin Cmds /\ Configs \subseteq Config
  /\ MaxEvents \in Nat /\ MaxProcesses \in Nat /\ MaxFaults \in Nat
  /\ \A p \in Files \cup DownloadsDirs \cup RecycleDirs : p \in Seq(STRING)

VARIABLES
  config,    \* node, actions.enabled, cleanup.dry_run, the configured services
  files,     \* the files on the disk
  aged,      \* entries of the configured directories last modified long ago
  torrents,  \* what qBittorrent has
  seeded,    \* torrents that are complete, at their target and old enough
  imported,  \* what the *arr history of the last weeks shows as imported
  unused,    \* there are unused images
  proc,      \* proc[a]: where a is and what it knows
  rows,      \* rows[a]: the remediations rows a wrote, oldest first
  touched,   \* history: touched[a], what a has removed
  everImported, wanted,  \* history: torrents ever imported; torrents nobody dropped
  lost,      \* history: <<a, k>>, the row of a about k could not be written
  events, faults

outside == <<torrents, seeded, imported, unused>>
disk == <<files, aged>>
history == <<everImported, wanted>>
vars == <<config, disk, outside, proc, rows, touched, history, lost, events, faults>>

-----------------------------------------------------------------------------
(* Paths. *)

\* isUnderDir: dir itself or below it.  Cleaned, "/" is followed by a second
\* separator in the comparison, so nothing is below it.
IsUnderDir(dir, path) == dir = path \/ (dir # <<>> /\ IsStrictPrefix(dir, path))

\* ListDir of every directory: its immediate children.
EntriesOf(dirs) ==
  {SubSeq(x[1], 1, Len(x[2]) + 1) : x \in {y \in files \X dirs : IsStrictPrefix(y[2], y[1])}}

Entries == EntriesOf(DownloadsDirs \cup RecycleDirs)
Below(key) == {f \in files : IsUnderDir(key, f)}

-----------------------------------------------------------------------------
(* The planners. *)

Nodes(kind) == IF kind = "docker" THEN {"pi"} ELSE {"nas"}
PlannersForNode(node) == SelectSeq(Planners, LAMBDA kind : node \in Nodes(kind))

\* No planner comes twice.
Distinct(kinds) == \A i, j \in 1..Len(kinds) : kinds[i] = kinds[j] => i = j

\* The registry has planners for either node, each of them once.
ASSUME PlannersAssumption ==
  \A node \in {"pi", "nas"} :
    /\ PlannersForNode(node) \in Seq(Kinds) /\ PlannersForNode(node) # <<>>
    /\ Distinct(PlannersForNode(node))

\* Host and, on the Pi, Docker are always there; the others need a URL.
Configured(kind) ==
  CASE kind = "recycle" -> RecycleDirs # {}
    [] kind = "orphans" -> DownloadsDirs # {} /\ "qbit" \in config.services
    [] kind = "seeded" -> {"qbit", "arr"} \subseteq config.services
    [] kind = "docker" -> TRUE

\* trackedPaths: known and knownParents.
TrackedPaths(ts) ==
  {Content[t] : t \in ts} \cup {Saved[t] : t \in ts} \cup {Front(Content[t]) : t \in ts}

FindOrphans(ts) == EntriesOf(DownloadsDirs) \ TrackedPaths(ts)

\* Mutant: the import history is not consulted.
SeededDone_AnyHistory(ripe) == ripe

SeededDone(ripe) == ripe \cap imported

\* Plan of each planner, from what was read before and what is read now.
PlanOf(kind, p) ==
  CASE kind = "recycle" -> EntriesOf(RecycleDirs) \cap aged
    [] kind = "orphans" -> FindOrphans(p.seen) \cap aged
    [] kind = "seeded" -> SeededDone(p.ripe)
    [] kind = "docker" -> IF unused THEN {"docker:images"} ELSE {}

-----------------------------------------------------------------------------

\* kinds: the planners to go through, the present one first; flag: --dry-run;
\* seen and ripe: what qBittorrent said; todo: the plan, or what is left of it;
\* status and dry: what is going to be recorded; since (history): the torrents
\* added after qBittorrent was asked.
Idle == [pc |-> "idle", kinds |-> <<>>, flag |-> FALSE, deps |-> TRUE, seen |-> {}, ripe |-> {},
         since |-> {}, todo |-> {}, status |-> "none", dry |-> TRUE]
KindOf(a) == Head(proc[a].kinds)

Init ==
  /\ config \in Configs
  /\ files = Leftovers /\ aged = Entries
  /\ torrents = {} /\ seeded = {} /\ imported = {} /\ unused = FALSE
  /\ proc = [a \in Actors |-> Idle]
  /\ rows = [a \in Actors |-> <<>>] /\ touched = [a \in Actors |-> {}]
  /\ everImported = {} /\ wanted = {} /\ lost = {}
  /\ events = 0 /\ faults = 0

-----------------------------------------------------------------------------
(* Outside: qBittorrent and its users, the *arr apps, the clock. *)

\* The downloads, the recycle bin and qBittorrent are on the NAS.
Event == events < MaxEvents /\ events' = events + 1
OnNAS == config.node = "nas" /\ Event /\ UNCHANGED <<config, rows, touched, lost, faults>>

\* a has asked for its plan of orphans, and has not carried it out.
Asked(a) == proc[a].pc \in {"list", "exec"} /\ KindOf(a) = "orphans"

\* Its content is there already or is downloaded now, into an entry that is
\* new or, if it is an old folder, whose time may change.
AddTorrent(t) ==
  /\ OnNAS
  /\ t \notin torrents
  /\ torrents' = torrents \cup {t} /\ wanted' = wanted \cup {t} /\ seeded' = seeded \ {t}
  /\ files' = files \cup {Content[t]}
  /\ \/ aged' = aged
     \/ Content[t] \notin files /\ aged' = {e \in aged : ~IsUnderDir(e, Content[t])}
  /\ proc' = [a \in Actors |-> IF Asked(a) THEN [proc[a] EXCEPT !.since = @ \cup {t}] ELSE proc[a]]
  /\ UNCHANGED <<imported, unused, everImported>>

\* Somebody removes the torrent and leaves its files.
DropTorrent(t) ==
  /\ OnNAS
  /\ t \in torrents
  /\ torrents' = torrents \ {t} /\ wanted' = wanted \ {t} /\ seeded' = seeded \ {t}
  /\ UNCHANGED <<proc, disk, imported, unused, everImported>>

Import(t) ==
  /\ OnNAS
  /\ t \in torrents
  /\ imported' = imported \cup {t} /\ everImported' = everImported \cup {t}
  /\ UNCHANGED <<proc, disk, torrents, seeded, unused, wanted>>

\* The import is older than ArrHistoryWindow.
ForgetImport(t) ==
  /\ OnNAS
  /\ t \in imported /\ imported' = imported \ {t}
  /\ UNCHANGED <<proc, disk, torrents, seeded, unused, history>>

ReachTarget(t) ==
  /\ OnNAS
  /\ t \in torrents /\ seeded' = seeded \cup {t}
  /\ UNCHANGED <<proc, disk, torrents, imported, unused, history>>

Age(e) ==
  /\ OnNAS
  /\ e \notin aged /\ aged' = aged \cup {e}
  /\ UNCHANGED <<proc, files, outside, history>>

ImagesUnused ==
  /\ config.node = "pi" /\ Event
  /\ ~unused /\ unused' = TRUE
  /\ UNCHANGED <<config, proc, rows, touched, lost, faults, disk, torrents, seeded, imported, history>>

-----------------------------------------------------------------------------
(* runCleanup and planDailyCleanups. *)

Fault == faults < MaxFaults /\ faults' = faults + 1
Move(a, p) ==
  /\ proc' = [proc EXCEPT ![a] = p]
  /\ UNCHANGED <<config, history, events>>

\* What a planner reads first.
FirstRead(kind) == IF kind \in {"orphans", "seeded"} THEN "query" ELSE "list"

MayStart(a) ==
  proc[a].pc = "idle" /\ Cardinality({b \in Actors : proc[b].pc # "idle"}) < MaxProcesses

\* A command of this node starts to plan; so does the daemon's job, which goes
\* through all the planners of the node.
Start(a, kinds, flag) ==
  /\ MayStart(a)
  /\ Move(a, [Idle EXCEPT !.pc = FirstRead(Head(kinds)), !.kinds = kinds, !.flag = flag])
  /\ UNCHANGED <<disk, outside, rows, touched, lost, faults>>

RunCleanup(c, k, flag) == config.node \in Nodes(k) /\ Start(c, <<k>>, flag)
PlanDailyCleanups == Start(Daemon, PlannersForNode(config.node), FALSE)

\* The clients cannot be built.  A command reports the error and leaves no row;
\* the job records a failure of every planner.
DepsFail(a) ==
  /\ MayStart(a) /\ Fault
  /\ Move(a, IF a \in Cmds THEN [Idle EXCEPT !.pc = "refused"]
             ELSE [Idle EXCEPT !.pc = "record", !.kinds = PlannersForNode(config.node),
                               !.deps = FALSE, !.status = "failed"])
  /\ UNCHANGED <<disk, outside, rows, touched, lost>>

\* QBit.Torrents.
Query(a) ==
  /\ proc[a].pc = "query" /\ Configured(KindOf(a))
  /\ Move(a, [proc[a] EXCEPT !.pc = "list",
                             !.seen = IF KindOf(a) = "orphans" THEN torrents ELSE {},
                             !.ripe = IF KindOf(a) = "seeded" THEN seeded ELSE {}])
  /\ UNCHANGED <<disk, outside, rows, touched, lost, faults>>

\* finishCleanup carries no plan out unless both flags of the configuration
\* allow it; the job carries none out at all.
Blocked(a) == a = Daemon \/ ~config.enabled \/ config.dryRun

\* Mutant: --dry-run only silences the row.
Planned_NoFlag(a) == IF Blocked(a) THEN "record" ELSE "exec"

\* The --dry-run flag ends a command after its plan.
Planned(a) ==
  IF a # Daemon /\ proc[a].flag THEN "done" ELSE IF Blocked(a) THEN "record" ELSE "exec"

StatusOf(a) == IF a # Daemon /\ ~config.enabled THEN "blocked" ELSE "planned"

\* The rest of Plan and, for a command, finishCleanup up to Execute.
List(a) ==
  /\ proc[a].pc = "list" /\ Configured(KindOf(a))
  /\ Move(a, [proc[a] EXCEPT !.pc = Planned(a), !.todo = PlanOf(KindOf(a), proc[a]),
                             !.status = StatusOf(a)])
  /\ UNCHANGED <<disk, outside, rows, touched, lost, faults>>

\* A service is not configured or a read fails: there is no plan at all.
PlanFails(a) ==
  /\ proc[a].pc \in {"query", "list"}
  /\ IF Configured(KindOf(a)) THEN Fault ELSE UNCHANGED faults
  /\ Move(a, [proc[a] EXCEPT !.pc = IF proc[a].flag THEN "done" ELSE "record",
                             !.status = "failed", !.seen = {}, !.ripe = {}, !.since = {}])
  /\ UNCHANGED <<disk, outside, rows, touched, lost>>

-----------------------------------------------------------------------------
(* Execute. *)

\* Its own gate, before any call: else it returns ErrActionsDisabled.
ActionsAllowed == config.enabled /\ ~config.dryRun
Executing(a, kinds) == proc[a].pc = "exec" /\ KindOf(a) \in kinds /\ ActionsAllowed

AllowedPrefixes(kind) == IF kind = "recycle" THEN RecycleDirs ELSE DownloadsDirs
UnderAnyPrefix(key, dirs) == \E d \in dirs : IsUnderDir(d, key)

\* executeHostRemove of one item; os.RemoveAll is content with a path that is
\* gone already.  A refused path is an error of the result, no more.
RemoveItem(a, key) ==
  /\ Executing(a, {"recycle", "orphans"}) /\ key \in proc[a].todo
  /\ LET gone == IF UnderAnyPrefix(key, AllowedPrefixes(KindOf(a))) THEN Below(key) ELSE {}
     IN  /\ files' = files \ gone
         /\ aged' = IF gone = {} THEN aged ELSE aged \ {key}
         /\ touched' = [touched EXCEPT ![a] = @ \cup gone]
  /\ Move(a, [proc[a] EXCEPT !.todo = @ \ {key}])
  /\ UNCHANGED <<outside, rows, lost, faults>>

\* It stops half way; the plan goes on with the next item.
RemoveFails(a, key) ==
  /\ Executing(a, {"recycle", "orphans"}) /\ key \in proc[a].todo
  /\ Fault
  /\ \E part \in SUBSET Below(key) :
       /\ files' = files \ part
       /\ aged' = IF part = {} THEN aged ELSE aged \ {key}
       /\ touched' = [touched EXCEPT ![a] = @ \cup part]
  /\ Move(a, [proc[a] EXCEPT !.todo = @ \ {key}])
  /\ UNCHANGED <<outside, rows, lost>>

ToRecord(a, status) ==
  [proc[a] EXCEPT !.pc = "record", !.status = status, !.dry = FALSE,
                  !.seen = {}, !.ripe = {}, !.since = {}, !.todo = {}]

RemovalsDone(a) ==
  /\ Executing(a, {"recycle", "orphans"}) /\ proc[a].todo = {}
  /\ Move(a, ToRecord(a, "executed"))
  /\ UNCHANGED <<disk, outside, rows, touched, lost, faults>>

Deleted(a) ==
  /\ torrents' = torrents \ proc[a].todo /\ seeded' = seeded \ proc[a].todo
  /\ touched' = [touched EXCEPT ![a] = @ \cup (torrents \cap proc[a].todo)]

\* QBit.Delete of all of them, never with their files.
ExecuteSeeded(a) ==
  /\ Executing(a, {"seeded"})
  /\ Deleted(a)
  /\ Move(a, ToRecord(a, "executed"))
  /\ UNCHANGED <<disk, imported, unused, rows, lost, faults>>

Pruned(a) ==
  /\ unused' = FALSE
  /\ touched' = [touched EXCEPT ![a] = IF unused THEN @ \cup {"docker:images"} ELSE @]

\* PruneImages, whether or not the plan has an item.
ExecuteDocker(a) ==
  /\ Executing(a, {"docker"})
  /\ Pruned(a)
  /\ Move(a, ToRecord(a, "executed"))
  /\ UNCHANGED <<disk, torrents, seeded, imported, rows, lost, faults>>

\* Mutant: a failure is recorded as the plan it was.
ExecuteFails_Dry(a) ==
  /\ proc[a].pc = "exec" /\ Fault
  /\ \/ KindOf(a) = "seeded" /\ Deleted(a) /\ UNCHANGED unused
     \/ KindOf(a) = "docker" /\ Pruned(a) /\ UNCHANGED <<torrents, seeded>>
  /\ Move(a, [proc[a] EXCEPT !.pc = "record", !.status = "failed"])
  /\ UNCHANGED <<disk, imported, rows, lost>>

\* The one call fails, before it had its effect or after; or the gate is shut.
ExecuteFails(a) ==
  /\ proc[a].pc = "exec"
  /\ \/ /\ Executing(a, {"seeded"}) /\ proc[a].todo # {} /\ Fault
        /\ Deleted(a) /\ UNCHANGED unused
     \/ /\ Executing(a, {"docker"}) /\ Fault
        /\ Pruned(a) /\ UNCHANGED <<torrents, seeded>>
     \/ /\ Executing(a, {"docker"}) \/ (Executing(a, {"seeded"}) /\ proc[a].todo # {})
        /\ Fault /\ UNCHANGED <<torrents, seeded, unused, touched>>
     \/ ~ActionsAllowed /\ UNCHANGED <<torrents, seeded, unused, touched, faults>>
  /\ Move(a, ToRecord(a, "failed"))
  /\ UNCHANGED <<disk, imported, rows, lost>>

-----------------------------------------------------------------------------
(* recordCleanup, planOneDailyCleanup and recordCleanupPlanFailure. *)

\* The job goes on with the next planner; a command has but one.
After(a) ==
  LET p == proc[a] IN
  IF Len(p.kinds) = 1 THEN [Idle EXCEPT !.pc = "done", !.kinds = p.kinds]
  ELSE [Idle EXCEPT !.pc = IF p.deps THEN FirstRead(p.kinds[2]) ELSE "record",
                    !.kinds = Tail(p.kinds), !.deps = p.deps, !.status = p.status]

RowOf(a) == [kind |-> KindOf(a), status |-> proc[a].status, dry |-> proc[a].dry]

\* Mutant: only plans that hold something are recorded.
Record_NonEmpty(a) ==
  /\ proc[a].pc = "record"
  /\ rows' = IF proc[a].status = "planned" /\ proc[a].todo = {} THEN rows
             ELSE [rows EXCEPT ![a] = Append(@, RowOf(a))]
  /\ Move(a, After(a))
  /\ UNCHANGED <<disk, outside, touched, lost, faults>>

Record(a) ==
  /\ proc[a].pc = "record"
  /\ rows' = [rows EXCEPT ![a] = Append(@, RowOf(a))]
  /\ Move(a, After(a))
  /\ UNCHANGED <<disk, outside, touched, lost, faults>>

\* The store does not open or the insert fails: an error, or a line in the log.
RecordFails(a) ==
  /\ proc[a].pc = "record" /\ Fault
  /\ lost' = lost \cup {<<a, KindOf(a)>>}
  /\ Move(a, After(a))
  /\ UNCHANGED <<disk, outside, rows, touched>>

Kill(a) ==
  /\ proc[a].pc \notin {"idle", "done", "refused", "killed"} /\ Fault
  /\ Move(a, [Idle EXCEPT !.pc = "killed"])
  /\ UNCHANGED <<disk, outside, rows, touched, lost>>

-----------------------------------------------------------------------------

Step(a) ==
  \/ DepsFail(a) \/ Query(a) \/ List(a) \/ PlanFails(a)
  \/ \E key \in proc[a].todo : RemoveItem(a, key) \/ RemoveFails(a, key)
  \/ RemovalsDone(a) \/ ExecuteSeeded(a) \/ ExecuteDocker(a) \/ ExecuteFails(a)
  \/ Record(a) \/ RecordFails(a)
  \/ Kill(a)

Environment ==
  \/ \E t \in Torrents :
       AddTorrent(t) \/ DropTorrent(t) \/ Import(t) \/ ForgetImport(t) \/ ReachTarget(t)
  \/ \E e \in Entries : Age(e)
  \/ ImagesUnused

Next ==
  \/ Environment
  \/ \E c \in Cmds, k \in Kinds, flag \in BOOLEAN : RunCleanup(c, k, flag)
  \/ PlanDailyCleanups
  \/ \E a \in Actors : Step(a)

Spec == Init /\ [][Next]_vars

-----------------------------------------------------------------------------

\* Every variable keeps its type, and only entries that exist are aged.
TypeOK ==
  /\ config \in Config
  /\ files \subseteq Files /\ aged \subseteq Entries
  /\ seeded \subseteq torrents /\ torrents \subseteq Torrents /\ imported \subseteq Torrents
  /\ unused \in BOOLEAN
  /\ \A a \in Actors :
       /\ proc[a].pc \in {"idle", "refused", "query", "list", "exec", "record", "done", "killed"}
       /\ ToSet(proc[a].kinds) \subseteq Kinds /\ (proc[a].pc \in {"idle", "refused", "killed"} \/ proc[a].kinds # <<>>)
       /\ proc[a].seen \subseteq Torrents /\ proc[a].ripe \subseteq Torrents
       /\ ToSet(rows[a]) \subseteq [kind : Kinds, status : {"planned", "blocked", "executed", "failed"}, dry : BOOLEAN]
  /\ events \in 0..MaxEvents /\ faults \in 0..MaxFaults

\* The entries the directories could ever have.
EntriesIn(dirs) ==
  {SubSeq(x[1], 1, Len(x[2]) + 1) : x \in {y \in Files \X dirs : IsStrictPrefix(y[2], y[1])}}

\* The downloads are laid out so that the rule for orphans can recognise them: an entry of a downloads directory
\* that holds what a torrent downloaded is that file or folder, the torrent's name in its save path, or the folder
\* the file is in, and no entry of a recycle bin holds it.
FlatLayout ==
  \A t \in Torrents :
    /\ \A key \in EntriesIn(DownloadsDirs) :
         IsUnderDir(key, Content[t]) => key \in {Content[t], Saved[t], Front(Content[t])}
    /\ \A key \in EntriesIn(RecycleDirs) : ~IsUnderDir(key, Content[t])

\* However cleanups of all kinds, their failures and people's doings follow one
\* another, what a torrent nobody dropped has downloaded is removed from the disk
\* only if it was imported (the history had an import of it) and the torrent
\* removed after that, or if the torrent was added after the command that removes
\* it had asked qBittorrent.
NoUnimportedLoss ==
  [][\A t \in wanted : Content[t] \in files \ files' =>
        IF t \in torrents THEN \E a \in Cmds : t \in proc[a].since ELSE t \in everImported]_vars

\* The remediations row of a process tells whether it acted: one that has ended
\* and removed anything, if only by a call that failed, has a row that is not a
\* dry run, and a process with a dry-run row removed nothing.
RowsTell ==
  \A a \in Actors :
    /\ proc[a].pc = "done" /\ touched[a] # {} /\ <<a, KindOf(a)>> \notin lost =>
         \E r \in ToSet(rows[a]) : ~r.dry
    /\ (\E r \in ToSet(rows[a]) : r.dry) => touched[a] = {}

\* Nothing is removed by the daemon, by a command with --dry-run, or unless the
\* configuration has actions.enabled and not cleanup.dry_run.
OnlyWhenAllowed ==
  \A a \in Actors : touched[a] # {} =>
    a # Daemon /\ ~proc[a].flag /\ config.enabled /\ ~config.dryRun

\* Where a's rows about planner k are.
RowsAbout(a, k) == {i \in 1..Len(rows[a]) : rows[a][i].kind = k}

\* A night's job that ends has left exactly one row, a dry run, for every planner
\* of its node, empty plans, unconfigured services and clients that cannot be
\* built included; a command that ends without --dry-run exactly one of its kind,
\* whether its plan or its calls fail; only a failing store takes a row away.
\* runCleanup "always records exactly one remediations row" is not true of a
\* command whose clients cannot be built: it is refused before its plan, and
\* leaves no row, but has not touched anything either.
Recorded ==
  \A a \in Actors :
    /\ proc[a].pc = "done" /\ ~proc[a].flag =>
         \A k \in IF a = Daemon THEN ToSet(PlannersForNode(config.node)) ELSE {KindOf(a)} :
           IF <<a, k>> \in lost THEN RowsAbout(a, k) = {}
           ELSE \E i \in 1..Len(rows[a]) : RowsAbout(a, k) = {i} /\ (a = Daemon => rows[a][i].dry)
    /\ proc[a].pc = "refused" => rows[a] = <<>> /\ touched[a] = {}

\* orphans.go: the rule "flags files and directories sitting in a downloads
\* directory that qBittorrent no longer has any record of".
OrphansUntracked ==
  \A a \in Actors : proc[a].kinds # <<>> /\ KindOf(a) = "orphans" =>
    \A key \in proc[a].todo, t \in proc[a].seen : ~IsUnderDir(key, Content[t])

=============================================================================
