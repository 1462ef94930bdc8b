---------------------------- MODULE CleanupProofs ----------------------------
(***************************************************************************)
(* What the cleanups guarantee for any number of commands, torrents, files *)
(* and directories, any configuration and any failures.                    *)
(*                                                                         *)
(* A process acts only between its plan and its row, so what its row says  *)
(* follows from where it is (Tells); the job's rows follow from the        *)
(* planners it has left (Records); what a plan may remove follows from     *)
(* what it was based on, which the environment keeps changing (Knows).     *)
(***************************************************************************)
EXTENDS Cleanup, TLAPS

-----------------------------------------------------------------------------
(* Types. *)

Working == {"query", "list", "exec", "record", "done"}
Places == Working \cup {"idle", "refused", "killed"}

Things == EntriesIn(DownloadsDirs) \cup EntriesIn(RecycleDirs) \cup Torrents \cup {"docker:images"}
Removable == Files \cup Torrents \cup {"docker:images"}

ProcType ==
  [pc : Places, kinds : Seq(Kinds), flag : BOOLEAN, deps : BOOLEAN, seen : SUBSET Torrents,
   ripe : SUBSET Torrents, since : SUBSET Torrents, todo : SUBSET Things,
   status : {"none", "planned", "blocked", "executed", "failed"}, dry : BOOLEAN]

RowType == [kind : Kinds, status : {"none", "planned", "blocked", "executed", "failed"}, dry : BOOLEAN]

Types ==
  /\ config \in Config /\ files \subseteq Files
  /\ torrents \subseteq Torrents /\ seeded \subseteq Torrents /\ imported \subseteq Torrents
  /\ proc \in [Actors -> ProcType]
  /\ \A a \in Actors : proc[a].pc \in Working => proc[a].kinds # <<>>
  /\ rows \in [Actors -> Seq(RowType)]
  /\ touched \in [Actors -> SUBSET Removable]

\* A process that does nothing.
LEMMA IdleType ==
  /\ Idle \in ProcType /\ Idle.pc = "idle" /\ Idle.kinds = <<>> /\ Idle.flag = FALSE /\ Idle.deps = TRUE
  /\ Idle.seen = {} /\ Idle.ripe = {} /\ Idle.since = {} /\ Idle.todo = {} /\ Idle.status = "none" /\ Idle.dry = TRUE
<1>1. << >> \in Seq(Kinds) OBVIOUS
<1> QED BY <1>1 DEF Idle, ProcType, Places, Working

\* Nobody has started anything.
LEMMA InitTypes == Init => Types
<1> SUFFICES ASSUME Init PROVE Types OBVIOUS
<1>1. config \in Config BY CleanupAssumption DEF CleanupAssumption, Init
<1>2. files \subseteq Files BY DEF Init, Files
<1>3. proc \in [Actors -> ProcType] /\ \A a \in Actors : proc[a] = Idle BY IdleType DEF Init
<1>4. rows \in [Actors -> Seq(RowType)] /\ touched \in [Actors -> SUBSET Removable]
  <2>1. << >> \in Seq(RowType) OBVIOUS
  <2> QED BY <2>1 DEF Init
<1> QED BY <1>1, <1>2, <1>3, <1>4, IdleType DEF Init, Types, Working

\* The paths on the disk are among all paths.
LEMMA EntriesThere ==
  ASSUME Types, NEW dirs
  PROVE  EntriesOf(dirs) \subseteq EntriesIn(dirs)
BY DEF Types, EntriesOf, EntriesIn

\* What a process does changes what it knows itself, and nothing but that.
LEMMA MoveTypes ==
  ASSUME Types, NEW a \in Actors, NEW p \in ProcType, proc' = [proc EXCEPT ![a] = p],
         p.pc \in Working => p.kinds # <<>>
  PROVE  /\ proc' \in [Actors -> ProcType] /\ proc'[a] = p
         /\ \A b \in Actors : b # a => proc'[b] = proc[b]
         /\ \A b \in Actors : proc'[b].pc \in Working => proc'[b].kinds # <<>>
<1>1. proc \in [Actors -> ProcType] BY DEF Types
<1>2. proc' \in [Actors -> ProcType] /\ proc'[a] = p /\ \A b \in Actors : b # a => proc'[b] = proc[b] BY <1>1
<1> QED BY <1>2 DEF Types

-----------------------------------------------------------------------------
(* Invariants. *)

\* The configuration lets a remove something.
Allowed(a) == a # Daemon /\ ~proc[a].flag /\ config.enabled /\ ~config.dryRun

\* A process acts only while it may, a command once, and its row waits until then.
Tells(a) ==
  /\ a \in Cmds /\ proc[a].pc \in Working => Len(proc[a].kinds) = 1
  /\ a \in Cmds /\ rows[a] # <<>> => proc[a].pc = "done"
  /\ a = Daemon => touched[a] = {} /\ proc[a].dry /\ ~proc[a].flag
  /\ proc[a].pc \in {"idle", "refused", "query", "list"} => touched[a] = {} /\ proc[a].dry
  /\ proc[a].pc = "exec" \/ touched[a] # {} => Allowed(a)
  /\ proc[a].pc = "record" => ~proc[a].flag /\ (proc[a].dry => touched[a] = {})
  /\ (\E r \in ToSet(rows[a]) : r.dry) => touched[a] = {}
  /\ proc[a].pc = "done" /\ touched[a] # {} => <<a, KindOf(a)>> \in lost \/ \E r \in ToSet(rows[a]) : ~r.dry

TellsInv == \A a \in Actors : Tells(a)

\* a has accounted for planner k: one row, unless the store took it away.
Told(a, k) ==
  IF <<a, k>> \in lost THEN RowsAbout(a, k) = {}
  ELSE \E i \in 1..Len(rows[a]) : RowsAbout(a, k) = {i} /\ (a = Daemon => rows[a][i].dry)

\* a has not come to planner k yet.
Untold(a, k) == <<a, k>> \notin lost /\ RowsAbout(a, k) = {}

\* A command's row and failure come when it ends, and the job's planner by planner:
\* it has accounted for those it is done with, and for none of those ahead.
Records(a) ==
  /\ proc[a].pc = "refused" => a \in Cmds
  /\ (a \in Cmds /\ proc[a].pc # "done") \/ proc[a].pc = "idle" => \A k \in Kinds : Untold(a, k)
  /\ a \in Cmds /\ proc[a].pc = "done" /\ ~proc[a].flag => Told(a, KindOf(a))
  /\ a = Daemon /\ proc[a].pc \in Working =>
       /\ Distinct(proc[a].kinds)
       /\ \A k \in ToSet(PlannersForNode(config.node)) \ ToSet(proc[a].kinds) : Told(a, k)
       /\ proc[a].pc # "done" => \A k \in ToSet(proc[a].kinds) : Untold(a, k)
       /\ proc[a].pc = "done" => \A k \in ToSet(PlannersForNode(config.node)) : Told(a, k)

RecordsInv == \A a \in Actors : Records(a)

\* What a plan that is going to be carried out is based on.
Knows(a) ==
  /\ Asked(a) => torrents \subseteq proc[a].seen \cup proc[a].since
  /\ proc[a].pc = "exec" =>
       /\ KindOf(a) = "orphans" => proc[a].todo \subseteq EntriesIn(DownloadsDirs) \ TrackedPaths(proc[a].seen)
       /\ KindOf(a) = "recycle" => proc[a].todo \subseteq EntriesIn(RecycleDirs)
       /\ KindOf(a) = "seeded" => proc[a].todo \subseteq everImported

KnowsInv ==
  /\ wanted \subseteq Torrents /\ imported \subseteq everImported /\ wanted \ torrents \subseteq everImported
  /\ \A a \in Actors : Knows(a)

-----------------------------------------------------------------------------
(* What the steps of a process make of it. *)

Moved(a) == proc' = [proc EXCEPT ![a] = proc'[a]] /\ proc'[a] \in ProcType /\ UNCHANGED <<config, history>>
SameJob(a) == UNCHANGED <<proc[a].kinds, proc[a].flag, proc[a].dry>>
SameKnowledge(a) == UNCHANGED <<proc[a].seen, proc[a].since>>

\* The planners of the registry.
LEMMA KindsAre == Kinds = {"recycle", "orphans", "docker", "seeded"}
BY DEF Kinds, ToSet, Planners

\* A working process has a planner to go through.
LEMMA KindThere ==
  ASSUME Types, NEW a \in Actors, proc[a].pc \in Working
  PROVE  proc[a].kinds \in Seq(Kinds) /\ proc[a].kinds # <<>> /\ KindOf(a) \in Kinds
<1>1. proc[a].kinds \in Seq(Kinds) /\ proc[a].kinds # <<>> BY DEF Types, ProcType
<1> QED BY <1>1 DEF KindOf

\* A process starts to read.
LEMMA StartShape ==
  ASSUME Types, NEW a \in Actors, NEW kinds \in Seq(Kinds), NEW flag \in BOOLEAN, Start(a, kinds, flag)
  PROVE  /\ Moved(a) /\ UNCHANGED <<disk, outside, rows, touched, lost>>
         /\ proc[a].pc = "idle" /\ proc'[a].pc \in {"query", "list"}
         /\ proc'[a].kinds = kinds /\ proc'[a].flag = flag /\ proc'[a].dry = TRUE
         /\ proc'[a].pc = "list" => Head(kinds) \notin {"orphans", "seeded"}
<1>1. PICK p : p = [Idle EXCEPT !.pc = FirstRead(Head(kinds)), !.kinds = kinds, !.flag = flag] OBVIOUS
<1>2. FirstRead(Head(kinds)) \in {"query", "list"} BY DEF FirstRead
<1>3. p \in ProcType /\ p.pc = FirstRead(Head(kinds)) /\ p.kinds = kinds /\ p.flag = flag /\ p.dry = TRUE
  BY <1>1, <1>2 DEF Idle, ProcType, Places, Working
<1>4. proc' = [proc EXCEPT ![a] = p] /\ UNCHANGED <<config, history, disk, outside, rows, touched, lost>>
  BY <1>1 DEF Start, Move
<1>5. proc'[a] = p BY <1>4 DEF Types
<1>6. proc[a].pc = "idle" BY DEF Start, MayStart
<1> QED BY <1>2, <1>3, <1>4, <1>5, <1>6 DEF Moved, FirstRead

\* A command ends at once; the job goes on to record failures.
LEMMA DepsFailShape ==
  ASSUME Types, NEW a \in Actors, DepsFail(a)
  PROVE  /\ Moved(a) /\ UNCHANGED <<disk, outside, rows, touched, lost>>
         /\ proc[a].pc = "idle" /\ proc'[a].flag = FALSE /\ proc'[a].dry = TRUE
         /\ \/ a \in Cmds /\ proc'[a].pc = "refused"
            \/ a = Daemon /\ proc'[a].pc = "record" /\ proc'[a].kinds = PlannersForNode(config.node)
<1>1. PICK p : p = IF a \in Cmds THEN [Idle EXCEPT !.pc = "refused"]
                   ELSE [Idle EXCEPT !.pc = "record", !.kinds = PlannersForNode(config.node),
                                     !.deps = FALSE, !.status = "failed"]
  OBVIOUS
<1>2. PlannersForNode(config.node) \in Seq(Kinds)
  BY PlannersAssumption DEF PlannersAssumption, Types, Config
<1>3. p \in ProcType /\ p.flag = FALSE /\ p.dry = TRUE
      /\ p.pc = (IF a \in Cmds THEN "refused" ELSE "record") /\ (a \notin Cmds => p.kinds = PlannersForNode(config.node))
  <2>1. << >> \in Seq(Kinds) OBVIOUS
  <2>2. CASE a \in Cmds
    <3>1. p = [Idle EXCEPT !.pc = "refused"] BY <1>1, <2>2
    <3> QED BY <2>1, <2>2, <3>1 DEF Idle, ProcType, Places, Working
  <2>3. CASE a \notin Cmds
    <3>1. PICK ks \in Seq(Kinds) : ks = PlannersForNode(config.node) BY <1>2
    <3>2. p = [Idle EXCEPT !.pc = "record", !.kinds = ks, !.deps = FALSE, !.status = "failed"] BY <1>1, <2>3, <3>1
    <3> QED BY <2>3, <3>1, <3>2 DEF Idle, ProcType, Places, Working
  <2> QED BY <2>2, <2>3
<1>4. proc' = [proc EXCEPT ![a] = p] /\ UNCHANGED <<config, history, disk, outside, rows, touched, lost>>
  BY <1>1 DEF DepsFail, Move
<1>5. proc'[a] = p BY <1>4 DEF Types
<1>6. proc[a].pc = "idle" BY DEF DepsFail, MayStart
<1> QED BY <1>3, <1>4, <1>5, <1>6 DEF Moved, Actors

\* qBittorrent has answered.
LEMMA QueryShape ==
  ASSUME Types, NEW a \in Actors, Query(a)
  PROVE  /\ Moved(a) /\ UNCHANGED <<disk, outside, rows, touched, lost>> /\ SameJob(a)
         /\ proc[a].pc = "query" /\ proc'[a].pc = "list"
         /\ KindOf(a) = "orphans" => proc'[a].seen = torrents
<1>0. proc[a].pc = "query" /\ proc[a] \in ProcType BY DEF Query, Types
<1>1. PICK p : p = [proc[a] EXCEPT !.pc = "list", !.seen = IF KindOf(a) = "orphans" THEN torrents ELSE {},
                                   !.ripe = IF KindOf(a) = "seeded" THEN seeded ELSE {}]
  OBVIOUS
<1>2. /\ p \in ProcType /\ p.pc = "list" /\ p.kinds = proc[a].kinds /\ p.flag = proc[a].flag /\ p.dry = proc[a].dry
      /\ KindOf(a) = "orphans" => p.seen = torrents
  BY <1>0, <1>1 DEF Types, ProcType, Places, Working
<1>3. proc' = [proc EXCEPT ![a] = p] /\ UNCHANGED <<config, history, disk, outside, rows, touched, lost>>
  BY <1>1 DEF Query, Move
<1>4. proc'[a] = p BY <1>3 DEF Types
<1> QED BY <1>0, <1>2, <1>3, <1>4 DEF Moved, SameJob

\* What a plan holds.
LEMMA PlanHolds ==
  ASSUME Types, NEW a \in Actors, proc[a].pc = "list"
  PROVE  LET plan == PlanOf(KindOf(a), proc[a]) IN
         /\ plan \in SUBSET Things
         /\ KindOf(a) = "orphans" => plan \subseteq EntriesIn(DownloadsDirs) \ TrackedPaths(proc[a].seen)
         /\ KindOf(a) = "recycle" => plan \subseteq EntriesIn(RecycleDirs)
         /\ KindOf(a) = "seeded" => plan \subseteq imported
<1>1. KindOf(a) \in {"recycle", "orphans", "docker", "seeded"} BY KindThere, KindsAre DEF Working
<1>2. EntriesOf(DownloadsDirs) \subseteq EntriesIn(DownloadsDirs) /\ EntriesOf(RecycleDirs) \subseteq EntriesIn(RecycleDirs)
  BY EntriesThere
<1>3. imported \subseteq Torrents BY DEF Types
<1>4. CASE KindOf(a) = "recycle" BY <1>2, <1>4 DEF PlanOf, Things
<1>5. CASE KindOf(a) = "orphans" BY <1>2, <1>5 DEF PlanOf, Things, FindOrphans
<1>6. CASE KindOf(a) = "seeded" BY <1>3, <1>6 DEF PlanOf, Things, SeededDone
<1>7. CASE KindOf(a) = "docker" BY <1>7 DEF PlanOf, Things
<1> QED BY <1>1, <1>4, <1>5, <1>6, <1>7

\* The plan is made.
LEMMA ListShape ==
  ASSUME Types, NEW a \in Actors, List(a)
  PROVE  /\ Moved(a) /\ UNCHANGED <<disk, outside, rows, touched, lost>> /\ SameJob(a) /\ SameKnowledge(a)
         /\ proc[a].pc = "list" /\ proc'[a].pc = Planned(a) /\ proc'[a].todo = PlanOf(KindOf(a), proc[a])
<1>0. proc[a].pc = "list" /\ proc[a] \in ProcType BY DEF List, Types
<1>1. PICK plan \in SUBSET Things : plan = PlanOf(KindOf(a), proc[a]) BY <1>0, PlanHolds
<1>2. PICK place \in Places : place = Planned(a) BY DEF Planned, Places, Working
<1>3. PICK status \in {"blocked", "planned"} : status = StatusOf(a) BY DEF StatusOf
<1>4. PICK p : p = [proc[a] EXCEPT !.pc = place, !.todo = plan, !.status = status] OBVIOUS
<1>5. /\ p \in ProcType /\ p.pc = place /\ p.kinds = proc[a].kinds /\ p.flag = proc[a].flag /\ p.dry = proc[a].dry
      /\ p.seen = proc[a].seen /\ p.since = proc[a].since /\ p.todo = plan
  BY <1>0, <1>4 DEF ProcType
<1>6. proc' = [proc EXCEPT ![a] = p] /\ UNCHANGED <<config, history, disk, outside, rows, touched, lost>>
  BY <1>1, <1>2, <1>3, <1>4 DEF List, Move
<1>7. proc'[a] = p BY <1>6 DEF Types
<1> QED BY <1>0, <1>1, <1>2, <1>5, <1>6, <1>7 DEF Moved, SameJob, SameKnowledge

\* There is no plan.
LEMMA PlanFailsShape ==
  ASSUME Types, NEW a \in Actors, PlanFails(a)
  PROVE  /\ Moved(a) /\ UNCHANGED <<disk, outside, rows, touched, lost>> /\ SameJob(a)
         /\ proc[a].pc \in {"query", "list"} /\ proc'[a].pc = IF proc[a].flag THEN "done" ELSE "record"
<1>0. proc[a].pc \in {"query", "list"} /\ proc[a] \in ProcType BY DEF PlanFails, Types
<1>1. PICK place \in {"done", "record"} : place = IF proc[a].flag THEN "done" ELSE "record" OBVIOUS
<1>2. PICK p : p = [proc[a] EXCEPT !.pc = place, !.status = "failed", !.seen = {}, !.ripe = {}, !.since = {}] OBVIOUS
<1>3. p \in ProcType /\ p.pc = place /\ p.kinds = proc[a].kinds /\ p.flag = proc[a].flag /\ p.dry = proc[a].dry
  BY <1>0, <1>2 DEF ProcType, Places, Working
<1>4. proc' = [proc EXCEPT ![a] = p] /\ UNCHANGED <<config, history, disk, outside, rows, touched, lost>>
  BY <1>1, <1>2 DEF PlanFails, Move
<1>5. proc'[a] = p BY <1>4 DEF Types
<1> QED BY <1>0, <1>1, <1>3, <1>4, <1>5 DEF Moved, SameJob

\* An item is removed, in whole or in part.
LEMMA RemoveShape ==
  ASSUME Types, NEW a \in Actors, NEW key \in proc[a].todo, RemoveItem(a, key) \/ RemoveFails(a, key)
  PROVE  /\ Moved(a) /\ UNCHANGED <<outside, rows, lost>> /\ SameJob(a) /\ SameKnowledge(a)
         /\ proc[a].pc = "exec" /\ KindOf(a) \in {"recycle", "orphans"}
         /\ proc'[a].pc = "exec" /\ proc'[a].todo = proc[a].todo \ {key}
         /\ \E gone \in SUBSET Below(key) : files' = files \ gone /\ touched' = [touched EXCEPT ![a] = @ \cup gone]
<1>0. proc[a].pc = "exec" /\ KindOf(a) \in {"recycle", "orphans"} /\ proc[a] \in ProcType
  BY DEF RemoveItem, RemoveFails, Executing, Types
<1>1. PICK p : p = [proc[a] EXCEPT !.todo = @ \ {key}] OBVIOUS
<1>2. /\ p \in ProcType /\ p.pc = "exec" /\ p.kinds = proc[a].kinds /\ p.flag = proc[a].flag /\ p.dry = proc[a].dry
      /\ p.seen = proc[a].seen /\ p.since = proc[a].since /\ p.todo = proc[a].todo \ {key}
  BY <1>0, <1>1 DEF ProcType
<1>3. proc' = [proc EXCEPT ![a] = p] /\ UNCHANGED <<config, history, outside, rows, lost>>
  BY <1>1 DEF RemoveItem, RemoveFails, Move
<1>4. proc'[a] = p BY <1>3 DEF Types
<1>5. \E gone \in SUBSET Below(key) : files' = files \ gone /\ touched' = [touched EXCEPT ![a] = @ \cup gone]
  <2>1. CASE RemoveItem(a, key)
    <3>1. PICK gone : gone = IF UnderAnyPrefix(key, AllowedPrefixes(KindOf(a))) THEN Below(key) ELSE {} OBVIOUS
    <3>2. gone \in SUBSET Below(key) BY <3>1
    <3>3. files' = files \ gone /\ touched' = [touched EXCEPT ![a] = @ \cup gone] BY <2>1, <3>1 DEF RemoveItem
    <3> QED BY <3>2, <3>3
  <2>2. CASE RemoveFails(a, key) BY <2>2 DEF RemoveFails
  <2> QED BY <2>1, <2>2
<1> QED BY <1>0, <1>2, <1>3, <1>4, <1>5 DEF Moved, SameJob, SameKnowledge

Ends(a) == RemovalsDone(a) \/ ExecuteSeeded(a) \/ ExecuteDocker(a) \/ ExecuteFails(a)

\* The plan has been carried out, or failed.
LEMMA EndsShape ==
  ASSUME Types, NEW a \in Actors, Ends(a)
  PROVE  /\ Moved(a) /\ UNCHANGED <<disk, imported, rows, lost>>
         /\ UNCHANGED <<proc[a].kinds, proc[a].flag>>
         /\ proc[a].pc = "exec" /\ proc'[a].pc = "record" /\ proc'[a].dry = FALSE
         /\ \E gone \in SUBSET Removable : touched' = [touched EXCEPT ![a] = @ \cup gone]
         /\ \/ torrents' = torrents /\ seeded' = seeded
            \/ KindOf(a) = "seeded" /\ torrents' = torrents \ proc[a].todo /\ seeded' = seeded \ proc[a].todo
<1>0. proc[a].pc = "exec" /\ proc[a] \in ProcType BY DEF Ends, RemovalsDone, ExecuteSeeded, ExecuteDocker, ExecuteFails, Executing, Types
<1>1. PICK status \in {"executed", "failed"} : Move(a, ToRecord(a, status))
  BY DEF Ends, RemovalsDone, ExecuteSeeded, ExecuteDocker, ExecuteFails
<1>2. PICK p : p = ToRecord(a, status) OBVIOUS
<1>3. p \in ProcType /\ p.pc = "record" /\ p.kinds = proc[a].kinds /\ p.flag = proc[a].flag /\ p.dry = FALSE
  BY <1>0, <1>2 DEF ToRecord, ProcType, Places, Working
<1>4. proc' = [proc EXCEPT ![a] = p] /\ UNCHANGED <<config, history>> BY <1>1, <1>2 DEF Move
<1>5. proc'[a] = p BY <1>4 DEF Types
<1>6. UNCHANGED <<disk, imported, rows, lost>>
  BY DEF Ends, RemovalsDone, ExecuteSeeded, ExecuteDocker, ExecuteFails, outside
<1>7. ASSUME UNCHANGED touched PROVE \E gone \in SUBSET Removable : touched' = [touched EXCEPT ![a] = @ \cup gone]
  <2>1. touched' = [touched EXCEPT ![a] = @ \cup {}] BY <1>7 DEF Types
  <2> QED BY <2>1
<1>8. ASSUME Deleted(a) PROVE \E gone \in SUBSET Removable : touched' = [touched EXCEPT ![a] = @ \cup gone]
  BY <1>8 DEF Deleted, Types, Removable
<1>9. ASSUME Pruned(a) PROVE \E gone \in SUBSET Removable : touched' = [touched EXCEPT ![a] = @ \cup gone]
  <2>1. CASE unused BY <1>9, <2>1 DEF Pruned, Removable
  <2>2. CASE ~unused
    <3>1. touched' = [touched EXCEPT ![a] = @ \cup {}] BY <1>9, <2>2 DEF Pruned, Types
    <3> QED BY <3>1
  <2> QED BY <2>1, <2>2
<1>10. \E gone \in SUBSET Removable : touched' = [touched EXCEPT ![a] = @ \cup gone]
  BY <1>7, <1>8, <1>9 DEF Ends, RemovalsDone, ExecuteSeeded, ExecuteDocker, ExecuteFails
<1>11. \/ torrents' = torrents /\ seeded' = seeded
       \/ KindOf(a) = "seeded" /\ torrents' = torrents \ proc[a].todo /\ seeded' = seeded \ proc[a].todo
  BY DEF Ends, RemovalsDone, ExecuteSeeded, ExecuteDocker, ExecuteFails, Executing, Deleted, outside
<1> QED BY <1>0, <1>3, <1>4, <1>5, <1>6, <1>10, <1>11 DEF Moved

\* The planners that are left.
LEMMA TailThere ==
  ASSUME NEW ks \in Seq(Kinds), ks # <<>>, Len(ks) # 1
  PROVE  /\ Tail(ks) \in Seq(Kinds) /\ Tail(ks) # <<>> /\ ks[2] = Head(Tail(ks))
         /\ ToSet(ks) = {Head(ks)} \cup ToSet(Tail(ks))
         /\ Distinct(ks) => Distinct(Tail(ks)) /\ Head(ks) \notin ToSet(Tail(ks))
<1>1. Len(ks) \in Nat /\ Len(ks) # 0 OBVIOUS
<1>2. PICK n \in Nat : n = Len(ks) BY <1>1
<1>3. n # 0 /\ n # 1 BY <1>1, <1>2, Zenon
<1>4. n >= 2 BY <1>3
<1>5. /\ Tail(ks) \in Seq(Kinds) /\ Len(Tail(ks)) = n - 1
      /\ \A i \in 1..(n - 1) : Tail(ks)[i] = ks[i + 1]
  BY <1>2, <1>4
<1>6. Tail(ks) # <<>> /\ ks[2] = Head(Tail(ks))
  <2>1. 1 \in 1..(n - 1) /\ n - 1 # 0 BY <1>4
  <2>2. Tail(ks)[1] = ks[1 + 1] BY <1>5, <2>1
  <2>3. Len(Tail(ks)) # 0 BY <1>5, <2>1
  <2>4. Tail(ks) # <<>>
    <3>1. Len(<< >>) = 0 OBVIOUS
    <3> QED BY <2>3, <3>1, Zenon
  <2>5. PICK t \in Seq(Kinds) : t = Tail(ks) BY <1>5
  <2>6. Head(t) = t[1] BY <2>4, <2>5
  <2> QED BY <2>2, <2>4, <2>5, <2>6
<1>7. DOMAIN ks = 1..n /\ DOMAIN Tail(ks) = 1..(n - 1) /\ Head(ks) = ks[1] BY <1>2, <1>4, <1>5
<1>8. ASSUME NEW i \in 1..n PROVE i = 1 \/ (i - 1 \in 1..(n - 1) /\ ks[i] = Tail(ks)[i - 1])
  <2>1. i # 1 => i - 1 \in 1..(n - 1) /\ (i - 1) + 1 = i OBVIOUS
  <2> QED BY <1>5, <2>1
<1>9. ToSet(ks) \subseteq {Head(ks)} \cup ToSet(Tail(ks)) BY <1>7, <1>8 DEF ToSet
<1>10. ToSet(Tail(ks)) \subseteq ToSet(ks)
  <2>1. \A i \in 1..(n - 1) : i + 1 \in 1..n OBVIOUS
  <2> QED BY <1>5, <1>7, <2>1 DEF ToSet
<1>11. Head(ks) \in ToSet(ks)
  <2>1. 1 \in 1..n BY <1>4
  <2> QED BY <1>7, <2>1 DEF ToSet
<1>12. ASSUME Distinct(ks) PROVE Distinct(Tail(ks)) /\ Head(ks) \notin ToSet(Tail(ks))
  <2>1. \A i \in 1..(n - 1) : i + 1 \in 1..n /\ i + 1 # 1 OBVIOUS
  <2>2. \A i, j \in 1..n : ks[i] = ks[j] => i = j BY <1>2, <1>12 DEF Distinct
  <2>3. ASSUME NEW i \in 1..(n - 1), NEW j \in 1..(n - 1), Tail(ks)[i] = Tail(ks)[j] PROVE i = j
    <3>1. ks[i + 1] = ks[j + 1] BY <1>5, <2>3
    <3>2. i + 1 = j + 1 BY <2>1, <2>2, <3>1
    <3> QED BY <3>2
  <2>4. ASSUME NEW i \in 1..(n - 1) PROVE Tail(ks)[i] # ks[1]
    <3>1. 1 \in 1..n BY <1>4
    <3> QED BY <1>5, <2>1, <2>2, <3>1
  <2> QED BY <1>5, <1>7, <2>3, <2>4 DEF Distinct, ToSet
<1> QED BY <1>5, <1>6, <1>9, <1>10, <1>11, <1>12

\* On to the next planner, or the end.
LEMMA AfterShape ==
  ASSUME Types, NEW a \in Actors, Record(a) \/ RecordFails(a)
  PROVE  /\ Moved(a) /\ UNCHANGED <<disk, outside, touched>>
         /\ proc[a].pc = "record" /\ proc'[a].flag = FALSE /\ proc'[a].dry = TRUE
         /\ \/ Len(proc[a].kinds) = 1 /\ proc'[a].pc = "done" /\ proc'[a].kinds = proc[a].kinds
            \/ /\ Len(proc[a].kinds) # 1 /\ proc'[a].pc \in {"query", "list", "record"}
               /\ proc'[a].kinds = Tail(proc[a].kinds)
               /\ proc'[a].pc = "list" => Head(proc'[a].kinds) # "orphans"
<1>0. proc[a].pc = "record" /\ proc[a] \in ProcType BY DEF Record, RecordFails, Types
<1>1. PICK p : p = After(a) OBVIOUS
<1>2. proc[a].kinds \in Seq(Kinds) /\ proc[a].kinds # <<>> BY <1>0, KindThere DEF Working
<1>3. PICK ks \in Seq(Kinds) : ks = proc[a].kinds BY <1>2
<1>4. ks # <<>> /\ Tail(ks) \in Seq(Kinds) BY <1>2, <1>3
<1>5. CASE Len(ks) = 1
  <2>1. p = [Idle EXCEPT !.pc = "done", !.kinds = ks] BY <1>1, <1>3, <1>5 DEF After
  <2>2. p \in ProcType /\ p.pc = "done" /\ p.kinds = ks /\ p.flag = FALSE /\ p.dry = TRUE
    BY <2>1 DEF Idle, ProcType, Places, Working
  <2>3. proc' = [proc EXCEPT ![a] = p] /\ UNCHANGED <<config, history, disk, outside, touched>>
    BY <1>1 DEF Record, RecordFails, Move
  <2>4. proc'[a] = p BY <2>3 DEF Types
  <2> QED BY <1>0, <1>3, <1>5, <2>2, <2>3, <2>4 DEF Moved
<1>6. CASE Len(ks) # 1
  <2>0. ks[2] = Head(Tail(ks)) BY <1>4, <1>6, TailThere
  <2>1. PICK place \in {"query", "list", "record"} : place = IF proc[a].deps THEN FirstRead(ks[2]) ELSE "record"
    BY DEF FirstRead
  <2>2. place = "list" => Head(Tail(ks)) # "orphans" BY <2>0, <2>1 DEF FirstRead
  <2>3. PICK deps \in BOOLEAN : deps = proc[a].deps BY <1>0 DEF ProcType
  <2>4. PICK status \in {"none", "planned", "blocked", "executed", "failed"} : status = proc[a].status
    BY <1>0 DEF ProcType
  <2>5. p = [Idle EXCEPT !.pc = place, !.kinds = Tail(ks), !.deps = deps, !.status = status]
    BY <1>1, <1>3, <1>6, <2>1, <2>3, <2>4 DEF After
  <2>6. p \in ProcType /\ p.pc = place /\ p.kinds = Tail(ks) /\ p.flag = FALSE /\ p.dry = TRUE
    BY <1>4, <2>5 DEF Idle, ProcType, Places, Working
  <2>7. proc' = [proc EXCEPT ![a] = p] /\ UNCHANGED <<config, history, disk, outside, touched>>
    BY <1>1 DEF Record, RecordFails, Move
  <2>8. proc'[a] = p BY <2>7 DEF Types
  <2> QED BY <1>0, <1>3, <1>6, <2>2, <2>6, <2>7, <2>8 DEF Moved
<1> QED BY <1>5, <1>6

\* What the process knew is gone.
LEMMA KillShape ==
  ASSUME Types, NEW a \in Actors, Kill(a)
  PROVE  /\ Moved(a) /\ UNCHANGED <<disk, outside, rows, touched, lost>>
         /\ proc[a].pc \notin {"idle", "done"} /\ proc'[a].pc = "killed" /\ proc'[a].flag = FALSE /\ proc'[a].dry = TRUE
<1>1. PICK p : p = [Idle EXCEPT !.pc = "killed"] OBVIOUS
<1>2. p \in ProcType /\ p.pc = "killed" /\ p.flag = FALSE /\ p.dry = TRUE
  <2>1. << >> \in Seq(Kinds) OBVIOUS
  <2> QED BY <1>1, <2>1 DEF Idle, ProcType, Places, Working
<1>3. proc' = [proc EXCEPT ![a] = p] /\ UNCHANGED <<config, history, disk, outside, rows, touched, lost>>
  BY <1>1 DEF Kill, Move
<1>4. proc'[a] = p BY <1>3 DEF Types
<1> QED BY <1>2, <1>3, <1>4 DEF Moved, Kill

-----------------------------------------------------------------------------
(* The types are kept. *)

\* A step from outside leaves process a as it is, but for what was added since it asked.
Watched(a) ==
  /\ SameJob(a) /\ UNCHANGED <<proc[a].pc, proc[a].seen, proc[a].todo>>
  /\ Asked(a) => torrents' \subseteq torrents \cup proc'[a].since
  /\ proc[a].since \subseteq proc'[a].since

\* None of the things that happen outside disturbs a process.
LEMMA OutsideShape ==
  ASSUME Types, Environment
  PROVE  /\ UNCHANGED <<config, rows, touched, lost>>
         /\ proc' \in [Actors -> ProcType] /\ \A a \in Actors : Watched(a)
         /\ files \subseteq files' /\ files' \subseteq Files
         /\ torrents' \subseteq Torrents /\ seeded' \subseteq Torrents /\ imported' \subseteq Torrents
<1>0. /\ proc \in [Actors -> ProcType] /\ files \subseteq Files
      /\ torrents \subseteq Torrents /\ seeded \subseteq Torrents /\ imported \subseteq Torrents
  BY DEF Types
<1>1. ASSUME NEW t \in Torrents, AddTorrent(t)
      PROVE  proc' \in [Actors -> ProcType] /\ \A a \in Actors : Watched(a)
  <2>1. /\ torrents' = torrents \cup {t}
        /\ proc' = [a \in Actors |-> IF Asked(a) THEN [proc[a] EXCEPT !.since = @ \cup {t}] ELSE proc[a]]
    BY <1>1 DEF AddTorrent
  <2>2. ASSUME NEW a \in Actors PROVE proc'[a] \in ProcType /\ Watched(a)
    <3>0. proc[a] \in ProcType BY <1>0
    <3>1. CASE Asked(a)
      <4>1. PICK p \in ProcType : p = proc[a] BY <3>0
      <4>2. PICK q : q = [p EXCEPT !.since = @ \cup {t}] OBVIOUS
      <4>3. /\ q \in ProcType /\ q.pc = p.pc /\ q.kinds = p.kinds /\ q.flag = p.flag /\ q.dry = p.dry
            /\ q.seen = p.seen /\ q.todo = p.todo /\ q.since = p.since \cup {t}
        BY <4>2 DEF ProcType
      <4>4. proc'[a] = q BY <2>1, <3>1, <4>1, <4>2
      <4> QED BY <2>1, <4>1, <4>3, <4>4 DEF Watched, SameJob
    <3>2. CASE ~Asked(a)
      <4>1. proc'[a] = proc[a] BY <2>1, <3>2
      <4> QED BY <3>0, <3>2, <4>1 DEF Watched, SameJob
    <3> QED BY <3>1, <3>2
  <2>3. proc' \in [Actors -> ProcType] BY <2>1, <2>2
  <2> QED BY <2>2, <2>3
<1>2. ASSUME NEW t \in Torrents, AddTorrent(t)
      PROVE  /\ UNCHANGED <<config, rows, touched, lost>> /\ files \subseteq files' /\ files' \subseteq Files
             /\ torrents' \subseteq Torrents /\ seeded' \subseteq Torrents /\ imported' \subseteq Torrents
  <2>1. Content[t] \in Files BY DEF Files
  <2> QED BY <1>0, <1>2, <2>1 DEF AddTorrent, OnNAS
<1>3. ASSUME UNCHANGED proc, torrents' \subseteq torrents
      PROVE  proc' \in [Actors -> ProcType] /\ \A a \in Actors : Watched(a)
  BY <1>0, <1>3 DEF Watched, SameJob
<1>4. ASSUME NEW t \in Torrents, DropTorrent(t) \/ Import(t) \/ ForgetImport(t) \/ ReachTarget(t)
      PROVE  /\ UNCHANGED <<config, rows, touched, lost, proc, files>> /\ torrents' \subseteq torrents
             /\ seeded' \subseteq Torrents /\ imported' \subseteq Torrents
  BY <1>0, <1>4 DEF DropTorrent, Import, ForgetImport, ReachTarget, OnNAS, disk
<1>5. ASSUME (\E e \in Entries : Age(e)) \/ ImagesUnused
      PROVE  UNCHANGED <<config, rows, touched, lost, proc, files, torrents, seeded, imported>>
  BY <1>5 DEF Age, ImagesUnused, OnNAS, disk, outside
<1> QED BY <1>0, <1>1, <1>2, <1>3, <1>4, <1>5 DEF Environment

\* One step per action.
LEMMA TypesStep ==
  ASSUME Types, [Next]_vars
  PROVE  Types'
<1>0. /\ config \in Config /\ files \subseteq Files /\ rows \in [Actors -> Seq(RowType)]
      /\ torrents \subseteq Torrents /\ seeded \subseteq Torrents /\ imported \subseteq Torrents
      /\ proc \in [Actors -> ProcType] /\ touched \in [Actors -> SUBSET Removable]
  BY DEF Types
<1>1. ASSUME NEW a \in Actors, Moved(a), proc'[a].pc \in Working => proc'[a].kinds # <<>>,
             files' \subseteq files, torrents' \subseteq torrents, seeded' \subseteq seeded, imported' = imported,
             rows' \in [Actors -> Seq(RowType)], touched' \in [Actors -> SUBSET Removable]
      PROVE  Types'
  <2>1. PICK p \in ProcType : p = proc'[a] BY <1>1 DEF Moved
  <2>2. proc' = [proc EXCEPT ![a] = p] /\ config' = config BY <1>1, <2>1 DEF Moved
  <2>3. proc' \in [Actors -> ProcType] /\ \A b \in Actors : proc'[b].pc \in Working => proc'[b].kinds # <<>>
    BY <1>1, <2>1, <2>2, MoveTypes
  <2> QED BY <1>0, <1>1, <2>2, <2>3 DEF Types
<1>2. ASSUME NEW a \in Actors, NEW kinds \in Seq(Kinds), kinds # <<>>, NEW flag \in BOOLEAN, Start(a, kinds, flag)
      PROVE  Types'
  <2>1. Moved(a) /\ UNCHANGED <<disk, outside, rows, touched>> /\ proc'[a].kinds = kinds BY <1>2, StartShape
  <2> QED BY <1>0, <1>1, <1>2, <2>1 DEF disk, outside
<1>3. CASE (\E c \in Cmds, k \in Kinds, flag \in BOOLEAN : RunCleanup(c, k, flag)) \/ PlanDailyCleanups
  <2>1. ASSUME NEW c \in Cmds, NEW k \in Kinds, NEW flag \in BOOLEAN, RunCleanup(c, k, flag) PROVE Types'
    <3>1. <<k>> \in Seq(Kinds) /\ <<k>> # <<>> /\ c \in Actors BY DEF Actors
    <3> QED BY <1>2, <2>1, <3>1 DEF RunCleanup
  <2>2. CASE PlanDailyCleanups
    <3>1. PlannersForNode(config.node) \in Seq(Kinds) /\ PlannersForNode(config.node) # <<>> /\ Daemon \in Actors
      BY <1>0, PlannersAssumption DEF PlannersAssumption, Config, Actors
    <3> QED BY <1>2, <2>2, <3>1 DEF PlanDailyCleanups
  <2> QED BY <1>3, <2>1, <2>2
<1>4. ASSUME NEW a \in Actors, DepsFail(a) PROVE Types'
  <2>1. /\ Moved(a) /\ UNCHANGED <<disk, outside, rows, touched>>
        /\ proc'[a].pc = "refused" \/ proc'[a].kinds = PlannersForNode(config.node)
    BY <1>4, DepsFailShape
  <2>2. PlannersForNode(config.node) # <<>> BY <1>0, PlannersAssumption DEF PlannersAssumption, Config
  <2> QED BY <1>0, <1>1, <2>1, <2>2 DEF disk, outside, Working
<1>5. ASSUME NEW a \in Actors, Query(a) \/ List(a) \/ PlanFails(a) PROVE Types'
  <2>1. Moved(a) /\ UNCHANGED <<disk, outside, rows, touched>> /\ SameJob(a) /\ proc[a].pc \in Working
    BY <1>5, QueryShape, ListShape, PlanFailsShape DEF Working
  <2>2. proc'[a].kinds # <<>> BY <2>1, KindThere DEF SameJob
  <2> QED BY <1>0, <1>1, <2>1, <2>2 DEF disk, outside
<1>6. ASSUME NEW a \in Actors, NEW key \in proc[a].todo, RemoveItem(a, key) \/ RemoveFails(a, key) PROVE Types'
  <2>1. Moved(a) /\ UNCHANGED <<outside, rows>> /\ SameJob(a) /\ proc[a].pc = "exec" BY <1>6, RemoveShape
  <2>2. PICK gone \in SUBSET Below(key) : files' = files \ gone /\ touched' = [touched EXCEPT ![a] = @ \cup gone]
    BY <1>6, RemoveShape
  <2>3. gone \subseteq Removable BY <1>0 DEF Below, Removable
  <2>4. touched' \in [Actors -> SUBSET Removable] BY <1>0, <2>2, <2>3
  <2>5. proc'[a].kinds # <<>> BY <2>1, KindThere DEF SameJob, Working
  <2> QED BY <1>0, <1>1, <2>1, <2>2, <2>4, <2>5 DEF outside
<1>7. ASSUME NEW a \in Actors, Ends(a) PROVE Types'
  <2>1. /\ Moved(a) /\ UNCHANGED <<disk, imported, rows>> /\ proc'[a].kinds = proc[a].kinds /\ proc[a].pc = "exec"
        /\ torrents' \subseteq torrents /\ seeded' \subseteq seeded
    BY <1>7, EndsShape
  <2>2. PICK gone \in SUBSET Removable : touched' = [touched EXCEPT ![a] = @ \cup gone] BY <1>7, EndsShape
  <2>3. touched' \in [Actors -> SUBSET Removable] BY <1>0, <2>2
  <2>4. proc'[a].kinds # <<>> BY <2>1, KindThere DEF Working
  <2> QED BY <1>0, <1>1, <2>1, <2>3, <2>4 DEF disk
<1>8. ASSUME NEW a \in Actors, Record(a) \/ RecordFails(a) PROVE Types'
  <2>1. /\ Moved(a) /\ UNCHANGED <<disk, outside, touched>> /\ proc[a].pc = "record"
        /\ \/ Len(proc[a].kinds) = 1 /\ proc'[a].kinds = proc[a].kinds
           \/ Len(proc[a].kinds) # 1 /\ proc'[a].kinds = Tail(proc[a].kinds)
    BY <1>8, AfterShape
  <2>2. proc[a].kinds \in Seq(Kinds) /\ proc[a].kinds # <<>> /\ KindOf(a) \in Kinds BY <2>1, KindThere DEF Working
  <2>3. proc'[a].kinds # <<>> BY <2>1, <2>2, TailThere
  <2>4. rows' \in [Actors -> Seq(RowType)]
    <3>1. PICK r : r = RowOf(a) OBVIOUS
    <3>2. proc[a] \in ProcType BY <1>0
    <3>3. r \in RowType BY <2>2, <3>1, <3>2 DEF RowOf, ProcType, RowType
    <3>4. rows' = rows \/ rows' = [rows EXCEPT ![a] = Append(@, r)] BY <1>8, <3>1 DEF Record, RecordFails
    <3>5. rows[a] \in Seq(RowType) BY <1>0
    <3>6. Append(rows[a], r) \in Seq(RowType) BY <3>3, <3>5
    <3> QED BY <1>0, <3>4, <3>6
  <2> QED BY <1>0, <1>1, <2>1, <2>3, <2>4 DEF disk, outside
<1>9. ASSUME NEW a \in Actors, Kill(a) PROVE Types'
  <2>1. Moved(a) /\ UNCHANGED <<disk, outside, rows, touched>> /\ proc'[a].pc = "killed" BY <1>9, KillShape
  <2> QED BY <1>0, <1>1, <2>1 DEF disk, outside, Working
<1>10. CASE Environment
  <2>1. /\ UNCHANGED <<config, rows, touched>> /\ proc' \in [Actors -> ProcType]
        /\ \A a \in Actors : Watched(a)
        /\ files' \subseteq Files
        /\ torrents' \subseteq Torrents /\ seeded' \subseteq Torrents /\ imported' \subseteq Torrents
    BY <1>10, OutsideShape
  <2>2. \A a \in Actors : proc'[a].pc = proc[a].pc /\ proc'[a].kinds = proc[a].kinds BY <2>1 DEF Watched, SameJob
  <2> QED BY <1>0, <2>1, <2>2 DEF Types
<1>11. CASE UNCHANGED vars BY <1>11 DEF vars, disk, outside, Types
<1> QED BY <1>3, <1>4, <1>5, <1>6, <1>7, <1>8, <1>9, <1>10, <1>11 DEF Next, Step, Ends

-----------------------------------------------------------------------------
(* The rows. *)

\* Appending a row to a sequence of them.
LEMMA Appended ==
  ASSUME NEW s \in Seq(RowType), NEW r \in RowType
  PROVE  LET n == Len(s) IN
         /\ Append(s, r) \in Seq(RowType) /\ Append(s, r) # <<>>
         /\ ToSet(Append(s, r)) = ToSet(s) \cup {r}
         /\ 1..Len(Append(s, r)) = (1..n) \cup {n + 1} /\ n + 1 \notin 1..n
         /\ \A i \in 1..n : Append(s, r)[i] = s[i]
         /\ Append(s, r)[n + 1] = r
<1>1. PICK n \in Nat : n = Len(s) OBVIOUS
<1>2. PICK u : u = Append(s, r) OBVIOUS
<1>3. u \in Seq(RowType) /\ Len(u) = n + 1 /\ (\A i \in 1..n : u[i] = s[i]) /\ u[n + 1] = r BY <1>1, <1>2
<1>4. 1..(n + 1) = (1..n) \cup {n + 1} /\ n + 1 \notin 1..n /\ n + 1 # 0 OBVIOUS
<1>5. u # <<>>
  <2>1. Len(<< >>) = 0 OBVIOUS
  <2> QED BY <1>3, <1>4, <2>1, Zenon
<1>6. DOMAIN u = 1..(n + 1) /\ DOMAIN s = 1..n BY <1>1, <1>3
<1>7. ToSet(u) = ToSet(s) \cup {r} BY <1>3, <1>4, <1>6 DEF ToSet
<1> QED BY <1>1, <1>2, <1>3, <1>4, <1>5, <1>7

\* A row is added for the planner a is at, or the failure is noted; what a has
\* told of the other planners, and what the others have, stays.
LEMMA RowAdded ==
  ASSUME Types, NEW a \in Actors, Record(a) \/ RecordFails(a)
  PROVE  /\ \A b \in Actors : b # a => rows'[b] = rows[b] /\ \A k : <<b, k>> \in lost' <=> <<b, k>> \in lost
         /\ ToSet(rows[a]) \subseteq ToSet(rows'[a])
         /\ \A r \in ToSet(rows'[a]) : r \in ToSet(rows[a]) \/ r.dry = proc[a].dry
         /\ <<a, KindOf(a)>> \in lost' \/ \E r \in ToSet(rows'[a]) : r.dry = proc[a].dry
         /\ \A k : k # KindOf(a) => (Told(a, k) => Told(a, k)') /\ (Untold(a, k) => Untold(a, k)')
         /\ \A k : k = KindOf(a) /\ Untold(a, k) /\ (a = Daemon => proc[a].dry) => Told(a, k)'
<1>0. rows \in [Actors -> Seq(RowType)] /\ proc[a].pc = "record" BY DEF Types, Record, RecordFails
<1>1. PICK s \in Seq(RowType) : s = rows[a] BY <1>0
<1>2. PICK k0 : k0 = KindOf(a) OBVIOUS
<1>3. CASE Record(a)
  <2>1. PICK r : r = RowOf(a) OBVIOUS
  <2>2. r.kind = k0 /\ r.dry = proc[a].dry BY <1>2, <2>1 DEF RowOf
  <2>3. r \in RowType
    <3>1. k0 \in Kinds /\ proc[a] \in ProcType BY <1>0, <1>2, KindThere DEF Working, Types
    <3> QED BY <1>2, <2>1, <3>1 DEF RowOf, ProcType, RowType
  <2>4. rows' = [rows EXCEPT ![a] = Append(@, r)] /\ lost' = lost BY <1>3, <2>1 DEF Record
  <2>5. rows'[a] = Append(s, r) /\ \A b \in Actors : b # a => rows'[b] = rows[b] BY <1>0, <1>1, <2>4
  <2>6. PICK n \in Nat : n = Len(s) BY <1>1
  <2>7. PICK u : u = rows'[a] OBVIOUS
  <2>8. /\ u = Append(s, r) /\ ToSet(u) = ToSet(s) \cup {r} /\ 1..Len(u) = (1..n) \cup {n + 1} /\ n + 1 \notin 1..n
        /\ (\A i \in 1..n : u[i] = s[i]) /\ u[n + 1] = r
    BY <2>3, <2>5, <2>6, <2>7, Appended
  <2>9. ASSUME NEW k, k # k0 PROVE RowsAbout(a, k)' = RowsAbout(a, k)
    BY <1>1, <2>2, <2>6, <2>7, <2>8, <2>9 DEF RowsAbout
  <2>10. RowsAbout(a, k0) = {} => RowsAbout(a, k0)' = {n + 1} BY <1>1, <2>2, <2>6, <2>7, <2>8 DEF RowsAbout
  <2>11. ASSUME NEW k, k # k0 PROVE (Told(a, k) => Told(a, k)') /\ (Untold(a, k) => Untold(a, k)')
    BY <1>1, <2>4, <2>6, <2>7, <2>8, <2>9, <2>11 DEF Told, Untold
  <2>12. ASSUME Untold(a, k0), a = Daemon => proc[a].dry PROVE Told(a, k0)'
    <3>1. n + 1 \in 1..Len(u) /\ (a = Daemon => u[n + 1].dry) BY <2>2, <2>8, <2>12
    <3>2. <<a, k0>> \notin lost' /\ RowsAbout(a, k0)' = {n + 1} BY <2>4, <2>10, <2>12 DEF Untold
    <3> QED BY <2>7, <3>1, <3>2 DEF Told
  <2> QED BY <1>1, <1>2, <2>2, <2>4, <2>5, <2>7, <2>8, <2>11, <2>12
<1>4. CASE RecordFails(a)
  <2>1. rows' = rows /\ lost' = lost \cup {<<a, k0>>} BY <1>2, <1>4 DEF RecordFails
  <2>2. \A k : RowsAbout(a, k)' = RowsAbout(a, k) BY <2>1 DEF RowsAbout
  <2>3. ASSUME NEW k, k # k0 PROVE (Told(a, k) => Told(a, k)') /\ (Untold(a, k) => Untold(a, k)')
    BY <2>1, <2>2, <2>3 DEF Told, Untold
  <2>4. Untold(a, k0) => Told(a, k0)' BY <2>1, <2>2 DEF Told, Untold
  <2> QED BY <1>2, <2>1, <2>3, <2>4
<1> QED BY <1>3, <1>4

\* The registry does not change.
LEMMA PlannersSame ==
  ASSUME config' = config
  PROVE  PlannersForNode(config.node)' = PlannersForNode(config.node)
OBVIOUS

\* Nothing new is lost about b.
NoLoss(b) == \A k : <<b, k>> \in lost' <=> <<b, k>> \in lost

\* A process that does not move keeps its word.
LEMMA OthersTell ==
  ASSUME NEW b \in Actors, SameJob(b), UNCHANGED <<proc[b].pc, rows[b], touched[b], config>>, NoLoss(b)
  PROVE  (Tells(b) => Tells(b)') /\ (Records(b) => Records(b)')
<1>1. KindOf(b)' = KindOf(b) /\ (Allowed(b)' <=> Allowed(b)) BY DEF KindOf, Allowed, SameJob
<1>2. Tells(b) => Tells(b)' BY <1>1 DEF Tells, SameJob, NoLoss
<1>3. \A k : (Told(b, k) => Told(b, k)') /\ (Untold(b, k) => Untold(b, k)') BY DEF Told, Untold, RowsAbout, NoLoss
<1>4. PlannersForNode(config.node)' = PlannersForNode(config.node) BY PlannersSame
<1>5. proc'[b].kinds = proc[b].kinds /\ proc'[b].flag = proc[b].flag /\ proc'[b].pc = proc[b].pc BY DEF SameJob
<1>6. Records(b) => Records(b)' BY <1>1, <1>3, <1>4, <1>5 DEF Records
<1> QED BY <1>2, <1>6

\* A step of a leaves the others alone.
LEMMA StepTells ==
  ASSUME Types, TellsInv, RecordsInv, NEW a \in Actors, Moved(a),
         \A b \in Actors : b # a => rows'[b] = rows[b] /\ touched'[b] = touched[b] /\ NoLoss(b),
         Tells(a)', Records(a)'
  PROVE  TellsInv' /\ RecordsInv'
<1>1. ASSUME NEW b \in Actors, b # a PROVE Tells(b)' /\ Records(b)'
  <2>1. proc'[b] = proc[b] /\ config' = config BY <1>1 DEF Moved, Types
  <2>2. SameJob(b) /\ UNCHANGED <<proc[b].pc, rows[b], touched[b], config>> /\ NoLoss(b) BY <1>1, <2>1 DEF SameJob
  <2> QED BY <2>2, OthersTell DEF TellsInv, RecordsInv
<1> QED BY <1>1 DEF TellsInv, RecordsInv

\* Nothing is among no rows.
LEMMA NoRows == ToSet(<< >>) = {}
<1>1. DOMAIN << >> = {} OBVIOUS
<1> QED BY <1>1 DEF ToSet

\* Where nothing is written, what was told and what was not stays.
LEMMA NothingTold ==
  ASSUME NEW a, UNCHANGED <<rows, lost>>
  PROVE  \A k : /\ Told(a, k)' <=> Told(a, k)
                /\ Untold(a, k)' <=> Untold(a, k)
BY DEF Told, Untold, RowsAbout

\* A command or the job starts.
LEMMA StartTells ==
  ASSUME Types, TellsInv, RecordsInv, NEW a \in Actors, NEW kinds \in Seq(Kinds), NEW flag \in BOOLEAN,
         Start(a, kinds, flag),
         \/ a \in Cmds /\ Len(kinds) = 1
         \/ a = Daemon /\ kinds = PlannersForNode(config.node) /\ flag = FALSE
  PROVE  TellsInv' /\ RecordsInv'
<1>0. /\ Moved(a) /\ UNCHANGED <<rows, touched, lost>>
      /\ proc[a].pc = "idle" /\ proc'[a].pc \in {"query", "list"}
      /\ proc'[a].kinds = kinds /\ proc'[a].flag = flag /\ proc'[a].dry = TRUE
  BY StartShape
<1>1. Tells(a) /\ touched[a] = {} /\ (a \in Cmds => rows[a] = <<>>) /\ \A k \in Kinds : Untold(a, k)
  BY <1>0 DEF TellsInv, Tells, RecordsInv, Records
<1>2. Daemon \notin Cmds BY CleanupAssumption DEF CleanupAssumption
<1>3. Tells(a)' BY <1>0, <1>1, <1>2 DEF Tells
<1>4. Records(a)'
  <2>1. config' = config BY <1>0 DEF Moved
  <2>2. PlannersForNode(config.node)' = PlannersForNode(config.node) BY <2>1, PlannersSame
  <2>3. \A k \in Kinds : Untold(a, k)' BY <1>0, <1>1, NothingTold
  <2>4. a = Daemon => Distinct(kinds) BY <1>2, PlannersAssumption DEF PlannersAssumption, Types, Config
  <2>5. ToSet(kinds) \subseteq Kinds BY DEF ToSet
  <2> QED BY <1>0, <1>2, <2>2, <2>3, <2>4, <2>5 DEF Records
<1> QED BY <1>0, <1>3, <1>4, StepTells DEF NoLoss

\* Up to the plan.
LEMMA PlanTells ==
  ASSUME Types, TellsInv, RecordsInv, NEW a \in Actors, Query(a) \/ List(a) \/ PlanFails(a)
  PROVE  TellsInv' /\ RecordsInv'
<1>0. Moved(a) /\ UNCHANGED <<rows, touched, lost>> /\ SameJob(a) /\ proc[a].pc \in {"query", "list"}
  BY QueryShape, ListShape, PlanFailsShape
<1>1. /\ proc'[a].pc \in {"list", "exec", "record", "done"} /\ (a = Daemon => proc'[a].pc \in {"list", "record"})
      /\ proc'[a].pc = "exec" => Allowed(a)
      /\ proc'[a].pc = "record" => ~proc[a].flag
      /\ proc'[a].pc = "done" => proc[a].flag
  <2>0. a = Daemon => ~proc[a].flag BY DEF TellsInv, Tells
  <2>1. CASE Query(a) BY <2>1, QueryShape
  <2>2. CASE List(a)
    <3>1. proc'[a].pc = Planned(a) BY <2>2, ListShape
    <3> QED BY <2>0, <3>1 DEF Planned, Blocked, Allowed
  <2>3. CASE PlanFails(a) BY <2>0, <2>3, PlanFailsShape
  <2> QED BY <2>1, <2>2, <2>3
<1>2. /\ touched[a] = {} /\ proc[a].dry /\ (a \in Cmds => rows[a] = <<>> /\ Len(proc[a].kinds) = 1)
      /\ a = Daemon => ~proc[a].flag
  BY <1>0 DEF TellsInv, Tells, Working
<1>3. Daemon \notin Cmds BY CleanupAssumption DEF CleanupAssumption
<1>4. proc'[a].kinds = proc[a].kinds /\ proc'[a].flag = proc[a].flag /\ proc'[a].dry = proc[a].dry BY <1>0 DEF SameJob
<1>5. config' = config /\ (Allowed(a)' <=> Allowed(a)) BY <1>0, <1>4 DEF Moved, Allowed
<1>6. Tells(a)' BY <1>0, <1>1, <1>2, <1>3, <1>4, <1>5 DEF Tells
<1>7. Records(a)'
  <2>1. PlannersForNode(config.node)' = PlannersForNode(config.node) BY <1>5, PlannersSame
  <2>2. \A k : (Told(a, k)' <=> Told(a, k)) /\ (Untold(a, k)' <=> Untold(a, k)) BY <1>0, NothingTold
  <2>3. Records(a) /\ proc[a].pc \in Working /\ proc[a].pc # "done" BY <1>0 DEF RecordsInv, Working
  <2> QED BY <1>1, <1>3, <1>4, <2>1, <2>2, <2>3 DEF Records
<1> QED BY <1>0, <1>6, <1>7, StepTells DEF NoLoss

\* While the plan is carried out.
LEMMA ExecTells ==
  ASSUME Types, TellsInv, RecordsInv, NEW a \in Actors, Moved(a), UNCHANGED <<rows, lost>>,
         UNCHANGED <<proc[a].kinds, proc[a].flag>>, proc[a].pc = "exec",
         proc'[a].pc = "exec" \/ (proc'[a].pc = "record" /\ proc'[a].dry = FALSE),
         \A b \in Actors : b # a => touched'[b] = touched[b]
  PROVE  TellsInv' /\ RecordsInv'
<1>1. Allowed(a) /\ a # Daemon /\ a \in Cmds /\ rows[a] = <<>> /\ Len(proc[a].kinds) = 1
  BY DEF TellsInv, Tells, Allowed, Actors, Working
<1>2. Allowed(a)' /\ ~proc'[a].flag BY <1>1 DEF Moved, Allowed
<1>3. Tells(a)'
  <2>1. ToSet(rows[a]) = {} BY <1>1, NoRows
  <2> QED BY <1>1, <1>2, <2>1 DEF Tells
<1>4. Records(a)'
  <2>1. Records(a) BY DEF RecordsInv
  <2>2. \A k \in Kinds : Untold(a, k)' BY <1>1, <2>1, NothingTold DEF Records
  <2> QED BY <1>1, <2>2 DEF Records
<1> QED BY <1>3, <1>4, StepTells DEF NoLoss

\* The row is written, or is not.
LEMMA RecordTells ==
  ASSUME Types, TellsInv, RecordsInv, NEW a \in Actors, Record(a) \/ RecordFails(a)
  PROVE  TellsInv' /\ RecordsInv'
<1>0. /\ Moved(a) /\ UNCHANGED touched
      /\ proc[a].pc = "record" /\ proc'[a].flag = FALSE /\ proc'[a].dry = TRUE
      /\ \/ Len(proc[a].kinds) = 1 /\ proc'[a].pc = "done" /\ proc'[a].kinds = proc[a].kinds
         \/ /\ Len(proc[a].kinds) # 1 /\ proc'[a].pc \in {"query", "list", "record"}
            /\ proc'[a].kinds = Tail(proc[a].kinds)
  BY AfterShape
<1>1. /\ \A b \in Actors : b # a => rows'[b] = rows[b] /\ NoLoss(b)
      /\ ToSet(rows[a]) \subseteq ToSet(rows'[a])
      /\ \A r \in ToSet(rows'[a]) : r \in ToSet(rows[a]) \/ r.dry = proc[a].dry
      /\ <<a, KindOf(a)>> \in lost' \/ \E r \in ToSet(rows'[a]) : r.dry = proc[a].dry
      /\ \A k : k # KindOf(a) => (Told(a, k) => Told(a, k)') /\ (Untold(a, k) => Untold(a, k)')
      /\ \A k : k = KindOf(a) /\ Untold(a, k) /\ (a = Daemon => proc[a].dry) => Told(a, k)'
  BY RowAdded DEF NoLoss
<1>2. Daemon \notin Cmds /\ (a \in Cmds \/ a = Daemon) BY CleanupAssumption DEF CleanupAssumption, Actors
<1>3. /\ a \in Cmds => Len(proc[a].kinds) = 1
      /\ a = Daemon => touched[a] = {} /\ proc[a].dry
      /\ proc[a].dry => touched[a] = {}
      /\ touched[a] # {} => Allowed(a)
      /\ (\E r \in ToSet(rows[a]) : r.dry) => touched[a] = {}
  BY <1>0 DEF TellsInv, Tells, Working
<1>4. Allowed(a) => Allowed(a)' BY <1>0 DEF Moved, Allowed
<1>5. Tells(a)'
  <2>1. a \in Cmds => proc'[a].pc = "done" /\ Len(proc'[a].kinds) = 1 /\ KindOf(a)' = KindOf(a)
    BY <1>0, <1>3 DEF KindOf
  <2>2. (\E r \in ToSet(rows'[a]) : r.dry) => touched[a] = {} BY <1>1, <1>3
  <2>3. touched[a] # {} => <<a, KindOf(a)>> \in lost' \/ \E r \in ToSet(rows'[a]) : ~r.dry BY <1>1, <1>3
  <2>4. touched[a] # {} => a \in Cmds BY <1>2, <1>3
  <2>5. touched'[a] = touched[a] BY <1>0
  <2> QED BY <1>0, <1>2, <1>3, <1>4, <2>1, <2>2, <2>3, <2>4, <2>5 DEF Tells
<1>6. Records(a)'
  <2>0. PICK k0 : k0 = KindOf(a) OBVIOUS
  <2>1. k0 \in Kinds BY <1>0, <2>0, KindThere DEF Working
  <2>2. Records(a) BY DEF RecordsInv
  <2>3. \A k : k # k0 => (Told(a, k) => Told(a, k)') /\ (Untold(a, k) => Untold(a, k)') BY <1>1, <2>0
  <2>4. CASE a \in Cmds
    <3>1. KindOf(a)' = k0 BY <1>0, <1>3, <2>0, <2>4 DEF KindOf
    <3>2. a # Daemon /\ Untold(a, k0) BY <1>0, <1>2, <2>1, <2>2, <2>4 DEF Records
    <3>3. Told(a, k0)' BY <1>1, <2>0, <3>2
    <3>4. proc'[a].pc = "done" BY <1>0, <1>3, <2>4
    <3> QED BY <3>1, <3>2, <3>3, <3>4 DEF Records
  <2>5. CASE a = Daemon
    <3>1. PICK P : P = PlannersForNode(config.node) OBVIOUS
    <3>2. PlannersForNode(config.node)' = P BY <1>0, <3>1, PlannersSame DEF Moved
    <3>3. PICK ks \in Seq(Kinds) : ks = proc[a].kinds /\ ks # <<>> BY <1>0, KindThere DEF Working
    <3>4. /\ \A k \in ToSet(P) \ ToSet(ks) : Told(a, k)
          /\ \A k \in ToSet(ks) : Untold(a, k)
          /\ Distinct(ks)
      BY <1>0, <2>2, <2>5, <3>1, <3>3 DEF Records, Working
    <3>5. k0 = Head(ks) BY <2>0, <3>3 DEF KindOf
    <3>6. a \notin Cmds BY <1>2, <2>5
    <3>7. CASE Len(ks) = 1
      <4>1. ToSet(ks) = {k0} BY <3>5, <3>7 DEF ToSet
      <4>2. Told(a, k0)' BY <1>1, <1>3, <2>0, <2>5, <3>4, <4>1
      <4>3. \A k \in ToSet(P) : Told(a, k)' BY <2>3, <3>4, <4>1, <4>2
      <4>4. proc'[a].kinds = ks /\ proc'[a].pc = "done" BY <1>0, <3>3, <3>7
      <4> QED BY <3>2, <3>4, <3>6, <4>3, <4>4 DEF Records
    <3>8. CASE Len(ks) # 1
      <4>1. ToSet(ks) = {k0} \cup ToSet(Tail(ks)) /\ k0 \notin ToSet(Tail(ks)) /\ Distinct(Tail(ks))
        BY <3>3, <3>4, <3>5, <3>8, TailThere
      <4>2. Told(a, k0)' BY <1>1, <1>3, <2>0, <2>5, <3>4, <4>1
      <4>3. \A k \in ToSet(P) \ ToSet(Tail(ks)) : Told(a, k)' BY <2>3, <3>4, <4>1, <4>2
      <4>4. \A k \in ToSet(Tail(ks)) : Untold(a, k)' BY <2>3, <3>4, <4>1
      <4>5. proc'[a].kinds = Tail(ks) /\ proc'[a].pc \in {"query", "list", "record"} BY <1>0, <3>3, <3>8
      <4> QED BY <3>2, <3>6, <4>1, <4>3, <4>4, <4>5 DEF Records
    <3> QED BY <3>7, <3>8
  <2> QED BY <1>2, <2>4, <2>5
<1> QED BY <1>0, <1>1, <1>5, <1>6, StepTells

\* One step per action.
LEMMA TellsStep ==
  ASSUME Types, TellsInv, RecordsInv, [Next]_vars
  PROVE  TellsInv' /\ RecordsInv'
<1>1. ASSUME NEW c \in Cmds, NEW k \in Kinds, NEW flag \in BOOLEAN, RunCleanup(c, k, flag) PROVE TellsInv' /\ RecordsInv'
  <2>1. <<k>> \in Seq(Kinds) /\ Len(<<k>>) = 1 /\ c \in Actors BY DEF Actors
  <2> QED BY <1>1, <2>1, StartTells DEF RunCleanup
<1>2. CASE PlanDailyCleanups
  <2>1. PlannersForNode(config.node) \in Seq(Kinds) /\ Daemon \in Actors
    BY PlannersAssumption DEF PlannersAssumption, Types, Config, Actors
  <2> QED BY <1>2, <2>1, StartTells DEF PlanDailyCleanups
<1>3. ASSUME NEW a \in Actors, DepsFail(a) PROVE TellsInv' /\ RecordsInv'
  <2>1. /\ Moved(a) /\ UNCHANGED <<rows, touched, lost>>
        /\ proc[a].pc = "idle" /\ proc'[a].flag = FALSE /\ proc'[a].dry = TRUE
        /\ \/ a \in Cmds /\ proc'[a].pc = "refused"
           \/ a = Daemon /\ proc'[a].pc = "record" /\ proc'[a].kinds = PlannersForNode(config.node)
    BY <1>3, DepsFailShape
  <2>2. touched[a] = {} /\ (a \in Cmds => rows[a] = <<>>) /\ \A k \in Kinds : Untold(a, k)
    BY <2>1 DEF TellsInv, Tells, RecordsInv, Records
  <2>3. Daemon \notin Cmds BY CleanupAssumption DEF CleanupAssumption
  <2>4. Tells(a)' BY <2>1, <2>2, <2>3 DEF Tells, Working
  <2>5. PlannersForNode(config.node)' = PlannersForNode(config.node) BY <2>1, PlannersSame DEF Moved
  <2>6. \A k \in Kinds : Untold(a, k)' BY <2>1, <2>2, NothingTold
  <2>7. Distinct(PlannersForNode(config.node)) /\ ToSet(PlannersForNode(config.node)) \subseteq Kinds
    BY PlannersAssumption DEF PlannersAssumption, Types, Config, ToSet
  <2>8. Records(a)' BY <2>1, <2>3, <2>5, <2>6, <2>7 DEF Records, Working
  <2> QED BY <2>1, <2>4, <2>8, StepTells DEF NoLoss
<1>4. ASSUME NEW a \in Actors, Query(a) \/ List(a) \/ PlanFails(a) PROVE TellsInv' /\ RecordsInv' BY <1>4, PlanTells
<1>5. ASSUME NEW a \in Actors, NEW gone, touched' = [touched EXCEPT ![a] = @ \cup gone]
      PROVE  \A b \in Actors : b # a => touched'[b] = touched[b]
  BY <1>5 DEF Types
<1>6. ASSUME NEW a \in Actors, NEW key \in proc[a].todo, RemoveItem(a, key) \/ RemoveFails(a, key)
      PROVE  TellsInv' /\ RecordsInv'
  <2>1. /\ Moved(a) /\ UNCHANGED <<rows, lost>> /\ UNCHANGED <<proc[a].kinds, proc[a].flag>>
        /\ proc[a].pc = "exec" /\ proc'[a].pc = "exec"
        /\ \E gone : touched' = [touched EXCEPT ![a] = @ \cup gone]
    BY <1>6, RemoveShape DEF SameJob
  <2> QED BY <1>5, <2>1, ExecTells
<1>7. ASSUME NEW a \in Actors, Ends(a) PROVE TellsInv' /\ RecordsInv'
  <2>1. /\ Moved(a) /\ UNCHANGED <<rows, lost>> /\ UNCHANGED <<proc[a].kinds, proc[a].flag>>
        /\ proc[a].pc = "exec" /\ proc'[a].pc = "record" /\ proc'[a].dry = FALSE
        /\ \E gone : touched' = [touched EXCEPT ![a] = @ \cup gone]
    BY <1>7, EndsShape
  <2> QED BY <1>5, <2>1, ExecTells
<1>8. ASSUME NEW a \in Actors, Record(a) \/ RecordFails(a) PROVE TellsInv' /\ RecordsInv' BY <1>8, RecordTells
<1>9. ASSUME NEW a \in Actors, Kill(a) PROVE TellsInv' /\ RecordsInv'
  <2>1. /\ Moved(a) /\ UNCHANGED <<rows, touched, lost>>
        /\ proc[a].pc \notin {"idle", "done"} /\ proc'[a].pc = "killed" /\ proc'[a].flag = FALSE /\ proc'[a].dry = TRUE
    BY <1>9, KillShape
  <2>2. Tells(a) BY DEF TellsInv
  <2>3. (a \in Cmds => rows[a] = <<>>) /\ (touched[a] # {} => Allowed(a)') BY <2>1, <2>2 DEF Tells, Allowed, Moved
  <2>4. Tells(a)' BY <2>1, <2>2, <2>3 DEF Tells, Working
  <2>5. a \in Cmds => \A k \in Kinds : Untold(a, k)' BY <2>1, NothingTold DEF RecordsInv, Records
  <2>6. Records(a)' BY <2>1, <2>5 DEF Records, Working
  <2> QED BY <2>1, <2>4, <2>6, StepTells DEF NoLoss
<1>10. ASSUME UNCHANGED <<config, rows, touched, lost>>, \A a \in Actors : SameJob(a) /\ proc'[a].pc = proc[a].pc
       PROVE  TellsInv' /\ RecordsInv'
  <2>1. ASSUME NEW a \in Actors PROVE Tells(a)' /\ Records(a)'
    BY <1>10, <2>1, OthersTell DEF TellsInv, RecordsInv, NoLoss
  <2> QED BY <2>1 DEF TellsInv, RecordsInv
<1>11. CASE Environment BY <1>10, <1>11, OutsideShape DEF Watched
<1>12. CASE UNCHANGED vars BY <1>10, <1>12 DEF vars, SameJob
<1> QED BY <1>1, <1>2, <1>3, <1>4, <1>6, <1>7, <1>8, <1>9, <1>11, <1>12 DEF Next, Step, Ends

\* The types and the two facts about rows are one inductive invariant.
THEOREM CleanupInvariant == Spec => [](Types /\ TellsInv /\ RecordsInv)
<1>1. Init => TellsInv /\ RecordsInv
  <2> SUFFICES ASSUME Init, NEW a \in Actors PROVE Tells(a) /\ Records(a) BY DEF TellsInv, RecordsInv
  <2>1. proc[a] = Idle /\ rows[a] = <<>> /\ touched[a] = {} /\ lost = {} BY DEF Init
  <2>2. ToSet(rows[a]) = {} BY <2>1, NoRows
  <2>3. \A k : Untold(a, k)
    <3>1. 1..Len(<< >>) = {} OBVIOUS
    <3> QED BY <2>1, <3>1 DEF Untold, RowsAbout
  <2> QED BY <2>1, <2>2, <2>3, IdleType DEF Tells, Records, Working
<1>2. Types /\ TellsInv /\ RecordsInv /\ [Next]_vars => (Types /\ TellsInv /\ RecordsInv)' BY TypesStep, TellsStep
<1> QED BY <1>1, <1>2, InitTypes, PTL DEF Spec

\* Nothing is removed by the daemon, by a command with --dry-run, or unless
\* the configuration has actions.enabled and not cleanup.dry_run.
THEOREM OnlyWhenAllowedHolds == Spec => []OnlyWhenAllowed
<1>1. TellsInv => OnlyWhenAllowed BY DEF TellsInv, Tells, Allowed, OnlyWhenAllowed
<1> QED BY <1>1, CleanupInvariant, PTL

\* A process that removed something has a row that is no dry run once it has
\* ended, and a dry-run row means that nothing was removed.
THEOREM RowsTellHolds == Spec => []RowsTell
<1>1. TellsInv => RowsTell BY DEF TellsInv, Tells, RowsTell
<1> QED BY <1>1, CleanupInvariant, PTL

\* Every planner of a night's job and every command without --dry-run that got
\* to its plan leaves exactly one row, however plans and calls fail, unless the
\* store fails; a command refused before its plan leaves none, and did nothing.
THEOREM RecordedHolds == Spec => []Recorded
<1>1. TellsInv /\ RecordsInv => Recorded
  <2> SUFFICES ASSUME TellsInv, RecordsInv, NEW a \in Actors
               PROVE  /\ proc[a].pc = "done" /\ ~proc[a].flag =>
                           \A k \in IF a = Daemon THEN ToSet(PlannersForNode(config.node)) ELSE {KindOf(a)} : Told(a, k)
                      /\ proc[a].pc = "refused" => rows[a] = <<>> /\ touched[a] = {}
    BY DEF Recorded, Told
  <2>1. Records(a) /\ Tells(a) BY DEF RecordsInv, TellsInv
  <2>2. proc[a].pc = "refused" => rows[a] = <<>> /\ touched[a] = {} BY <2>1 DEF Records, Tells
  <2>3. proc[a].pc = "done" /\ ~proc[a].flag =>
          \A k \in IF a = Daemon THEN ToSet(PlannersForNode(config.node)) ELSE {KindOf(a)} : Told(a, k)
    <3>1. CASE a = Daemon BY <2>1, <3>1 DEF Records, Working
    <3>2. CASE a # Daemon BY <2>1, <3>2 DEF Records, Actors
    <3> QED BY <3>1, <3>2
  <2> QED BY <2>2, <2>3
<1> QED BY <1>1, CleanupInvariant, PTL

-----------------------------------------------------------------------------
(* What is removed. *)

\* A step of a keeps what all the others know.
LEMMA StepKnows ==
  ASSUME Types, KnowsInv, NEW a \in Actors, Moved(a), torrents' \subseteq torrents, imported' = imported,
         wanted \ torrents' \subseteq everImported, Knows(a)'
  PROVE  KnowsInv'
<1>1. wanted' = wanted /\ everImported' = everImported BY DEF Moved, history
<1>2. ASSUME NEW b \in Actors, b # a PROVE Knows(b)'
  <2>1. proc'[b] = proc[b] BY <1>2 DEF Moved, Types
  <2>2. KindOf(b)' = KindOf(b) /\ (Asked(b)' <=> Asked(b)) BY <2>1 DEF KindOf, Asked
  <2>3. Knows(b) BY DEF KnowsInv
  <2>4. Asked(b) => torrents' \subseteq proc'[b].seen \cup proc'[b].since BY <2>1, <2>3 DEF Knows
  <2> QED BY <1>1, <2>1, <2>2, <2>3, <2>4 DEF Knows
<1> QED BY <1>1, <1>2 DEF KnowsInv

\* A process that has no plan to carry out knows all it needs.
LEMMA NothingToKnow ==
  ASSUME NEW a \in Actors, proc'[a].pc \notin {"list", "exec"} \/ (proc'[a].pc = "list" /\ Head(proc'[a].kinds) # "orphans")
  PROVE  Knows(a)'
BY DEF Knows, Asked, KindOf

\* What happens outside adds to what was imported and to what came since.
LEMMA OutsideKnows ==
  ASSUME Types, KnowsInv, Environment
  PROVE  KnowsInv'
<1>1. /\ everImported \subseteq everImported' /\ wanted' \subseteq Torrents
      /\ imported' \subseteq everImported' /\ wanted' \ torrents' \subseteq everImported'
  <2>0. wanted \subseteq Torrents /\ imported \subseteq everImported /\ wanted \ torrents \subseteq everImported
    BY DEF KnowsInv
  <2>1. ASSUME NEW t \in Torrents, AddTorrent(t) \/ DropTorrent(t) PROVE
          /\ UNCHANGED <<everImported, imported>>
          /\ \/ wanted' = wanted \cup {t} /\ torrents' = torrents \cup {t}
             \/ wanted' = wanted \ {t} /\ torrents' = torrents \ {t}
    BY <2>1 DEF AddTorrent, DropTorrent
  <2>2. ASSUME NEW t \in Torrents, Import(t) PROVE
          UNCHANGED <<wanted, torrents>> /\ everImported' = everImported \cup {t} /\ imported' = imported \cup {t}
    BY <2>2 DEF Import
  <2>3. ASSUME NEW t \in Torrents, ForgetImport(t) \/ ReachTarget(t) PROVE
          UNCHANGED <<wanted, torrents, everImported>> /\ imported' \subseteq imported
    BY <2>3 DEF ForgetImport, ReachTarget, history
  <2>4. ASSUME (\E e \in Entries : Age(e)) \/ ImagesUnused PROVE UNCHANGED <<wanted, torrents, everImported, imported>>
    BY <2>4 DEF Age, ImagesUnused, history, outside
  <2> QED BY <2>0, <2>1, <2>2, <2>3, <2>4 DEF Environment
<1>2. ASSUME NEW a \in Actors PROVE Knows(a)'
  <2>1. Watched(a) BY OutsideShape
  <2>2. Knows(a) BY DEF KnowsInv
  <2>3. KindOf(a)' = KindOf(a) /\ (Asked(a)' <=> Asked(a)) BY <2>1 DEF Watched, SameJob, KindOf, Asked
  <2>4. Asked(a) => torrents' \subseteq proc'[a].seen \cup proc'[a].since BY <2>1, <2>2 DEF Watched, Knows
  <2>5. proc'[a].pc = proc[a].pc /\ proc'[a].todo = proc[a].todo /\ proc'[a].seen = proc[a].seen BY <2>1 DEF Watched
  <2>6. TrackedPaths(proc[a].seen)' = TrackedPaths(proc[a].seen) BY <2>5 DEF TrackedPaths
  <2> QED BY <1>1, <2>2, <2>3, <2>4, <2>5, <2>6 DEF Knows
<1> QED BY <1>1, <1>2 DEF KnowsInv

\* One step per action.
LEMMA KnowsStep ==
  ASSUME Types, KnowsInv, [Next]_vars
  PROVE  KnowsInv'
<1>0. imported \subseteq everImported /\ wanted \ torrents \subseteq everImported BY DEF KnowsInv
<1>1. ASSUME NEW a \in Actors, Moved(a), UNCHANGED outside, Knows(a)' PROVE KnowsInv'
  BY <1>0, <1>1, StepKnows DEF outside
<1>2. ASSUME NEW a \in Actors, NEW kinds \in Seq(Kinds), NEW flag \in BOOLEAN, Start(a, kinds, flag) PROVE KnowsInv'
  <2>1. /\ Moved(a) /\ UNCHANGED outside /\ proc'[a].pc \in {"query", "list"} /\ proc'[a].kinds = kinds
        /\ proc'[a].pc = "list" => Head(kinds) \notin {"orphans", "seeded"}
    BY <1>2, StartShape
  <2>2. Knows(a)' BY <2>1, NothingToKnow
  <2> QED BY <1>1, <2>1, <2>2
<1>3. ASSUME NEW c \in Cmds, NEW k \in Kinds, NEW flag \in BOOLEAN, RunCleanup(c, k, flag) PROVE KnowsInv'
  <2>1. <<k>> \in Seq(Kinds) /\ c \in Actors BY DEF Actors
  <2> QED BY <1>2, <1>3, <2>1 DEF RunCleanup
<1>4. CASE PlanDailyCleanups
  <2>1. PlannersForNode(config.node) \in Seq(Kinds) /\ Daemon \in Actors
    BY PlannersAssumption DEF PlannersAssumption, Types, Config, Actors
  <2> QED BY <1>2, <1>4, <2>1 DEF PlanDailyCleanups
<1>5. ASSUME NEW a \in Actors, DepsFail(a) \/ PlanFails(a) \/ Kill(a) PROVE KnowsInv'
  <2>1. Moved(a) /\ UNCHANGED outside /\ proc'[a].pc \in {"refused", "record", "done", "killed"}
    BY <1>5, DepsFailShape, PlanFailsShape, KillShape
  <2> QED BY <1>1, <2>1, NothingToKnow
<1>6. ASSUME NEW a \in Actors, Query(a) PROVE KnowsInv'
  <2>1. /\ Moved(a) /\ UNCHANGED outside /\ SameJob(a) /\ proc'[a].pc = "list"
        /\ KindOf(a) = "orphans" => proc'[a].seen = torrents
    BY <1>6, QueryShape
  <2>2. KindOf(a)' = KindOf(a) BY <2>1 DEF SameJob, KindOf
  <2>3. Knows(a)' BY <2>1, <2>2 DEF Knows, Asked, outside
  <2> QED BY <1>1, <2>1, <2>3
<1>7. ASSUME NEW a \in Actors, List(a) PROVE KnowsInv'
  <2>1. /\ Moved(a) /\ UNCHANGED outside /\ SameJob(a) /\ SameKnowledge(a)
        /\ proc[a].pc = "list" /\ proc'[a].todo = PlanOf(KindOf(a), proc[a])
    BY <1>7, ListShape
  <2>2. KindOf(a)' = KindOf(a) BY <2>1 DEF SameJob, KindOf
  <2>3. Asked(a)' => Asked(a) BY <2>1, <2>2 DEF Asked
  <2>4. Asked(a) => torrents' \subseteq proc'[a].seen \cup proc'[a].since
    BY <2>1 DEF KnowsInv, Knows, SameKnowledge, outside
  <2>5. /\ KindOf(a) = "orphans" => proc'[a].todo \subseteq EntriesIn(DownloadsDirs) \ TrackedPaths(proc[a].seen)
        /\ KindOf(a) = "recycle" => proc'[a].todo \subseteq EntriesIn(RecycleDirs)
        /\ KindOf(a) = "seeded" => proc'[a].todo \subseteq imported
    BY <2>1, PlanHolds
  <2>6. TrackedPaths(proc[a].seen)' = TrackedPaths(proc[a].seen) BY <2>1 DEF TrackedPaths, SameKnowledge
  <2>7. everImported' = everImported BY <2>1 DEF Moved, history
  <2>8. Knows(a)' BY <1>0, <2>2, <2>3, <2>4, <2>5, <2>6, <2>7 DEF Knows
  <2> QED BY <1>1, <2>1, <2>8
<1>8. ASSUME NEW a \in Actors, NEW key \in proc[a].todo, RemoveItem(a, key) \/ RemoveFails(a, key) PROVE KnowsInv'
  <2>1. /\ Moved(a) /\ UNCHANGED outside /\ SameJob(a) /\ SameKnowledge(a)
        /\ proc[a].pc = "exec" /\ proc'[a].pc = "exec" /\ proc'[a].todo \subseteq proc[a].todo
    BY <1>8, RemoveShape
  <2>2. KindOf(a)' = KindOf(a) /\ (Asked(a)' <=> Asked(a)) BY <2>1 DEF SameJob, KindOf, Asked
  <2>3. Knows(a) BY DEF KnowsInv
  <2>4. TrackedPaths(proc[a].seen)' = TrackedPaths(proc[a].seen) BY <2>1 DEF TrackedPaths, SameKnowledge
  <2>5. everImported' = everImported /\ torrents' = torrents BY <2>1 DEF Moved, history, outside
  <2>6. Asked(a) => torrents' \subseteq proc'[a].seen \cup proc'[a].since BY <2>1, <2>3, <2>5 DEF Knows, SameKnowledge
  <2>7. Knows(a)' BY <2>1, <2>2, <2>3, <2>4, <2>5, <2>6 DEF Knows
  <2> QED BY <1>1, <2>1, <2>7
<1>9. ASSUME NEW a \in Actors, Ends(a) PROVE KnowsInv'
  <2>1. /\ Moved(a) /\ imported' = imported /\ proc[a].pc = "exec" /\ proc'[a].pc = "record"
        /\ torrents' = torrents \/ (KindOf(a) = "seeded" /\ torrents' = torrents \ proc[a].todo)
    BY <1>9, EndsShape
  <2>2. KindOf(a) = "seeded" => proc[a].todo \subseteq everImported BY <2>1 DEF KnowsInv, Knows
  <2>3. wanted \ torrents' \subseteq everImported /\ torrents' \subseteq torrents BY <1>0, <2>1, <2>2
  <2>4. Knows(a)' BY <2>1, NothingToKnow
  <2> QED BY <2>1, <2>3, <2>4, StepKnows
<1>10. ASSUME NEW a \in Actors, Record(a) \/ RecordFails(a) PROVE KnowsInv'
  <2>1. /\ Moved(a) /\ UNCHANGED outside /\ proc'[a].pc \in {"done", "query", "list", "record"}
        /\ proc'[a].pc = "list" => Head(proc'[a].kinds) # "orphans"
    BY <1>10, AfterShape
  <2>2. Knows(a)' BY <2>1, NothingToKnow
  <2> QED BY <1>1, <2>1, <2>2
<1>11. CASE Environment BY <1>11, OutsideKnows
<1>12. CASE UNCHANGED vars
  <2>1. \A a \in Actors : KindOf(a)' = KindOf(a) /\ (Asked(a)' <=> Asked(a)) /\ TrackedPaths(proc[a].seen)' = TrackedPaths(proc[a].seen)
    BY <1>12 DEF vars, KindOf, Asked, TrackedPaths
  <2> QED BY <1>12, <2>1 DEF vars, outside, history, KnowsInv, Knows
<1> QED BY <1>3, <1>4, <1>5, <1>6, <1>7, <1>8, <1>9, <1>10, <1>11, <1>12 DEF Next, Step, Ends

\* What the plans are based on stays true until they are carried out.
THEOREM KnowsInvariant == Spec => []KnowsInv
<1>1. Init => KnowsInv
  <2> SUFFICES ASSUME Init PROVE KnowsInv OBVIOUS
  <2>1. \A a \in Actors : proc[a].pc = "idle" BY IdleType DEF Init
  <2>2. \A a \in Actors : Knows(a) BY <2>1 DEF Knows, Asked
  <2> QED BY <2>2 DEF Init, KnowsInv
<1>2. Types /\ KnowsInv /\ [Next]_vars => KnowsInv' BY KnowsStep
<1> QED BY <1>1, <1>2, CleanupInvariant, PTL DEF Spec

\* Only a removal takes files away.
LEMMA OnlyRemovals ==
  ASSUME Types, [Next]_vars,
         ~ \E a \in Actors : \E key \in proc[a].todo : RemoveItem(a, key) \/ RemoveFails(a, key)
  PROVE  files \subseteq files'
<1>1. ASSUME UNCHANGED disk PROVE files \subseteq files' BY <1>1 DEF disk
<1>2. CASE Environment BY <1>2, OutsideShape
<1>3. ASSUME NEW a \in Actors, NEW kinds, NEW flag, Start(a, kinds, flag) PROVE UNCHANGED disk BY <1>3 DEF Start
<1>4. ASSUME NEW a \in Actors, DepsFail(a) \/ Query(a) \/ List(a) \/ PlanFails(a) PROVE UNCHANGED disk
  BY <1>4 DEF DepsFail, Query, List, PlanFails
<1>5. ASSUME NEW a \in Actors, Ends(a) PROVE UNCHANGED disk BY <1>5, EndsShape
<1>6. ASSUME NEW a \in Actors, Record(a) \/ RecordFails(a) \/ Kill(a) PROVE UNCHANGED disk
  BY <1>6 DEF Record, RecordFails, Kill
<1>7. CASE UNCHANGED vars BY <1>7 DEF vars, disk
<1>8. Cmds \subseteq Actors /\ Daemon \in Actors BY DEF Actors
<1> QED BY <1>1, <1>2, <1>3, <1>4, <1>5, <1>6, <1>7, <1>8 DEF Next, Step, Ends, RunCleanup, PlanDailyCleanups

\* With such a layout, whatever commands, the daemon and people do, a download
\* nobody dropped is removed only if it was imported and its torrent removed
\* after that, or if its torrent was added after the command had asked.
THEOREM NoUnimportedLossHolds ==
  ASSUME FlatLayout
  PROVE  Spec => NoUnimportedLoss
<1> DEFINE Kept(t) == IF t \in torrents THEN \E a \in Cmds : t \in proc[a].since ELSE t \in everImported
<1>1. ASSUME Types, TellsInv, KnowsInv, [Next]_vars, NEW t \in wanted, Content[t] \in files \ files'
      PROVE  Kept(t)
  <2>0. PICK a \in Actors : \E key \in proc[a].todo : RemoveItem(a, key) \/ RemoveFails(a, key)
    BY <1>1, OnlyRemovals
  <2>1. PICK key \in proc[a].todo : RemoveItem(a, key) \/ RemoveFails(a, key) BY <2>0
  <2>2. /\ proc[a].pc = "exec" /\ KindOf(a) \in {"recycle", "orphans"}
        /\ \E gone \in SUBSET Below(key) : files' = files \ gone
    BY <1>1, <2>1, RemoveShape
  <2>3. IsUnderDir(key, Content[t]) BY <1>1, <2>2 DEF Below
  <2>4. a \in Cmds BY <1>1, <2>2 DEF TellsInv, Tells, Allowed, Actors
  <2>5. t \in Torrents /\ Knows(a) /\ (t \in torrents \/ t \in everImported) BY <1>1 DEF KnowsInv
  <2>6. CASE KindOf(a) = "recycle"
    <3>1. key \in EntriesIn(RecycleDirs) BY <2>2, <2>5, <2>6 DEF Knows
    <3> QED BY <2>3, <2>5, <3>1 DEF FlatLayout
  <2>7. CASE KindOf(a) = "orphans" /\ t \in torrents
    <3>1. key \in EntriesIn(DownloadsDirs) /\ key \notin TrackedPaths(proc[a].seen) BY <2>2, <2>5, <2>7 DEF Knows
    <3>2. t \in proc[a].seen \/ t \in proc[a].since BY <2>2, <2>5, <2>7 DEF Knows, Asked
    <3>3. key \in {Content[t], Saved[t], Front(Content[t])} BY <2>3, <2>5, <3>1 DEF FlatLayout
    <3>4. t \notin proc[a].seen BY <3>1, <3>3 DEF TrackedPaths
    <3> QED BY <2>4, <2>7, <3>2, <3>4
  <2>8. CASE t \notin torrents BY <2>5, <2>8
  <2> QED BY <2>2, <2>6, <2>7, <2>8
<1>2. Types /\ TellsInv /\ KnowsInv /\ [Next]_vars =>
        [\A t \in wanted : Content[t] \in files \ files' => Kept(t)]_vars
  BY <1>1
<1> QED BY <1>2, CleanupInvariant, KnowsInvariant, PTL DEF Spec, NoUnimportedLoss

=============================================================================
