-------------------------- MODULE FindingStoreProofs --------------------------
(***************************************************************************)
(* What FindingStore guarantees for every set of nodes, checks, entities   *)
(* and reporters, overlapping or not: the shape of the rows (RowsStep,     *)
(* OnlyLastActive), what a run knows (JobSees, JobSelected, SettledFresh), *)
(* that the table implements FindingLifecycle, and the order of the times. *)
(***************************************************************************)
EXTENDS FindingStore, SequenceTheorems, TLAPS

(* Each statement of the transaction keeps the rows rows. *)

LEMMA RowUpdates ==
  ASSUME NEW row \in Row, NEW g \in Nat
  PROVE  /\ RefreshedRow(row, g) \in Row /\ Active(RefreshedRow(row, g))
         /\ ResolvedRow(row, g) \in Row /\ ~Active(ResolvedRow(row, g))
         /\ SnoozedRow(row, g) \in Row /\ Active(SnoozedRow(row, g))
         /\ NewRow(g) \in Row /\ Active(NewRow(g))
<1> USE DEF Row, Active, Times, NoTime
<1>1. MaxSeen \in Nat \ {0}
  BY BoundsAssumption DEF BoundsAssumption
<1>2. RefreshedRow(row, g) \in Row /\ Active(RefreshedRow(row, g))
  BY <1>1 DEF RefreshedRow, StillSnoozed
<1>3. ResolvedRow(row, g) \in Row /\ ~Active(ResolvedRow(row, g))
  BY DEF ResolvedRow
<1>4. SnoozedRow(row, g) \in Row /\ Active(SnoozedRow(row, g))
  BY DEF SnoozedRow
<1>5. NewRow(g) \in Row /\ Active(NewRow(g))
  BY <1>1 DEF NewRow
<1>6. QED
  BY <1>2, <1>3, <1>4, <1>5

LEMMA RowsUpdates ==
  ASSUME NEW rows \in Seq(Row), NEW g \in Nat
  PROVE  /\ UpdateOpenFinding(rows, g) \in Seq(Row)
         /\ Len(UpdateOpenFinding(rows, g)) = Len(rows)
         /\ ResolveMissingFinding(rows, g) \in Seq(Row)
         /\ Len(ResolveMissingFinding(rows, g)) = Len(rows)
         /\ SnoozeFinding(rows, g) \in Seq(Row)
         /\ Len(SnoozeFinding(rows, g)) = Len(rows)
         /\ InsertFinding(rows, g) \in Seq(Row)
         /\ Len(InsertFinding(rows, g)) = Len(rows) + 1
<1>0. \A i \in 1..Len(rows) : rows[i] \in Row
  OBVIOUS
<1>1. \A i \in 1..Len(rows) : /\ rows[i] \in Row
                               /\ RefreshedRow(rows[i], g) \in Row
                               /\ ResolvedRow(rows[i], g) \in Row
                               /\ SnoozedRow(rows[i], g) \in Row
  BY <1>0, RowUpdates
<1>2. UpdateOpenFinding(rows, g) \in Seq(Row) /\ Len(UpdateOpenFinding(rows, g)) = Len(rows)
  BY <1>1, SeqDef DEF UpdateOpenFinding
<1>3. ResolveMissingFinding(rows, g) \in Seq(Row) /\ Len(ResolveMissingFinding(rows, g)) = Len(rows)
  BY <1>1, SeqDef DEF ResolveMissingFinding
<1>4. SnoozeFinding(rows, g) \in Seq(Row) /\ Len(SnoozeFinding(rows, g)) = Len(rows)
  BY <1>1, SeqDef DEF SnoozeFinding
<1>5. InsertFinding(rows, g) \in Seq(Row) /\ Len(InsertFinding(rows, g)) = Len(rows) + 1
  <2>1. NewRow(g) \in Row
    BY BoundsAssumption DEF NewRow, Row, Times, NoTime
  <2>2. QED
    BY <2>1 DEF InsertFinding
<1>6. QED
  BY <1>2, <1>3, <1>4, <1>5

LEMMA UpsertType ==
  ASSUME NEW k, NEW rows \in Seq(Row), NEW n, NEW g \in Nat, NEW ran, NEW found
  PROVE  UpsertFindings(k, rows, n, g, ran, found) \in Seq(Row)
BY RowsUpdates DEF UpsertFindings

LEMMA IdleJobType == IdleJob \in JobType
BY DEF IdleJob, JobType

(* The new rows a key can get, as the three ways SaveReport can treat it. *)
LEMMA UpsertCases ==
  ASSUME NEW k, NEW rows \in Seq(Row), NEW n, NEW g \in Nat, NEW ran, NEW found
  PROVE  \/ HasActive(rows) /\ UpsertFindings(k, rows, n, g, ran, found) = UpdateOpenFinding(rows, g)
         \/ ~HasActive(rows) /\ UpsertFindings(k, rows, n, g, ran, found) = InsertFinding(rows, g)
         \/ UpsertFindings(k, rows, n, g, ran, found) = ResolveMissingFinding(rows, g)
         \/ UpsertFindings(k, rows, n, g, ran, found) = rows
BY DEF UpsertFindings

-----------------------------------------------------------------------------
(* Type correctness. *)

LEMMA SaveReportType ==
  ASSUME TypeOK, NEW r \in Reporters, SaveReport(r)
  PROVE  TypeOK'
<1> DEFINE j == job[r]  n == NodeOf[r]
<1>1. j \in JobType /\ n \in Nodes /\ j.at \in Nat /\ j.ran \in SUBSET Checks
  BY ReportersAssumption DEF TypeOK, JobType
<1>2. findings' \in [Keys -> Seq(Row)]
  BY <1>1, UpsertType DEF SaveReport, TypeOK
<1>3. latest' \in [Nodes -> [at : Times, ran : SUBSET Checks]]
  BY <1>1 DEF SaveReport, TypeOK, LatestOf, Times, NoTime
<1>4. job' \in [Reporters -> JobType]
  BY IdleJobType DEF SaveReport, TypeOK
<1>5. settled' \in SUBSET Keys
  BY DEF SaveReport, TypeOK
<1>6. ranEver' \in [Nodes -> SUBSET Checks]
  BY <1>1 DEF SaveReport, TypeOK
<1>7. QED
  BY <1>2, <1>3, <1>4, <1>5, <1>6 DEF SaveReport, TypeOK

LEMMA StartRunType ==
  ASSUME TypeOK, NEW r \in Reporters, StartRun(r)
  PROVE  TypeOK'
<1>1. PICK sel \in Selections[r] \ {{}} :
        job' = [job EXCEPT ![r] =
                  [IdleJob EXCEPT !.pc = "running", !.at = now, !.todo = sel,
                                  !.prev = latest[NodeOf[r]].ran]]
  BY DEF StartRun
<1>2. sel \in SUBSET Checks /\ NodeOf[r] \in Nodes
  BY ReportersAssumption
<1>3. latest[NodeOf[r]].ran \in SUBSET Checks
  BY <1>2 DEF TypeOK
<1>4. job' \in [Reporters -> JobType]
  BY <1>1, <1>2, <1>3 DEF TypeOK, JobType, IdleJob
<1>5. QED
  BY <1>4 DEF StartRun, TypeOK, dbVars, historyVars

LEMMA SnoozeEntityType ==
  ASSUME TypeOK, NEW e \in Entities, NEW d \in SnoozeDays, SnoozeEntity(e, d)
  PROVE  TypeOK'
<1>1. now + d \in Nat
  BY BoundsAssumption DEF TypeOK
<1>2. findings' \in [Keys -> Seq(Row)]
  BY <1>1, RowsUpdates DEF SnoozeEntity, TypeOK
<1>3. kept' \in [Keys -> Times]
  BY <1>1 DEF SnoozeEntity, TypeOK, Times
<1>4. QED
  BY <1>2, <1>3 DEF SnoozeEntity, TypeOK

(* Every reachable state is well typed. *)
THEOREM TypeCorrect == Spec => []TypeOK
<1>1. Init => TypeOK
  <2> SUFFICES ASSUME Init PROVE TypeOK
    OBVIOUS
  <2>1. << >> \in Seq(Row)
    OBVIOUS
  <2>2. NoReport \in [at : Times, ran : SUBSET Checks]
    BY DEF NoReport, Times
  <2>3. QED
    BY <2>1, <2>2, IdleJobType DEF Init, TypeOK, Times
<1>2. TypeOK /\ [Next]_vars => TypeOK'
  <2> SUFFICES ASSUME TypeOK, [Next]_vars PROVE TypeOK'
    OBVIOUS
  <2>1. ASSUME NEW r \in Reporters, StartRun(r) PROVE TypeOK'
    BY <2>1, StartRunType
  <2>2. ASSUME NEW r \in Reporters, SaveReport(r) PROVE TypeOK'
    BY <2>2, SaveReportType
  <2>3. ASSUME NEW r \in Reporters, AbandonRun(r) PROVE TypeOK'
    BY <2>3, IdleJobType DEF AbandonRun, TypeOK, dbVars, historyVars
  <2>4. ASSUME NEW r \in Reporters, NEW c \in Checks, CheckRan(r, c) PROVE TypeOK'
    <3>1. Sightings(r, c) \in SUBSET Keys
      BY DEF Sightings, TypeOK
    <3>2. job[r] \in JobType
      BY DEF TypeOK
    <3>3. WithResult(job[r], c, Sightings(r, c)) \in JobType
      BY <3>1, <3>2 DEF JobType, WithResult
    <3>4. job' \in [Reporters -> JobType]
      BY <2>4, <3>3 DEF CheckRan, TypeOK
    <3>5. QED
      BY <2>4, <3>4 DEF CheckRan, TypeOK, dbVars, historyVars
  <2>5. ASSUME NEW r \in Reporters, NEW c \in Checks, CheckFailed(r, c) PROVE TypeOK'
    <3>1. job[r] \in JobType
      BY DEF TypeOK
    <3>2. [job[r] EXCEPT !.todo = @ \ {c}] \in JobType
      BY <3>1 DEF JobType
    <3>3. job' \in [Reporters -> JobType]
      BY <2>5, <3>2 DEF CheckFailed, TypeOK
    <3>4. QED
      BY <2>5, <3>3 DEF CheckFailed, TypeOK, dbVars, historyVars
  <2>6. ASSUME NEW e \in Entities, NEW d \in SnoozeDays, SnoozeEntity(e, d) PROVE TypeOK'
    BY <2>6, SnoozeEntityType
  <2>7. ASSUME NEW k \in Keys, WorldChanges(k) PROVE TypeOK'
    <3>1. \A r \in Reporters : job[r] \in JobType
      BY DEF TypeOK
    <3>2. \A r \in Reporters : [job[r] EXCEPT !.stale = @ \cup {k}] \in JobType
      BY <3>1 DEF JobType
    <3>3. job' \in [Reporters -> JobType]
      BY <2>7, <3>1, <3>2 DEF WorldChanges
    <3>4. present' \in SUBSET Keys /\ settled' \in SUBSET Keys
      BY <2>7 DEF WorldChanges, TypeOK
    <3>5. flips' \in Nat /\ UNCHANGED <<now, findings, latest, faults, ranEver, kept>>
      BY <2>7 DEF WorldChanges, TypeOK, dbVars
    <3>6. QED
      BY <3>3, <3>4, <3>5 DEF TypeOK
  <2>8. CASE Tick
    BY <2>8 DEF Tick, TypeOK, dbVars, historyVars
  <2>9. CASE UNCHANGED vars
    BY <2>9 DEF vars, TypeOK
  <2>10. QED
    BY <2>1, <2>2, <2>3, <2>4, <2>5, <2>6, <2>7, <2>8, <2>9 DEF Next
<1>3. QED
  BY <1>1, <1>2, PTL DEF Spec

-----------------------------------------------------------------------------
(* What a step may do to the rows of one key. *)

\* A report is never stamped later than now: it is stamped when its run starts.
ClockOK == \A r \in Reporters : job[r].at <= now

LEMMA ClockCorrect == Spec => []ClockOK
<1>1. Init => ClockOK
  BY DEF Init, ClockOK, IdleJob
<1>2. TypeOK /\ ClockOK /\ [Next]_vars => ClockOK'
  <2> SUFFICES ASSUME TypeOK, ClockOK, [Next]_vars, NEW s \in Reporters
               PROVE  job'[s].at <= now'
    BY DEF ClockOK
  <2> USE DEF ClockOK
  <2>0. job[s].at <= now /\ job[s].at \in Nat /\ now \in Nat /\ job[s] \in JobType /\ job \in [Reporters -> JobType]
    BY DEF TypeOK, JobType
  <2>1. ASSUME NEW r \in Reporters, StartRun(r) PROVE job'[s].at <= now'
    BY <2>0, <2>1 DEF StartRun, IdleJob
  <2>2. ASSUME NEW r \in Reporters, SaveReport(r) PROVE job'[s].at <= now'
    BY <2>0, <2>2 DEF SaveReport, IdleJob
  <2>3. ASSUME NEW r \in Reporters, AbandonRun(r) PROVE job'[s].at <= now'
    BY <2>0, <2>3 DEF AbandonRun, IdleJob
  <2>4. ASSUME NEW r \in Reporters, NEW c \in Checks, CheckRan(r, c) PROVE job'[s].at <= now'
    BY <2>0, <2>4 DEF CheckRan, WithResult, JobType
  <2>5. ASSUME NEW r \in Reporters, NEW c \in Checks, CheckFailed(r, c) PROVE job'[s].at <= now'
    BY <2>0, <2>5 DEF CheckFailed, JobType
  <2>6. ASSUME NEW e \in Entities, NEW d \in SnoozeDays, SnoozeEntity(e, d) PROVE job'[s].at <= now'
    BY <2>0, <2>6 DEF SnoozeEntity
  <2>7. ASSUME NEW k \in Keys, WorldChanges(k) PROVE job'[s].at <= now'
    BY <2>0, <2>7 DEF WorldChanges, JobType
  <2>8. CASE Tick
    BY <2>0, <2>8 DEF Tick
  <2>9. CASE UNCHANGED vars
    BY <2>0, <2>9 DEF vars
  <2>10. QED
    BY <2>1, <2>2, <2>3, <2>4, <2>5, <2>6, <2>7, <2>8, <2>9 DEF Next
<1>3. QED
  BY <1>1, <1>2, TypeCorrect, PTL DEF Spec

\* The only ways the rows of a key ever change.
RowsStep(rows, new) ==
  \/ new = rows
  \/ \E g \in Nat : g <= now /\ HasActive(rows) /\ new = UpdateOpenFinding(rows, g)
  \/ \E g \in Nat : ~HasActive(rows) /\ new = InsertFinding(rows, g)
  \/ \E g \in Nat : new = ResolveMissingFinding(rows, g)
  \/ \E u \in Nat : new = SnoozeFinding(rows, u)

LEMMA NextRows ==
  ASSUME TypeOK, ClockOK, [Next]_vars, NEW k \in Keys
  PROVE  RowsStep(findings[k], findings'[k])
<1> USE DEF RowsStep
<1>0. findings[k] \in Seq(Row)
  BY DEF TypeOK
<1>1. ASSUME NEW r \in Reporters, SaveReport(r) PROVE RowsStep(findings[k], findings'[k])
  <2>1. job[r].at \in Nat /\ job[r].at <= now
    BY DEF TypeOK, JobType, ClockOK
  <2>2. findings'[k] = UpsertFindings(k, findings[k], NodeOf[r], job[r].at, job[r].ran, job[r].found)
    BY <1>1 DEF SaveReport
  <2>3. QED
    BY <1>0, <2>1, <2>2, UpsertCases
<1>2. ASSUME NEW e \in Entities, NEW d \in SnoozeDays, SnoozeEntity(e, d)
      PROVE  RowsStep(findings[k], findings'[k])
  <2>1. now + d \in Nat
    BY BoundsAssumption DEF TypeOK, BoundsAssumption
  <2>2. findings'[k] = SnoozeFinding(findings[k], now + d) \/ findings'[k] = findings[k]
    BY <1>2 DEF SnoozeEntity
  <2>3. QED
    BY <2>1, <2>2
<1>3. CASE UNCHANGED findings
  BY <1>3
<1>4. QED
  BY <1>1, <1>2, <1>3
     DEF Next, StartRun, AbandonRun, CheckRan, CheckFailed, WorldChanges, Tick, vars, dbVars

(* The value of each row after each of them. *)
LEMMA RowsValues ==
  ASSUME NEW rows \in Seq(Row), NEW g \in Nat
  PROVE  /\ \A i \in 1..Len(rows) : UpdateOpenFinding(rows, g)[i] =
              IF Active(rows[i]) THEN RefreshedRow(rows[i], g) ELSE rows[i]
         /\ \A i \in 1..Len(rows) : ResolveMissingFinding(rows, g)[i] =
              IF Active(rows[i]) THEN ResolvedRow(rows[i], g) ELSE rows[i]
         /\ \A i \in 1..Len(rows) : SnoozeFinding(rows, g)[i] =
              IF Active(rows[i]) THEN SnoozedRow(rows[i], g) ELSE rows[i]
         /\ \A i \in 1..Len(rows) : InsertFinding(rows, g)[i] = rows[i]
         /\ InsertFinding(rows, g)[Len(rows) + 1] = NewRow(g)
<1>1. NewRow(g) \in Row
  BY BoundsAssumption DEF BoundsAssumption, NewRow, Row, Times, NoTime
<1>2. QED
  BY <1>1 DEF UpdateOpenFinding, ResolveMissingFinding, SnoozeFinding, InsertFinding

-----------------------------------------------------------------------------
(* One active row per key. *)

\* Only the newest of the rows may be active.
OnlyLastActive(rows) == \A i \in 1..Len(rows) : Active(rows[i]) => i = Len(rows)

LEMMA StepOnlyLastActive ==
  ASSUME NEW rows \in Seq(Row), NEW new, RowsStep(rows, new), OnlyLastActive(rows)
  PROVE  OnlyLastActive(new)
<1>0. \A i \in 1..Len(rows) : rows[i] \in Row
  OBVIOUS
<1>1. CASE new = rows
  BY <1>1
<1>2. ASSUME NEW g \in Nat, new = UpdateOpenFinding(rows, g) PROVE OnlyLastActive(new)
  BY <1>0, <1>2, RowsUpdates, RowsValues DEF OnlyLastActive
<1>3. ASSUME NEW g \in Nat, ~HasActive(rows), new = InsertFinding(rows, g)
      PROVE  OnlyLastActive(new)
  <2>1. Len(new) = Len(rows) + 1 /\ Len(rows) \in Nat
    BY <1>3, RowsUpdates
  <2>2. \A i \in 1..Len(rows) : new[i] = rows[i] /\ ~Active(rows[i])
    BY <1>3, RowsValues DEF HasActive
  <2>3. QED
    BY <2>1, <2>2 DEF OnlyLastActive
<1>4. ASSUME NEW g \in Nat, new = ResolveMissingFinding(rows, g) PROVE OnlyLastActive(new)
  BY <1>0, <1>4, RowsUpdates, RowsValues DEF OnlyLastActive
<1>5. ASSUME NEW u \in Nat, new = SnoozeFinding(rows, u) PROVE OnlyLastActive(new)
  BY <1>0, <1>5, RowsUpdates, RowsValues DEF OnlyLastActive
<1>6. QED
  BY <1>1, <1>2, <1>3, <1>4, <1>5 DEF RowsStep

(* SaveReport and SnoozeEntity, from any number of concurrent writers, never   *)
(* leave two open or snoozed rows for one (node, check_id, entity_key).        *)
THEOREM OneActiveRowHolds == Spec => []OneActiveRow
<1>1. Init => OneActiveRow
  BY DEF Init, OneActiveRow
<1>2. TypeOK /\ ClockOK /\ OneActiveRow /\ [Next]_vars => OneActiveRow'
  <2> SUFFICES ASSUME TypeOK, ClockOK, OneActiveRow, [Next]_vars, NEW k \in Keys
               PROVE  OnlyLastActive(findings'[k])
    BY DEF OneActiveRow, OnlyLastActive
  <2>1. findings[k] \in Seq(Row) /\ OnlyLastActive(findings[k])
    BY DEF TypeOK, OneActiveRow, OnlyLastActive
  <2>2. QED
    BY <2>1, NextRows, StepOnlyLastActive
<1>3. QED
  BY <1>1, <1>2, TypeCorrect, ClockCorrect, PTL DEF Spec

-----------------------------------------------------------------------------
(* Resolved rows and snoozes. *)

LEMMA StepFrozen ==
  ASSUME NEW rows \in Seq(Row), NEW new, RowsStep(rows, new),
         NEW i \in 1..Len(rows), rows[i].status = "resolved"
  PROVE  i \in 1..Len(new) /\ new[i] = rows[i]
<1>0. rows[i] \in Row /\ ~Active(rows[i])
  BY DEF Active
<1>1. ASSUME NEW g \in Nat,
             \/ new = UpdateOpenFinding(rows, g)
             \/ new = ResolveMissingFinding(rows, g)
             \/ new = SnoozeFinding(rows, g)
             \/ new = InsertFinding(rows, g)
      PROVE  i \in 1..Len(new) /\ new[i] = rows[i]
  <2>1. Len(rows) \in Nat /\ Len(new) \in {Len(rows), Len(rows) + 1}
    BY <1>1, RowsUpdates
  <2>2. new[i] = rows[i]
    BY <1>0, <1>1, RowsValues
  <2>3. QED
    BY <2>1, <2>2
<1>2. QED
  BY <1>1 DEF RowsStep

(* No report and no snooze ever rewrites a resolved row. *)
THEOREM ResolvedFrozenHolds == Spec => ResolvedFrozen
<1> DEFINE Frozen == \A k \in Keys : \A i \in 1..Len(findings[k]) :
       findings[k][i].status = "resolved" =>
         /\ i \in 1..Len(findings'[k])
         /\ findings'[k][i] = findings[k][i]
<1>1. TypeOK /\ ClockOK /\ [Next]_vars => Frozen
  <2> SUFFICES ASSUME TypeOK, ClockOK, [Next]_vars, NEW k \in Keys,
                      NEW i \in 1..Len(findings[k]), findings[k][i].status = "resolved"
               PROVE  i \in 1..Len(findings'[k]) /\ findings'[k][i] = findings[k][i]
    OBVIOUS
  <2>1. findings[k] \in Seq(Row)
    BY DEF TypeOK
  <2>2. QED
    BY <2>1, NextRows, StepFrozen
<1>2. TypeOK /\ ClockOK /\ [Next]_vars => [Frozen]_vars
  BY <1>1
<1>3. QED
  BY <1>2, TypeCorrect, ClockCorrect, PTL DEF Spec, ResolvedFrozen

LEMMA StepSnooze ==
  ASSUME now \in Nat, NEW rows \in Seq(Row), NEW new, RowsStep(rows, new),
         NEW i \in 1..Len(rows), rows[i].status = "snoozed", new[i].status = "open"
  PROVE  now >= rows[i].until
<1>0. rows[i] \in Row /\ rows[i].until \in Times /\ Active(rows[i])
  <2>1. rows[i] \in Row
    OBVIOUS
  <2>2. QED
    BY <2>1 DEF Row, Active
<1>1. CASE new = rows
  BY <1>1
<1>2. ASSUME NEW g \in Nat, g <= now, new = UpdateOpenFinding(rows, g)
      PROVE  now >= rows[i].until
  <2>1. new[i] = RefreshedRow(rows[i], g)
    BY <1>0, <1>2, RowsValues
  <2>2. ~(rows[i].until > g)
    BY <2>1 DEF RefreshedRow, StillSnoozed
  <2>3. QED
    BY <1>0, <1>2, <2>2 DEF Times, NoTime
<1>3. ASSUME NEW g \in Nat,
             \/ new = ResolveMissingFinding(rows, g)
             \/ new = SnoozeFinding(rows, g)
             \/ new = InsertFinding(rows, g)
      PROVE  new[i].status # "open"
  <2>1. new[i] = ResolvedRow(rows[i], g) \/ new[i] = SnoozedRow(rows[i], g) \/ new[i] = rows[i]
    BY <1>0, <1>3, RowsValues
  <2>2. QED
    BY <1>0, <2>1 DEF ResolvedRow, SnoozedRow, Row
<1>4. QED
  BY <1>1, <1>2, <1>3 DEF RowsStep

(* A snoozed finding is not reopened before its snooze has run out, even by a  *)
(* report whose run started long before it is saved.                          *)
THEOREM SnoozeHeldHolds == Spec => SnoozeHeld
<1> DEFINE Held == \A k \in Keys : \A i \in 1..Len(findings[k]) :
       findings[k][i].status = "snoozed" /\ findings'[k][i].status = "open"
         => now >= findings[k][i].until
<1>1. TypeOK /\ ClockOK /\ [Next]_vars => Held
  <2> SUFFICES ASSUME TypeOK, ClockOK, [Next]_vars, NEW k \in Keys,
                      NEW i \in 1..Len(findings[k]),
                      findings[k][i].status = "snoozed", findings'[k][i].status = "open"
               PROVE  now >= findings[k][i].until
    OBVIOUS
  <2>1. findings[k] \in Seq(Row) /\ now \in Nat
    BY DEF TypeOK
  <2>2. QED
    BY <2>1, NextRows, StepSnooze
<1>2. TypeOK /\ ClockOK /\ [Next]_vars => [Held]_vars
  BY <1>1
<1>3. QED
  BY <1>2, TypeCorrect, ClockCorrect, PTL DEF Spec, SnoozeHeld

-----------------------------------------------------------------------------
(* What the rows say about the world.  ResolveMeansGone holds for any reporters; SettledAccurate speaks of the
   keys a single reporter covers (the daemon's, without `healarr check run` beside it). *)

\* The keys a report of r with Ran = C speaks about.
OwnKeys(r, C) == {k \in Keys : NodeOfKey(k) = NodeOf[r] /\ CheckOfKey(k) \in C}

\* A run knows the truth about every key its finished checks cover, except
\* about those that changed after the check looked.
Sees(r, j, P) ==
  /\ j.found \subseteq OwnKeys(r, j.ran)
  /\ j.stale \subseteq OwnKeys(r, j.ran)
  /\ \A k \in OwnKeys(r, j.ran) \ j.stale : k \in j.found <=> k \in P

JobSees == \A r \in Reporters : Sees(r, job[r], present)

LEMMA IdleSees ==
  ASSUME NEW r, NEW P
  PROVE  Sees(r, IdleJob, P)
BY DEF Sees, IdleJob, OwnKeys

LEMMA JobSeesStep ==
  ASSUME TypeOK, JobSees, [Next]_vars
  PROVE  JobSees'
<1> SUFFICES ASSUME NEW s \in Reporters PROVE Sees(s, job'[s], present')
  BY DEF JobSees
<1>0. /\ job \in [Reporters -> JobType] /\ job[s] \in JobType
      /\ Sees(s, job[s], present) /\ present \in SUBSET Keys
  BY DEF TypeOK, JobSees
<1>1. ASSUME NEW r \in Reporters, StartRun(r) PROVE Sees(s, job'[s], present')
  <2>1. PICK j : /\ j.found = {} /\ j.stale = {} /\ j.ran = {}
                 /\ job' = [job EXCEPT ![r] = j]
    BY <1>1 DEF StartRun, IdleJob
  <2>2. Sees(s, j, present)
    BY <2>1 DEF Sees, OwnKeys
  <2>3. present' = present
    BY <1>1 DEF StartRun
  <2>4. QED
    BY <1>0, <2>1, <2>2, <2>3
<1>2. ASSUME NEW r \in Reporters, SaveReport(r) \/ AbandonRun(r) PROVE Sees(s, job'[s], present')
  <2>1. job' = [job EXCEPT ![r] = IdleJob] /\ present' = present
    BY <1>2 DEF SaveReport, AbandonRun
  <2>2. QED
    BY <1>0, <2>1, IdleSees
<1>3. ASSUME NEW r \in Reporters, NEW c \in Checks, CheckRan(r, c) PROVE Sees(s, job'[s], present')
  <2>1. job' = [job EXCEPT ![r] = WithResult(job[r], c, Sightings(r, c))] /\ present' = present
    BY <1>3 DEF CheckRan
  <2>2. CASE s # r
    BY <1>0, <2>1, <2>2
  <2>3. CASE s = r
    <3> DEFINE j == job[r]  jj == WithResult(job[r], c, Sightings(r, c))
    <3>1. /\ jj.found = j.found \cup Sightings(r, c) /\ jj.ran = j.ran \cup {c}
          /\ jj.stale = j.stale
      BY <1>0, <2>3 DEF WithResult, JobType
    <3>2. Sees(r, j, present)
      BY <1>0, <2>3
    <3>3. Sightings(r, c) = OwnKeys(r, {c}) \cap present
      BY <1>0 DEF Sightings, OwnKeys
    <3>4. OwnKeys(r, jj.ran) = OwnKeys(r, j.ran) \cup OwnKeys(r, {c})
      BY <3>1 DEF OwnKeys
    <3> HIDE DEF j, jj
    <3>5. Sees(r, jj, present)
      BY <3>1, <3>2, <3>3, <3>4 DEF Sees
    <3>6. QED
      BY <1>0, <2>1, <2>3, <3>5 DEF jj
  <2>4. QED
    BY <2>2, <2>3
<1>4. ASSUME NEW r \in Reporters, NEW c \in Checks, CheckFailed(r, c) PROVE Sees(s, job'[s], present')
  <2>1. /\ job'[s].found = job[s].found /\ job'[s].ran = job[s].ran
        /\ job'[s].stale = job[s].stale /\ present' = present
    BY <1>0, <1>4 DEF CheckFailed, JobType
  <2>2. QED
    BY <1>0, <2>1 DEF Sees
<1>5. ASSUME NEW k \in Keys, WorldChanges(k) PROVE Sees(s, job'[s], present')
  <2>1. \A q \in Keys : q # k => (q \in present' <=> q \in present)
    BY <1>5 DEF WorldChanges
  <2>2. CASE k \in OwnKeys(s, job[s].ran)
    <3>1. /\ job'[s].stale = job[s].stale \cup {k} /\ job'[s].found = job[s].found
          /\ job'[s].ran = job[s].ran
      BY <1>0, <1>5, <2>2 DEF WorldChanges, OwnKeys, JobType
    <3>2. OwnKeys(s, job[s].ran) \subseteq Keys
      BY DEF OwnKeys
    <3>3. QED
      BY <1>0, <2>1, <2>2, <3>1, <3>2 DEF Sees
  <2>3. CASE k \notin OwnKeys(s, job[s].ran)
    <3>1. job'[s] = job[s]
      BY <1>0, <1>5, <2>3 DEF WorldChanges, OwnKeys
    <3>2. OwnKeys(s, job[s].ran) \subseteq Keys
      BY DEF OwnKeys
    <3>3. QED
      BY <1>0, <2>1, <2>3, <3>1, <3>2 DEF Sees
  <2>4. QED
    BY <2>2, <2>3
<1>6. CASE UNCHANGED <<job, present>>
  BY <1>0, <1>6
<1>7. QED
  BY <1>1, <1>2, <1>3, <1>4, <1>5, <1>6 DEF Next, SnoozeEntity, Tick, vars

LEMMA JobSeesHolds == Spec => []JobSees
<1>1. Init => JobSees
  BY IdleSees DEF Init, JobSees
<1>2. TypeOK /\ JobSees /\ [Next]_vars => JobSees'
  BY JobSeesStep
<1>3. QED
  BY <1>1, <1>2, TypeCorrect, PTL DEF Spec

-----------------------------------------------------------------------------
(* What saving a report does to the activity of one key. *)

LEMMA ActiveAfter ==
  ASSUME NEW rows \in Seq(Row), NEW g \in Nat
  PROVE  /\ HasActive(rows) => HasActive(UpdateOpenFinding(rows, g))
         /\ HasActive(InsertFinding(rows, g))
         /\ ~HasActive(ResolveMissingFinding(rows, g))
         /\ HasActive(SnoozeFinding(rows, g)) <=> HasActive(rows)
<1>0. Len(rows) \in Nat /\ \A i \in 1..Len(rows) : rows[i] \in Row
  OBVIOUS
<1>1. HasActive(rows) => HasActive(UpdateOpenFinding(rows, g))
  <2> SUFFICES ASSUME NEW i \in 1..Len(rows), Active(rows[i])
               PROVE  HasActive(UpdateOpenFinding(rows, g))
    BY DEF HasActive
  <2>1. UpdateOpenFinding(rows, g)[i] = RefreshedRow(rows[i], g)
    BY RowsValues
  <2>2. Active(UpdateOpenFinding(rows, g)[i])
    BY <1>0, <2>1, RowUpdates
  <2>3. QED
    BY <2>2, RowsUpdates DEF HasActive
<1>2. HasActive(InsertFinding(rows, g))
  <2>1. Active(InsertFinding(rows, g)[Len(rows) + 1])
    <3>1. InsertFinding(rows, g)[Len(rows) + 1] = NewRow(g)
      BY RowsValues
    <3>2. QED
      BY <3>1 DEF NewRow, Active
  <2>2. QED
    BY <1>0, <2>1, RowsUpdates DEF HasActive
<1>3. ~HasActive(ResolveMissingFinding(rows, g))
  <2>1. ASSUME NEW i \in 1..Len(rows) PROVE ~Active(ResolveMissingFinding(rows, g)[i])
    <3>1. rows[i] \in Row
      BY <1>0
    <3>2. ResolveMissingFinding(rows, g)[i] =
            IF Active(rows[i]) THEN ResolvedRow(rows[i], g) ELSE rows[i]
      BY RowsValues
    <3>3. QED
      BY <3>1, <3>2, RowUpdates
  <2>2. QED
    BY <2>1, RowsUpdates DEF HasActive
<1>4. HasActive(SnoozeFinding(rows, g)) <=> HasActive(rows)
  <2>1. ASSUME NEW i \in 1..Len(rows)
        PROVE  Active(SnoozeFinding(rows, g)[i]) <=> Active(rows[i])
    <3>1. rows[i] \in Row
      BY <1>0
    <3>2. SnoozeFinding(rows, g)[i] =
            IF Active(rows[i]) THEN SnoozedRow(rows[i], g) ELSE rows[i]
      BY RowsValues
    <3>3. QED
      BY <3>1, <3>2, RowUpdates
  <2>2. QED
    BY <2>1, RowsUpdates DEF HasActive
<1>5. QED
  BY <1>1, <1>2, <1>3, <1>4

LEMMA SavedKey ==
  ASSUME TypeOK, JobSees, NEW r \in Reporters, SaveReport(r), NEW k \in Keys
  PROVE  /\ k \notin OwnKeys(r, job[r].ran) => findings'[k] = findings[k]
         /\ k \in OwnKeys(r, job[r].ran) => (HasActive(findings'[k]) <=> k \in job[r].found)
<1> DEFINE j == job[r]
<1>1. findings[k] \in Seq(Row) /\ j.at \in Nat
  BY DEF TypeOK, JobType
<1>2. findings'[k] = UpsertFindings(k, findings[k], NodeOf[r], j.at, j.ran, j.found)
  BY DEF SaveReport
<1>3. k \in j.found => k \in OwnKeys(r, j.ran)
  BY DEF JobSees, Sees
<1>4. k \in OwnKeys(r, j.ran) <=> NodeOfKey(k) = NodeOf[r] /\ CheckOfKey(k) \in j.ran
  BY DEF OwnKeys
<1>5. ASSUME k \notin OwnKeys(r, j.ran) PROVE findings'[k] = findings[k]
  BY <1>2, <1>3, <1>4, <1>5 DEF UpsertFindings
<1>6. ASSUME k \in j.found PROVE HasActive(findings'[k])
  <2>1. \/ HasActive(findings[k]) /\ findings'[k] = UpdateOpenFinding(findings[k], j.at)
        \/ findings'[k] = InsertFinding(findings[k], j.at)
    BY <1>2, <1>6 DEF UpsertFindings
  <2>2. QED
    BY <1>1, <2>1, ActiveAfter
<1>7. ASSUME k \in OwnKeys(r, j.ran), k \notin j.found PROVE ~HasActive(findings'[k])
  <2>1. findings'[k] = ResolveMissingFinding(findings[k], j.at)
    BY <1>2, <1>4, <1>7 DEF UpsertFindings
  <2>2. QED
    BY <1>1, <2>1, ActiveAfter
<1>8. QED
  BY <1>5, <1>6, <1>7

LEMMA OnlySavesChangeActivity ==
  ASSUME TypeOK, [Next]_vars, NEW k \in Keys,
         ~(HasActive(findings'[k]) <=> HasActive(findings[k]))
  PROVE  \E r \in Reporters : SaveReport(r)
<1>1. ASSUME NEW e \in Entities, NEW d \in SnoozeDays, SnoozeEntity(e, d)
      PROVE  HasActive(findings'[k]) <=> HasActive(findings[k])
  <2>1. now + d \in Nat /\ findings[k] \in Seq(Row)
    BY BoundsAssumption DEF TypeOK, BoundsAssumption
  <2>2. findings'[k] = SnoozeFinding(findings[k], now + d) \/ findings'[k] = findings[k]
    BY <1>1 DEF SnoozeEntity
  <2>3. QED
    BY <2>1, <2>2, ActiveAfter
<1>2. QED
  BY <1>1
     DEF Next, StartRun, AbandonRun, CheckRan, CheckFailed, WorldChanges, Tick, vars, dbVars

(* A finding disappears from the open list only if its problem is gone or      *)
(* changed after the resolving run looked, whatever checks fail, whatever      *)
(* runs overlap.                                                              *)
THEOREM ResolveMeansGoneHolds == Spec => ResolveMeansGone
<1> DEFINE Gone == \A k \in Keys :
       HasActive(findings[k]) /\ ~HasActive(findings'[k]) =>
         \/ k \notin present
         \/ \E r \in Reporters : job'[r] # job[r] /\ k \in job[r].stale
<1>1. TypeOK /\ JobSees /\ [Next]_vars => Gone
  <2> SUFFICES ASSUME TypeOK, JobSees, [Next]_vars, NEW k \in Keys,
                      HasActive(findings[k]), ~HasActive(findings'[k]), k \in present
               PROVE  \E r \in Reporters : job'[r] # job[r] /\ k \in job[r].stale
    OBVIOUS
  <2>1. PICK r \in Reporters : SaveReport(r)
    BY OnlySavesChangeActivity
  <2>2. k \in OwnKeys(r, job[r].ran) /\ k \notin job[r].found
    BY <2>1, SavedKey
  <2>3. k \in job[r].stale
    BY <2>2 DEF JobSees, Sees
  <2>4. job[r].pc = "running" /\ job'[r].pc = "idle"
    BY <2>1 DEF SaveReport, IdleJob, TypeOK
  <2>5. job'[r] # job[r]
    BY <2>4
  <2>6. QED
    BY <2>3, <2>5
<1>2. TypeOK /\ JobSees /\ [Next]_vars => [Gone]_vars
  BY <1>1
<1>3. QED
  BY <1>2, TypeCorrect, JobSeesHolds, PTL DEF Spec, ResolveMeansGone

(* Resolving rows, and putting them to sleep, is no sighting. *)
LEMMA ResolveIsNoSighting ==
  ASSUME NEW rows \in Seq(Row), NEW g \in Nat
  PROVE  /\ ~Sighted(rows, rows)
         /\ ~Sighted(rows, ResolveMissingFinding(rows, g))
         /\ ~Sighted(rows, SnoozeFinding(rows, g))
<1>1. ~Sighted(rows, rows)
  BY DEF Sighted
<1>2. ASSUME NEW i \in 1..Len(rows)
      PROVE  /\ ResolveMissingFinding(rows, g)[i].lastSeen = rows[i].lastSeen
             /\ ResolveMissingFinding(rows, g)[i].seen = rows[i].seen
             /\ ResolveMissingFinding(rows, g)[i].status \in {rows[i].status, "resolved"}
             /\ SnoozeFinding(rows, g)[i].lastSeen = rows[i].lastSeen
             /\ SnoozeFinding(rows, g)[i].seen = rows[i].seen
             /\ SnoozeFinding(rows, g)[i].status \in {rows[i].status, "snoozed"}
  <2>1. rows[i] \in Row
    OBVIOUS
  <2>2. /\ ResolveMissingFinding(rows, g)[i] =
             IF Active(rows[i]) THEN ResolvedRow(rows[i], g) ELSE rows[i]
        /\ SnoozeFinding(rows, g)[i] =
             IF Active(rows[i]) THEN SnoozedRow(rows[i], g) ELSE rows[i]
    BY RowsValues
  <2>3. QED
    BY <2>1, <2>2 DEF ResolvedRow, SnoozedRow, Row
<1>3. QED
  BY <1>1, <1>2, RowsUpdates DEF Sighted

(* Only a saved report puts a sighting on record, and only of what it found.  *)
LEMMA OnlySavesSight ==
  ASSUME TypeOK, JobSees, [Next]_vars, NEW k \in Keys, Sighted(findings[k], findings'[k])
  PROVE  \E r \in Reporters : /\ SaveReport(r) /\ k \in job[r].found
                              /\ k \in OwnKeys(r, job[r].ran)
<1>0. findings[k] \in Seq(Row)
  BY DEF TypeOK
<1>1. ASSUME NEW e \in Entities, NEW d \in SnoozeDays, SnoozeEntity(e, d)
      PROVE  ~Sighted(findings[k], findings'[k])
  <2>1. now + d \in Nat
    BY BoundsAssumption DEF TypeOK
  <2>2. findings'[k] = SnoozeFinding(findings[k], now + d) \/ findings'[k] = findings[k]
    BY <1>1 DEF SnoozeEntity
  <2>3. QED
    BY <1>0, <2>1, <2>2, ResolveIsNoSighting
<1>2. ASSUME NEW r \in Reporters, SaveReport(r), k \notin job[r].found
      PROVE  ~Sighted(findings[k], findings'[k])
  <2>1. job[r].at \in Nat
    BY DEF TypeOK, JobType
  <2>2. \/ findings'[k] = ResolveMissingFinding(findings[k], job[r].at)
        \/ findings'[k] = findings[k]
    BY <1>2 DEF SaveReport, UpsertFindings
  <2>3. QED
    BY <1>0, <2>1, <2>2, ResolveIsNoSighting
<1>3. ASSUME NEW r \in Reporters, SaveReport(r)
      PROVE  k \in job[r].found /\ k \in OwnKeys(r, job[r].ran)
  BY <1>2, <1>3 DEF JobSees, Sees
<1>4. findings'[k] # findings[k]
  BY <1>0, ResolveIsNoSighting
<1>5. QED
  BY <1>1, <1>3, <1>4
     DEF Next, StartRun, AbandonRun, CheckRan, CheckFailed, WorldChanges, Tick, vars, dbVars

(* A row is inserted, refreshed or reopened only if its problem exists, or    *)
(* changed after the run that reports it looked.                              *)
THEOREM OpenMeansSeenHolds == Spec => OpenMeansSeen
<1> DEFINE Seen == \A k \in Keys : Sighted(findings[k], findings'[k]) =>
       \/ k \in present
       \/ \E r \in Reporters : job'[r] # job[r] /\ k \in job[r].stale
<1>1. TypeOK /\ JobSees /\ [Next]_vars => Seen
  <2> SUFFICES ASSUME TypeOK, JobSees, [Next]_vars, NEW k \in Keys,
                      Sighted(findings[k], findings'[k]), k \notin present
               PROVE  \E r \in Reporters : job'[r] # job[r] /\ k \in job[r].stale
    OBVIOUS
  <2>1. PICK r \in Reporters : /\ SaveReport(r) /\ k \in job[r].found
                               /\ k \in OwnKeys(r, job[r].ran)
    BY OnlySavesSight
  <2>2. k \in job[r].stale
    BY <2>1 DEF JobSees, Sees
  <2>3. job[r].pc = "running" /\ job'[r].pc = "idle"
    BY <2>1 DEF SaveReport, IdleJob, TypeOK
  <2>4. job'[r] # job[r]
    BY <2>3
  <2>5. QED
    BY <2>2, <2>4
<1>2. TypeOK /\ JobSees /\ [Next]_vars => [Seen]_vars
  BY <1>1
<1>3. QED
  BY <1>2, TypeCorrect, JobSeesHolds, PTL DEF Spec, OpenMeansSeen

-----------------------------------------------------------------------------
(* Keys that a single reporter covers. *)

\* A run only ever handles the checks it selected when it started.
JobSelected ==
  \A r \in Reporters : \E sel \in Selections[r] \cup {{}} :
    job[r].ran \subseteq sel /\ job[r].todo \subseteq sel

LEMMA JobSelectedHolds == Spec => []JobSelected
<1>1. Init => JobSelected
  <2> SUFFICES ASSUME Init, NEW r \in Reporters
               PROVE  job[r].ran \subseteq {} /\ job[r].todo \subseteq {}
    BY DEF JobSelected
  <2>1. QED
    BY DEF Init, IdleJob
<1>2. TypeOK /\ JobSelected /\ [Next]_vars => JobSelected'
  <2> SUFFICES ASSUME TypeOK, JobSelected, [Next]_vars, NEW s \in Reporters
               PROVE  \E sel \in Selections[s] \cup {{}} :
                        job'[s].ran \subseteq sel /\ job'[s].todo \subseteq sel
    BY DEF JobSelected
  <2>0. job \in [Reporters -> JobType] /\ job[s] \in JobType
    BY DEF TypeOK
  <2>1. PICK sel \in Selections[s] \cup {{}} :
          job[s].ran \subseteq sel /\ job[s].todo \subseteq sel
    BY DEF JobSelected
  <2>2. ASSUME NEW r \in Reporters, StartRun(r)
        PROVE  \E x \in Selections[s] \cup {{}} : job'[s].ran \subseteq x /\ job'[s].todo \subseteq x
    <3>1. PICK j : /\ j.ran = {} /\ j.todo \in Selections[r]
                   /\ job' = [job EXCEPT ![r] = j]
      BY <2>2 DEF StartRun, IdleJob
    <3>2. CASE r = s
      BY <2>0, <3>1, <3>2
    <3>3. CASE r # s
      BY <2>0, <2>1, <3>1, <3>3
    <3>4. QED
      BY <3>2, <3>3
  <2>3. ASSUME NEW r \in Reporters, SaveReport(r) \/ AbandonRun(r)
        PROVE  \E x \in Selections[s] \cup {{}} : job'[s].ran \subseteq x /\ job'[s].todo \subseteq x
    <3>1. job' = [job EXCEPT ![r] = IdleJob]
      BY <2>3 DEF SaveReport, AbandonRun
    <3>2. IdleJob.ran = {} /\ IdleJob.todo = {}
      BY DEF IdleJob
    <3>3. CASE r = s
      BY <2>0, <3>1, <3>2, <3>3
    <3>4. CASE r # s
      BY <2>0, <2>1, <3>1, <3>4
    <3>5. QED
      BY <3>3, <3>4
  <2>4. ASSUME NEW r \in Reporters, NEW c \in Checks, CheckRan(r, c) \/ CheckFailed(r, c)
        PROVE  job'[s].ran \subseteq sel /\ job'[s].todo \subseteq sel
    <3>1. /\ job'[s].todo \subseteq job[s].todo
          /\ job'[s].ran \subseteq job[s].ran \cup job[s].todo
      <4>1. CASE CheckRan(r, c)
        <5>1. job' = [job EXCEPT ![r] = WithResult(job[r], c, Sightings(r, c))] /\ c \in job[r].todo
          BY <4>1 DEF CheckRan
        <5>2. CASE r = s
          <6>1. /\ WithResult(job[s], c, Sightings(r, c)).todo = job[s].todo \ {c}
                /\ WithResult(job[s], c, Sightings(r, c)).ran = job[s].ran \cup {c}
            BY <2>0 DEF WithResult, JobType
          <6>2. QED
            BY <2>0, <5>1, <5>2, <6>1
        <5>3. CASE r # s
          BY <2>0, <5>1, <5>3
        <5>4. QED
          BY <5>2, <5>3
      <4>2. CASE CheckFailed(r, c)
        BY <2>0, <4>2 DEF CheckFailed, JobType
      <4>3. QED
        BY <2>4, <4>1, <4>2
    <3>2. QED
      BY <2>1, <3>1
  <2>5. ASSUME NEW k \in Keys, WorldChanges(k)
        PROVE  job'[s].ran \subseteq sel /\ job'[s].todo \subseteq sel
    BY <2>0, <2>1, <2>5 DEF WorldChanges, JobType
  <2>6. CASE UNCHANGED job
    BY <2>1, <2>6
  <2>7. QED
    BY <2>1, <2>2, <2>3, <2>4, <2>5, <2>6 DEF Next, SnoozeEntity, Tick, vars
<1>3. QED
  BY <1>1, <1>2, TypeCorrect, PTL DEF Spec

LEMMA RunCovers ==
  ASSUME JobSelected, NEW r \in Reporters, NEW k \in OwnKeys(r, job[r].ran)
  PROVE  Covers(r, k)
<1>1. PICK a \in Selections[r] \cup {{}} : job[r].ran \subseteq a
  BY DEF JobSelected
<1>2. CheckOfKey(k) \in a /\ NodeOf[r] = NodeOfKey(k)
  BY <1>1 DEF OwnKeys
<1>3. a \in Selections[r]
  BY <1>2
<1>4. QED
  BY <1>2, <1>3 DEF Covers

LEMMA NoSharedKey ==
  ASSUME JobSelected, NEW r \in Reporters, NEW s \in Reporters, r # s,
         NEW k \in OwnKeys(r, job[r].ran), Exclusive(k)
  PROVE  k \notin OwnKeys(s, job[s].ran)
BY RunCovers DEF Exclusive

\* No run in flight holds an outdated view of a settled key that is exclusive.
SettledFresh ==
  \A k \in settled : Exclusive(k) => \A r \in Reporters : k \notin job[r].stale

LEMMA SettledFreshStep ==
  ASSUME TypeOK, JobSees, JobSelected, SettledFresh, [Next]_vars
  PROVE  SettledFresh'
<1> SUFFICES ASSUME NEW k \in settled', Exclusive(k), NEW s \in Reporters
             PROVE  k \notin job'[s].stale
  BY DEF SettledFresh, Exclusive, Covers
<1>0. job \in [Reporters -> JobType] /\ job[s] \in JobType
  BY DEF TypeOK
<1>1. ASSUME NEW r \in Reporters, SaveReport(r) PROVE k \notin job'[s].stale
  <2>1. job' = [job EXCEPT ![r] = IdleJob] /\ IdleJob.stale = {}
    BY <1>1 DEF SaveReport, IdleJob
  <2>2. CASE s = r
    BY <1>0, <2>1, <2>2
  <2>3. CASE s # r /\ k \in settled
    BY <1>0, <2>1, <2>3 DEF SettledFresh
  <2>4. CASE s # r /\ k \notin settled
    <3>1. k \in OwnKeys(r, job[r].ran)
      BY <1>1, <2>4 DEF SaveReport, OwnKeys
    <3>2. k \notin OwnKeys(s, job[s].ran)
      BY <2>4, <3>1, NoSharedKey
    <3>3. k \notin job[s].stale
      BY <3>2 DEF JobSees, Sees
    <3>4. QED
      BY <1>0, <2>1, <2>4, <3>3
  <2>5. QED
    BY <2>2, <2>3, <2>4
<1>2. ASSUME NEW r \in Reporters, StartRun(r) \/ AbandonRun(r) PROVE k \notin job'[s].stale
  <2>1. PICK j : j.stale = {} /\ job' = [job EXCEPT ![r] = j] /\ settled' = settled
    BY <1>2 DEF StartRun, AbandonRun, IdleJob, historyVars
  <2>2. QED
    BY <1>0, <2>1 DEF SettledFresh
<1>3. ASSUME NEW r \in Reporters, NEW c \in Checks, CheckRan(r, c) \/ CheckFailed(r, c)
      PROVE  k \notin job'[s].stale
  <2>1. job'[s].stale = job[s].stale /\ settled' = settled
    <3>1. CASE CheckRan(r, c)
      <4>1. /\ job' = [job EXCEPT ![r] = WithResult(job[r], c, Sightings(r, c))]
            /\ settled' = settled
        BY <3>1 DEF CheckRan, historyVars
      <4>2. WithResult(job[s], c, Sightings(r, c)).stale = job[s].stale
        BY <1>0 DEF WithResult, JobType
      <4>3. QED
        BY <1>0, <4>1, <4>2
    <3>2. CASE CheckFailed(r, c)
      BY <1>0, <3>2 DEF CheckFailed, JobType, historyVars
    <3>3. QED
      BY <1>3, <3>1, <3>2
  <2>2. QED
    BY <2>1 DEF SettledFresh
<1>4. ASSUME NEW q \in Keys, WorldChanges(q) PROVE k \notin job'[s].stale
  <2>1. k \in settled /\ k # q
    BY <1>4 DEF WorldChanges
  <2>2. job'[s].stale \subseteq job[s].stale \cup {q}
    BY <1>0, <1>4 DEF WorldChanges, JobType
  <2>3. QED
    BY <2>1, <2>2 DEF SettledFresh
<1>5. CASE UNCHANGED <<job, settled>>
  BY <1>5 DEF SettledFresh
<1>6. QED
  BY <1>1, <1>2, <1>3, <1>4, <1>5 DEF Next, SnoozeEntity, Tick, vars, historyVars

LEMMA SettledAccurateStep ==
  ASSUME TypeOK, JobSees, SettledFresh, SettledAccurate, [Next]_vars
  PROVE  SettledAccurate'
<1> SUFFICES ASSUME NEW k \in settled', Exclusive(k)
             PROVE  HasActive(findings'[k]) <=> k \in present'
  BY DEF SettledAccurate, Exclusive, Covers
<1>1. ASSUME NEW r \in Reporters, SaveReport(r) PROVE HasActive(findings'[k]) <=> k \in present'
  <2>0. k \in Keys /\ present' = present
    BY <1>1 DEF SaveReport, TypeOK
  <2>1. CASE k \in OwnKeys(r, job[r].ran)
    <3>1. k \notin job[r].stale
      BY <1>1 DEF SaveReport, SettledFresh
    <3>2. HasActive(findings'[k]) <=> k \in job[r].found
      BY <1>1, <2>0, <2>1, SavedKey
    <3>3. k \in job[r].found <=> k \in present
      BY <2>1, <3>1 DEF JobSees, Sees
    <3>4. QED
      BY <2>0, <3>2, <3>3
  <2>2. CASE k \notin OwnKeys(r, job[r].ran)
    <3>1. k \in settled
      BY <1>1, <2>0, <2>2 DEF SaveReport, OwnKeys
    <3>2. findings'[k] = findings[k]
      BY <1>1, <2>0, <2>2, SavedKey
    <3>3. QED
      BY <2>0, <3>1, <3>2 DEF SettledAccurate
  <2>3. QED
    BY <2>1, <2>2
<1>2. ASSUME ~\E r \in Reporters : SaveReport(r)
      PROVE  HasActive(findings'[k]) <=> k \in present'
  <2>1. k \in settled /\ (k \in present' <=> k \in present)
    BY <1>2 DEF Next, StartRun, AbandonRun, CheckRan, CheckFailed, SnoozeEntity, WorldChanges,
                Tick, vars, historyVars
  <2>2. k \in Keys
    BY <2>1 DEF TypeOK
  <2>3. HasActive(findings'[k]) <=> HasActive(findings[k])
    BY <1>2, <2>2, OnlySavesChangeActivity
  <2>4. QED
    BY <2>1, <2>3 DEF SettledAccurate
<1>3. QED
  BY <1>1, <1>2

(* The open findings are true of every problem that a single reporter covers   *)
(* and some saved report has looked at since it last changed.                 *)
THEOREM SettledAccurateHolds == Spec => []SettledAccurate
<1> DEFINE Inv == SettledFresh /\ SettledAccurate
<1>1. Init => Inv
  BY DEF Init, SettledFresh, SettledAccurate
<1>2. TypeOK /\ JobSees /\ JobSelected /\ Inv /\ [Next]_vars => Inv'
  BY SettledFreshStep, SettledAccurateStep
<1>3. Inv => SettledAccurate
  OBVIOUS
<1> HIDE DEF Inv
<1>4. QED
  BY <1>1, <1>2, <1>3, TypeCorrect, JobSeesHolds, JobSelectedHolds, PTL DEF Spec

-----------------------------------------------------------------------------
(* What readers see of the table is FindingLifecycle. *)

\* The mapping of Lifecycle, of the rows of one key.
StatusOf(rows) == IF rows = << >> THEN "none" ELSE rows[Len(rows)].status
WakesOf(rows) == IF rows = << >> THEN NoTime ELSE rows[Len(rows)].until

LEMMA NewestRow ==
  ASSUME NEW rows \in Seq(Row)
  PROVE  /\ Len(rows) \in Nat /\ (rows = << >> <=> Len(rows) = 0)
         /\ rows # << >> => rows[Len(rows)] \in Row
OBVIOUS

(* A key is running exactly if it has an active row, since only the newest     *)
(* row may be active.                                                         *)
LEMMA RunningIsActive ==
  ASSUME NEW rows \in Seq(Row), OnlyLastActive(rows)
  PROVE  /\ HasActive(rows) <=> StatusOf(rows) \in {"open", "snoozed"}
         /\ HasActive(rows) => rows # << >> /\ Active(rows[Len(rows)])
         /\ HasActive(rows) \/ StatusOf(rows) \in {"none", "resolved"}
<1>1. HasActive(rows) => rows # << >> /\ Active(rows[Len(rows)])
  BY DEF HasActive, OnlyLastActive
<1>2. rows # << >> /\ Active(rows[Len(rows)]) => HasActive(rows)
  BY NewestRow DEF HasActive
<1>3. rows # << >> => rows[Len(rows)].status \in {"open", "snoozed", "resolved"}
  BY NewestRow DEF Row
<1>4. QED
  BY <1>1, <1>2, <1>3 DEF StatusOf, Active

\* An open row carries no snooze any more: a refresh that keeps it open does
\* not change when it wakes.
OpenIsAwake(rows) == \A i \in 1..Len(rows) : rows[i].status = "open" => rows[i].until = NoTime

Awake == \A k \in Keys : OpenIsAwake(findings[k])

LEMMA StepAwake ==
  ASSUME NEW rows \in Seq(Row), NEW new, RowsStep(rows, new), OpenIsAwake(rows)
  PROVE  OpenIsAwake(new)
<1>0. Len(rows) \in Nat /\ \A i \in 1..Len(rows) : rows[i] \in Row
  OBVIOUS
<1>1. ASSUME NEW g \in Nat, new = UpdateOpenFinding(rows, g) PROVE OpenIsAwake(new)
  <2>1. \A i \in 1..Len(rows) :
          RefreshedRow(rows[i], g).status = "open" => RefreshedRow(rows[i], g).until = NoTime
    BY DEF RefreshedRow
  <2>2. Len(new) = Len(rows)
    BY <1>1, RowsUpdates
  <2>3. \A i \in 1..Len(rows) : new[i] = IF Active(rows[i]) THEN RefreshedRow(rows[i], g) ELSE rows[i]
    BY <1>1, RowsValues
  <2>4. QED
    BY <2>1, <2>2, <2>3 DEF OpenIsAwake, Active
<1>2. ASSUME NEW g \in Nat, new = InsertFinding(rows, g) PROVE OpenIsAwake(new)
  <2>1. NewRow(g).until = NoTime
    BY DEF NewRow
  <2>2. Len(new) = Len(rows) + 1
    BY <1>2, RowsUpdates
  <2>3. \A i \in 1..Len(rows) : new[i] = rows[i]
    BY <1>2, RowsValues
  <2>4. new[Len(rows) + 1].until = NoTime
    BY <1>2, <2>1, RowsValues
  <2>5. QED
    BY <1>0, <2>2, <2>3, <2>4 DEF OpenIsAwake
<1>3. ASSUME NEW g \in Nat, new = ResolveMissingFinding(rows, g) PROVE OpenIsAwake(new)
  <2>1. \A i \in 1..Len(rows) : ResolvedRow(rows[i], g).status # "open"
    BY <1>0 DEF ResolvedRow, Row
  <2>2. Len(new) = Len(rows)
    BY <1>3, RowsUpdates
  <2>3. \A i \in 1..Len(rows) : new[i] = IF Active(rows[i]) THEN ResolvedRow(rows[i], g) ELSE rows[i]
    BY <1>3, RowsValues
  <2>4. QED
    BY <2>1, <2>2, <2>3 DEF OpenIsAwake, Active
<1>4. ASSUME NEW u \in Nat, new = SnoozeFinding(rows, u) PROVE OpenIsAwake(new)
  <2>1. \A i \in 1..Len(rows) : SnoozedRow(rows[i], u).status # "open"
    BY <1>0 DEF SnoozedRow, Row
  <2>2. Len(new) = Len(rows)
    BY <1>4, RowsUpdates
  <2>3. \A i \in 1..Len(rows) : new[i] = IF Active(rows[i]) THEN SnoozedRow(rows[i], u) ELSE rows[i]
    BY <1>4, RowsValues
  <2>4. QED
    BY <2>1, <2>2, <2>3 DEF OpenIsAwake, Active
<1>5. QED
  BY <1>1, <1>2, <1>3, <1>4 DEF RowsStep

LEMMA AwakeHolds == Spec => []Awake
<1>1. Init => Awake
  BY DEF Init, Awake, OpenIsAwake
<1>2. TypeOK /\ ClockOK /\ Awake /\ [Next]_vars => Awake'
  <2> SUFFICES ASSUME TypeOK, ClockOK, Awake, [Next]_vars, NEW k \in Keys
               PROVE  OpenIsAwake(findings'[k])
    BY DEF Awake, OpenIsAwake
  <2>1. findings[k] \in Seq(Row) /\ OpenIsAwake(findings[k])
    BY DEF TypeOK, Awake
  <2>2. QED
    BY <2>1, NextRows, StepAwake
<1>3. QED
  BY <1>1, <1>2, TypeCorrect, ClockCorrect, PTL DEF Spec

\* What a refresh, an insert, a resolve and a snooze are to a reader.
LEMMA RefreshSeen ==
  ASSUME NEW rows \in Seq(Row), OnlyLastActive(rows), OpenIsAwake(rows), HasActive(rows),
         NEW g \in Nat, NEW new, new = UpdateOpenFinding(rows, g)
  PROVE  /\ Len(new) = Len(rows)
         /\ \/ StatusOf(new) = StatusOf(rows) /\ WakesOf(new) = WakesOf(rows)
            \/ /\ StatusOf(rows) = "snoozed" /\ WakesOf(rows) <= g
               /\ StatusOf(new) = "open" /\ WakesOf(new) = -1
<1> DEFINE row == rows[Len(rows)]
<1>1. rows # << >> /\ Len(rows) \in Nat /\ Len(rows) > 0 /\ row \in Row /\ Active(row)
  BY RunningIsActive, NewestRow
<1>2. Len(new) = Len(rows) /\ new \in Seq(Row)
  BY RowsUpdates
<1>3. new # << >>
  BY <1>1, <1>2
<1>4. new[Len(new)] = RefreshedRow(row, g)
  BY <1>1, <1>2, RowsValues
<1>5. StatusOf(new) = RefreshedRow(row, g).status /\ WakesOf(new) = RefreshedRow(row, g).until
  BY <1>3, <1>4 DEF StatusOf, WakesOf
<1>6. StatusOf(rows) = row.status /\ WakesOf(rows) = row.until
  BY <1>1 DEF StatusOf, WakesOf
<1>7. /\ row.status \in {"open", "snoozed"} /\ row.until \in Int
      /\ row.status = "open" => row.until = NoTime
  BY <1>1 DEF Active, Row, Times, NoTime, OpenIsAwake
<1>8. CASE StillSnoozed(row, g)
  BY <1>2, <1>5, <1>6, <1>8 DEF RefreshedRow, StillSnoozed
<1>9. CASE ~StillSnoozed(row, g)
  BY <1>2, <1>5, <1>6, <1>7, <1>9 DEF RefreshedRow, StillSnoozed, NoTime
<1>10. QED
  BY <1>8, <1>9

LEMMA InsertSeen ==
  ASSUME NEW rows \in Seq(Row), OnlyLastActive(rows), ~HasActive(rows), NEW g \in Nat,
         NEW new, new = InsertFinding(rows, g)
  PROVE  /\ StatusOf(rows) \notin {"open", "snoozed"} /\ StatusOf(new) = "open"
         /\ WakesOf(new) = -1 /\ Len(new) = Len(rows) + 1
<1>1. Len(rows) \in Nat /\ Len(new) = Len(rows) + 1 /\ new # << >>
  BY RowsUpdates, NewestRow
<1>2. new[Len(new)] = NewRow(g)
  BY <1>1, RowsValues
<1>3. StatusOf(new) = "open" /\ WakesOf(new) = -1
  BY <1>1, <1>2 DEF StatusOf, WakesOf, NewRow, NoTime
<1>4. QED
  BY <1>1, <1>3, RunningIsActive

LEMMA ResolveSeen ==
  ASSUME NEW rows \in Seq(Row), OnlyLastActive(rows), NEW g \in Nat,
         NEW new, new = ResolveMissingFinding(rows, g)
  PROVE  /\ Len(new) = Len(rows) /\ WakesOf(new) = WakesOf(rows)
         /\ \/ StatusOf(new) = StatusOf(rows)
            \/ StatusOf(rows) \in {"open", "snoozed"} /\ StatusOf(new) = "resolved"
<1> DEFINE row == rows[Len(rows)]
<1>1. Len(new) = Len(rows) /\ new \in Seq(Row)
  BY RowsUpdates
<1>2. CASE rows = << >>
  <2>1. new = << >>
    BY <1>1, <1>2
  <2>2. QED
    BY <1>2, <2>1
<1>3. CASE rows # << >>
  <2>1. Len(rows) \in Nat /\ Len(rows) > 0 /\ row \in Row
    BY <1>3, NewestRow
  <2>2. new # << >>
    BY <1>1, <2>1
  <2>3. new[Len(new)] = IF Active(row) THEN ResolvedRow(row, g) ELSE row
    BY <1>1, <2>1, RowsValues
  <2>4. ResolvedRow(row, g).status = "resolved" /\ ResolvedRow(row, g).until = row.until
    BY <2>1 DEF ResolvedRow, Row
  <2>5. QED
    BY <1>1, <1>3, <2>2, <2>3, <2>4 DEF StatusOf, WakesOf, Active
<1>4. QED
  BY <1>2, <1>3

LEMMA SnoozeSeen ==
  ASSUME NEW rows \in Seq(Row), OnlyLastActive(rows), NEW u \in Nat,
         NEW new, new = SnoozeFinding(rows, u)
  PROVE  /\ Len(new) = Len(rows)
         /\ HasActive(rows) => StatusOf(new) = "snoozed" /\ WakesOf(new) = u
         /\ ~HasActive(rows) => StatusOf(new) = StatusOf(rows) /\ WakesOf(new) = WakesOf(rows)
<1> DEFINE row == rows[Len(rows)]
<1>1. Len(new) = Len(rows) /\ new \in Seq(Row)
  BY RowsUpdates
<1>2. CASE rows = << >>
  <2>1. new = << >> /\ ~HasActive(rows)
    BY <1>1, <1>2, RunningIsActive
  <2>2. QED
    BY <1>2, <2>1
<1>3. CASE rows # << >>
  <2>1. Len(rows) \in Nat /\ Len(rows) > 0 /\ row \in Row
    BY <1>3, NewestRow
  <2>2. new # << >>
    BY <1>1, <2>1
  <2>3. new[Len(new)] = IF Active(row) THEN SnoozedRow(row, u) ELSE row
    BY <1>1, <2>1, RowsValues
  <2>4. SnoozedRow(row, u).status = "snoozed" /\ SnoozedRow(row, u).until = u
    BY <2>1 DEF SnoozedRow, Row
  <2>5. HasActive(rows) <=> Active(row)
    BY <1>3, RunningIsActive DEF StatusOf, Active
  <2>6. QED
    BY <1>1, <1>3, <2>2, <2>3, <2>4, <2>5 DEF StatusOf, WakesOf
<1>4. QED
  BY <1>2, <1>3

\* The steps of the life cycle of one key, of its rows before and after.
RowsStay(rows, new) ==
  StatusOf(new) = StatusOf(rows) /\ WakesOf(new) = WakesOf(rows) /\ Len(new) = Len(rows)

RowsReported(rows, new) ==
  \/ RowsStay(rows, new)
  \/ /\ StatusOf(rows) \notin {"open", "snoozed"} /\ StatusOf(new) = "open"
     /\ WakesOf(new) = -1 /\ Len(new) = Len(rows) + 1
  \/ /\ StatusOf(rows) = "snoozed" /\ WakesOf(rows) <= now
     /\ StatusOf(new) = "open" /\ WakesOf(new) = -1 /\ Len(new) = Len(rows)
  \/ /\ StatusOf(rows) \in {"open", "snoozed"} /\ StatusOf(new) = "resolved"
     /\ WakesOf(new) = WakesOf(rows) /\ Len(new) = Len(rows)

LEMMA SavedIsReported ==
  ASSUME TypeOK, ClockOK, OneActiveRow, Awake, NEW r \in Reporters, SaveReport(r), NEW k \in Keys
  PROVE  RowsReported(findings[k], findings'[k])
<1> DEFINE rows == findings[k]  new == findings'[k]  g == job[r].at
<1>1. rows \in Seq(Row) /\ g \in Nat /\ g <= now /\ now \in Nat
  BY DEF TypeOK, JobType, ClockOK
<1>2. OnlyLastActive(rows) /\ OpenIsAwake(rows)
  BY DEF OneActiveRow, OnlyLastActive, Awake
<1>3. new = UpsertFindings(k, rows, NodeOf[r], g, job[r].ran, job[r].found)
  BY DEF SaveReport
<1> SUFFICES RowsReported(rows, new)
  OBVIOUS
<1> HIDE DEF rows, new, g
<1>4. CASE HasActive(rows) /\ new = UpdateOpenFinding(rows, g)
  <2>1. WakesOf(rows) \in Int
    <3>1. rows # << >> => rows[Len(rows)] \in Row
      BY <1>1, NewestRow
    <3>2. \A row \in Row : row.until \in Int
      BY DEF Row, Times, NoTime
    <3>3. QED
      BY <3>1, <3>2 DEF WakesOf, NoTime
  <2>2. QED
    BY <1>1, <1>2, <1>4, <2>1, RefreshSeen DEF RowsReported, RowsStay
<1>5. CASE ~HasActive(rows) /\ new = InsertFinding(rows, g)
  BY <1>1, <1>2, <1>5, InsertSeen DEF RowsReported
<1>6. CASE new = ResolveMissingFinding(rows, g)
  BY <1>1, <1>2, <1>6, ResolveSeen DEF RowsReported, RowsStay
<1>7. CASE new = rows
  BY <1>7 DEF RowsReported, RowsStay
<1>8. QED
  BY <1>1, <1>3, <1>4, <1>5, <1>6, <1>7, UpsertCases

(* A step of the store is a step of the life cycle, seen through the mapping.  *)

LEMMA KeysAreIncidents == Keys = Lifecycle!Incidents
BY DEF Keys, Lifecycle!Incidents

LEMMA StaysSeen ==
  ASSUME NEW k \in Keys, RowsStay(findings[k], findings'[k])
  PROVE  Lifecycle!Stays(k)
BY DEF RowsStay, Lifecycle!Stays, StatusOf, WakesOf, Newest

LEMMA ReportSeen ==
  ASSUME TypeOK, ClockOK, OneActiveRow, Awake, JobSees, NEW r \in Reporters, SaveReport(r)
  PROVE  Lifecycle!Reported(NodeOf[r])
<1>1. ASSUME NEW k \in Keys
      PROVE  \/ Lifecycle!Stays(k)
             \/ /\ k[1] = NodeOf[r]
                /\ Lifecycle!Opens(k) \/ Lifecycle!Wakes(k) \/ Lifecycle!Resolves(k)
  <2>1. CASE k \notin OwnKeys(r, job[r].ran)
    <3>1. RowsStay(findings[k], findings'[k])
      BY <2>1, SavedKey DEF RowsStay
    <3>2. QED
      BY <3>1, StaysSeen
  <2>2. CASE k \in OwnKeys(r, job[r].ran)
    <3>1. k[1] = NodeOf[r]
      BY <2>2 DEF OwnKeys, NodeOfKey
    <3>2. RowsReported(findings[k], findings'[k])
      BY SavedIsReported
    <3>3. \/ RowsStay(findings[k], findings'[k])
          \/ Lifecycle!Opens(k) \/ Lifecycle!Wakes(k) \/ Lifecycle!Resolves(k)
      BY <3>2 DEF RowsReported, StatusOf, WakesOf, Newest, Lifecycle!Running,
                  Lifecycle!Opens, Lifecycle!Wakes, Lifecycle!Resolves
    <3>4. QED
      BY <3>1, <3>3, StaysSeen
  <2>3. QED
    BY <2>1, <2>2
<1>2. now' = now
  BY DEF SaveReport
<1>3. QED
  BY <1>1, <1>2, KeysAreIncidents DEF Lifecycle!Reported

LEMMA KeepSeen ==
  ASSUME TypeOK, OneActiveRow, NEW e \in Entities, NEW d \in SnoozeDays, SnoozeEntity(e, d)
  PROVE  Lifecycle!Kept(e)
<1> DEFINE u == now + d
<1>1. u \in Nat /\ u > now /\ now' = now
  BY BoundsAssumption DEF TypeOK, SnoozeEntity
<1> HIDE DEF u
<1>2. \A k \in Keys : k \in Lifecycle!Slept(e) <=> k[3] = e /\ HasActive(findings[k])
  <2> SUFFICES ASSUME NEW k \in Keys
               PROVE  Lifecycle!Running(k) <=> HasActive(findings[k])
    BY KeysAreIncidents DEF Lifecycle!Slept
  <2>1. findings[k] \in Seq(Row) /\ OnlyLastActive(findings[k])
    BY DEF TypeOK, OneActiveRow, OnlyLastActive
  <2>2. HasActive(findings[k]) <=> StatusOf(findings[k]) \in {"open", "snoozed"}
    BY <2>1, RunningIsActive
  <2>3. QED
    BY <2>2 DEF Lifecycle!Running, StatusOf, Newest
<1>3. ASSUME NEW k \in Keys
      PROVE  /\ k \notin Lifecycle!Slept(e) => RowsStay(findings[k], findings'[k])
             /\ k \in Lifecycle!Slept(e) =>
                  /\ StatusOf(findings'[k]) = "snoozed" /\ WakesOf(findings'[k]) = u
                  /\ Len(findings'[k]) = Len(findings[k])
  <2>1. findings[k] \in Seq(Row) /\ OnlyLastActive(findings[k])
    BY DEF TypeOK, OneActiveRow, OnlyLastActive
  <2>2. CASE k[3] # e
    <3>1. findings'[k] = findings[k]
      BY <2>2 DEF SnoozeEntity, EntityOfKey
    <3>2. QED
      BY <1>2, <2>2, <3>1 DEF RowsStay
  <2>3. CASE k[3] = e
    <3>1. findings'[k] = SnoozeFinding(findings[k], u)
      BY <2>3 DEF SnoozeEntity, EntityOfKey, u
    <3>2. QED
      BY <1>1, <1>2, <2>1, <2>3, <3>1, SnoozeSeen DEF RowsStay
  <2>4. QED
    BY <2>2, <2>3
<1>4. \A k \in Keys \ Lifecycle!Slept(e) : Lifecycle!Stays(k)
  BY <1>3, StaysSeen
<1>5. Lifecycle!Slept(e) \subseteq Keys
  BY KeysAreIncidents DEF Lifecycle!Slept
<1>6. QED
  BY <1>1, <1>3, <1>4, <1>5, KeysAreIncidents DEF Lifecycle!Kept, StatusOf, WakesOf, Newest

(* The findings table, written by any number of overlapping reports and keeps, *)
(* implements one incident per key: a report moves only the incidents of its   *)
(* own node, a keep puts all running ones of an entity to sleep until one      *)
(* time, no sleep ends early and a resolved incident never comes back.         *)
THEOREM RefinesLifecycleHolds == Spec => RefinesLifecycle
<1>1. Init => Lifecycle!LifeInit
  <2> SUFFICES ASSUME Init PROVE Lifecycle!LifeInit
    OBVIOUS
  <2>1. \A k \in Keys : findings[k] = << >> /\ Len(findings[k]) = 0
    BY DEF Init
  <2>2. QED
    BY <2>1, KeysAreIncidents DEF Init, Lifecycle!LifeInit, NoTime
<1>2. TypeOK /\ ClockOK /\ OneActiveRow /\ Awake /\ JobSees /\ [Next]_vars
        => [Lifecycle!LifeNext]_(Lifecycle!lifeVars)
  <2> SUFFICES ASSUME TypeOK, ClockOK, OneActiveRow, Awake, JobSees, [Next]_vars
               PROVE  [Lifecycle!LifeNext]_(Lifecycle!lifeVars)
    OBVIOUS
  <2>1. ASSUME NEW r \in Reporters, SaveReport(r) PROVE Lifecycle!LifeNext
    <3>1. NodeOf[r] \in Nodes
      BY ReportersAssumption
    <3>2. QED
      BY <2>1, <3>1, ReportSeen DEF Lifecycle!LifeNext
  <2>2. ASSUME NEW e \in Entities, NEW d \in SnoozeDays, SnoozeEntity(e, d)
        PROVE  Lifecycle!LifeNext
    BY <2>2, KeepSeen DEF Lifecycle!LifeNext
  <2>3. CASE Tick
    <3>1. now' > now /\ findings' = findings
      BY <2>3 DEF Tick, TypeOK, dbVars
    <3>2. \A k \in Keys : Lifecycle!Stays(k)
      BY <3>1, StaysSeen DEF RowsStay
    <3>3. QED
      BY <3>1, <3>2, KeysAreIncidents DEF Lifecycle!LifeNext, Lifecycle!Passes
  <2>4. CASE UNCHANGED <<now, findings>>
    BY <2>4 DEF Lifecycle!lifeVars, Newest
  <2>5. QED
    BY <2>1, <2>2, <2>3, <2>4
       DEF Next, StartRun, AbandonRun, CheckRan, CheckFailed, WorldChanges, vars, dbVars
<1>3. QED
  BY <1>1, <1>2, TypeCorrect, ClockCorrect, OneActiveRowHolds, AwakeHolds, JobSeesHolds, PTL
     DEF Spec, RefinesLifecycle, Lifecycle!LifeSpec

-----------------------------------------------------------------------------
(* The times of a row. *)

\* The times of row are in order and none of its sightings is later than t.
RowTimes(row, t) ==
  /\ row.firstSeen <= row.lastSeen /\ row.lastSeen <= t
  /\ row.status = "resolved" => row.lastSeen <= row.resolvedAt

RowsTimes(rows, t) == \A i \in 1..Len(rows) : RowTimes(rows[i], t)

\* The run in flight of the only reporter of a key was stamped after every
\* sighting stored for it.
RunIsNewer(k) ==
  \A r \in Reporters : Covers(r, k) /\ job[r].pc = "running" =>
    \A i \in 1..Len(findings[k]) : findings[k][i].lastSeen <= job[r].at

TimesInv == \A k \in Keys : Exclusive(k) => RowsTimes(findings[k], now) /\ RunIsNewer(k)

LEMMA UpdatesKeepTimes ==
  ASSUME NEW row \in Row, NEW g \in Nat, NEW t \in Nat, RowTimes(row, t)
  PROVE  /\ row.lastSeen <= g /\ g <= t /\ Active(row) =>
              RowTimes(RefreshedRow(row, g), t) /\ RowTimes(ResolvedRow(row, g), t)
         /\ g <= t => RowTimes(NewRow(g), t)
         /\ RowTimes(SnoozedRow(row, g), t)
<1>0. row.firstSeen \in Nat /\ row.lastSeen \in Nat /\ row.firstSeen <= row.lastSeen /\ row.lastSeen <= t
  BY DEF RowTimes, Row
<1>1. ASSUME row.lastSeen <= g, g <= t PROVE RowTimes(RefreshedRow(row, g), t)
  BY <1>0, <1>1 DEF RefreshedRow, RowTimes
<1>2. ASSUME row.lastSeen <= g PROVE RowTimes(ResolvedRow(row, g), t)
  BY <1>0, <1>2 DEF ResolvedRow, RowTimes, Row
<1>3. g <= t => RowTimes(NewRow(g), t)
  BY DEF NewRow, RowTimes
<1>4. RowTimes(SnoozedRow(row, g), t)
  BY <1>0 DEF SnoozedRow, RowTimes, Row
<1>5. QED
  BY <1>1, <1>2, <1>3, <1>4

LEMMA SaveKeepsTimes ==
  ASSUME TypeOK, ClockOK, JobSees, JobSelected, TimesInv,
         NEW r \in Reporters, SaveReport(r), NEW k \in Keys, Exclusive(k)
  PROVE  RowsTimes(findings'[k], now) /\ RunIsNewer(k)'
<1> DEFINE rows == findings[k]  new == findings'[k]  g == job[r].at
<1>1. rows \in Seq(Row) /\ Len(rows) \in Nat /\ g \in Nat /\ g <= now /\ now \in Nat
  BY DEF TypeOK, JobType, ClockOK
<1>2. RowsTimes(rows, now) /\ \A i \in 1..Len(rows) : rows[i] \in Row
  BY <1>1 DEF TimesInv
<1>3. job' = [job EXCEPT ![r] = IdleJob] /\ job \in [Reporters -> JobType] /\ IdleJob.pc = "idle"
  BY DEF SaveReport, TypeOK, IdleJob
<1>4. CASE k \notin OwnKeys(r, job[r].ran)
  <2>1. findings'[k] = findings[k]
    BY <1>4, SavedKey
  <2>2. RunIsNewer(k)
    BY DEF TimesInv
  <2>3. \A s \in Reporters : job'[s].pc = "running" => job'[s] = job[s]
    BY <1>3
  <2>4. RunIsNewer(k)'
    BY <2>1, <2>2, <2>3 DEF RunIsNewer, Covers
  <2>5. QED
    BY <1>2, <2>1, <2>4
<1>5. CASE k \in OwnKeys(r, job[r].ran)
  <2>1. Covers(r, k) /\ job[r].pc = "running"
    BY <1>5, RunCovers DEF SaveReport
  <2>2. \A i \in 1..Len(rows) : rows[i].lastSeen <= g
    BY <2>1 DEF TimesInv, RunIsNewer
  <2>3. \A s \in Reporters : Covers(s, k) => job'[s].pc = "idle"
    BY <1>3, <2>1 DEF Exclusive
  <2>4. RunIsNewer(k)'
    BY <2>3 DEF RunIsNewer, Covers
  <2>5. new = UpsertFindings(k, rows, NodeOf[r], g, job[r].ran, job[r].found)
    BY DEF SaveReport
  <2> HIDE DEF rows, new, g
  <2>6. \A i \in 1..Len(rows) :
          /\ RowTimes(rows[i], now)
          /\ Active(rows[i]) => /\ RowTimes(RefreshedRow(rows[i], g), now)
                                /\ RowTimes(ResolvedRow(rows[i], g), now)
    BY <1>1, <1>2, <2>2, UpdatesKeepTimes DEF RowsTimes
  <2>7. RowTimes(NewRow(g), now)
    BY <1>1 DEF NewRow, RowTimes
  <2>8. CASE new = UpdateOpenFinding(rows, g)
    <3>1. Len(new) = Len(rows)
      BY <1>1, <2>8, RowsUpdates
    <3>2. \A i \in 1..Len(rows) : new[i] = IF Active(rows[i]) THEN RefreshedRow(rows[i], g) ELSE rows[i]
      BY <1>1, <2>8, RowsValues
    <3>3. QED
      BY <2>4, <2>6, <3>1, <3>2 DEF RowsTimes, new
  <2>9. CASE new = InsertFinding(rows, g)
    <3>1. Len(new) = Len(rows) + 1
      BY <1>1, <2>9, RowsUpdates
    <3>2. (\A i \in 1..Len(rows) : new[i] = rows[i]) /\ new[Len(rows) + 1] = NewRow(g)
      BY <1>1, <2>9, RowsValues
    <3>3. QED
      BY <1>1, <2>4, <2>6, <2>7, <3>1, <3>2 DEF RowsTimes, new
  <2>10. CASE new = ResolveMissingFinding(rows, g)
    <3>1. Len(new) = Len(rows)
      BY <1>1, <2>10, RowsUpdates
    <3>2. \A i \in 1..Len(rows) : new[i] = IF Active(rows[i]) THEN ResolvedRow(rows[i], g) ELSE rows[i]
      BY <1>1, <2>10, RowsValues
    <3>3. QED
      BY <2>4, <2>6, <3>1, <3>2 DEF RowsTimes, new
  <2>11. CASE new = rows
    BY <1>2, <2>4, <2>11 DEF new
  <2>12. QED
    BY <1>1, <2>5, <2>8, <2>9, <2>10, <2>11, UpsertCases
<1>6. QED
  BY <1>4, <1>5

LEMMA KeepKeepsTimes ==
  ASSUME TypeOK, TimesInv, NEW e \in Entities, NEW d \in SnoozeDays, SnoozeEntity(e, d),
         NEW k \in Keys, Exclusive(k)
  PROVE  RowsTimes(findings'[k], now) /\ RunIsNewer(k)'
<1> DEFINE rows == findings[k]  new == findings'[k]  u == now + d
<1>1. rows \in Seq(Row) /\ u \in Nat /\ now \in Nat /\ job' = job
  BY BoundsAssumption DEF TypeOK, SnoozeEntity
<1>2. RowsTimes(rows, now) /\ \A i \in 1..Len(rows) : rows[i] \in Row
  BY <1>1 DEF TimesInv
<1>3. new = rows \/ new = SnoozeFinding(rows, u)
  BY DEF SnoozeEntity
<1>4. Len(new) = Len(rows)
  BY <1>1, <1>3, RowsUpdates
<1>5. ASSUME NEW i \in 1..Len(rows)
      PROVE  RowTimes(new[i], now) /\ new[i].lastSeen = rows[i].lastSeen
  <2>1. new[i] = rows[i] \/ new[i] = SnoozedRow(rows[i], u)
    BY <1>1, <1>3, RowsValues
  <2>2. SnoozedRow(rows[i], u).lastSeen = rows[i].lastSeen
    BY <1>2 DEF SnoozedRow, Row
  <2>3. RowTimes(SnoozedRow(rows[i], u), now)
    BY <1>1, <1>2, UpdatesKeepTimes DEF RowsTimes
  <2>4. QED
    BY <1>2, <2>1, <2>2, <2>3 DEF RowsTimes
<1>6. RunIsNewer(k)
  BY DEF TimesInv
<1>7. QED
  BY <1>1, <1>4, <1>5, <1>6 DEF RowsTimes, RunIsNewer, Covers

(* For every key that a single reporter covers, no row is last seen before it  *)
(* was first seen or resolved before it was last seen, although a report       *)
(* carries the time its run started and is saved when it ends.                 *)
THEOREM TimesOrderedHolds == Spec => []TimesOrdered
<1>1. Init => TimesInv
  BY DEF Init, TimesInv, RowsTimes, RunIsNewer
<1>2. TypeOK /\ ClockOK /\ JobSees /\ JobSelected /\ TimesInv /\ [Next]_vars => TimesInv'
  <2> SUFFICES ASSUME TypeOK, ClockOK, JobSees, JobSelected, TimesInv, [Next]_vars,
                      NEW k \in Keys, Exclusive(k)
               PROVE  RowsTimes(findings'[k], now') /\ RunIsNewer(k)'
    BY DEF TimesInv, Exclusive, Covers, RowsTimes
  <2>0. /\ findings[k] \in Seq(Row) /\ now \in Nat /\ job \in [Reporters -> JobType]
        /\ RowsTimes(findings[k], now) /\ RunIsNewer(k)
    BY DEF TypeOK, TimesInv
  <2>1. ASSUME NEW r \in Reporters, SaveReport(r)
        PROVE  RowsTimes(findings'[k], now') /\ RunIsNewer(k)'
    <3>1. now' = now
      BY <2>1 DEF SaveReport
    <3>2. QED
      BY <2>1, <3>1, SaveKeepsTimes
  <2>2. ASSUME NEW e \in Entities, NEW d \in SnoozeDays, SnoozeEntity(e, d)
        PROVE  RowsTimes(findings'[k], now') /\ RunIsNewer(k)'
    <3>1. now' = now
      BY <2>2 DEF SnoozeEntity
    <3>2. QED
      BY <2>2, <3>1, KeepKeepsTimes
  <2>3. ASSUME NEW r \in Reporters, StartRun(r)
        PROVE  RowsTimes(findings'[k], now') /\ RunIsNewer(k)'
    <3>1. PICK j : j.at = now /\ job' = [job EXCEPT ![r] = j]
      BY <2>3 DEF StartRun, IdleJob
    <3>2. findings' = findings /\ now' = now
      BY <2>3 DEF StartRun, dbVars
    <3>3. \A i \in 1..Len(findings[k]) : findings[k][i].lastSeen <= now
      BY <2>0 DEF RowsTimes, RowTimes
    <3>4. \A s \in Reporters : job'[s].at = now \/ job'[s] = job[s]
      BY <2>0, <3>1
    <3>5. RunIsNewer(k)'
      BY <2>0, <3>2, <3>3, <3>4 DEF RunIsNewer, Covers
    <3>6. QED
      BY <2>0, <3>2, <3>5
  <2>4. ASSUME findings' = findings, now' = now,
               \A s \in Reporters : job'[s].pc = "running" =>
                 job[s].pc = "running" /\ job'[s].at = job[s].at
        PROVE  RowsTimes(findings'[k], now') /\ RunIsNewer(k)'
    BY <2>0, <2>4 DEF RunIsNewer, Covers
  <2>5. ASSUME NEW r \in Reporters, AbandonRun(r)
        PROVE  RowsTimes(findings'[k], now') /\ RunIsNewer(k)'
    BY <2>0, <2>4, <2>5 DEF AbandonRun, IdleJob, dbVars
  <2>6. ASSUME NEW r \in Reporters, NEW c \in Checks, CheckRan(r, c) \/ CheckFailed(r, c)
        PROVE  RowsTimes(findings'[k], now') /\ RunIsNewer(k)'
    <3>1. findings' = findings /\ now' = now
      BY <2>6 DEF CheckRan, CheckFailed, dbVars
    <3>2. \A s \in Reporters : job'[s].pc = job[s].pc /\ job'[s].at = job[s].at
      <4>1. CASE CheckRan(r, c)
        <5>1. job' = [job EXCEPT ![r] = WithResult(job[r], c, Sightings(r, c))]
          BY <4>1 DEF CheckRan
        <5>2. /\ WithResult(job[r], c, Sightings(r, c)).pc = job[r].pc
              /\ WithResult(job[r], c, Sightings(r, c)).at = job[r].at
          BY <2>0 DEF WithResult, JobType
        <5>3. QED
          BY <2>0, <5>1, <5>2
      <4>2. CASE CheckFailed(r, c)
        BY <2>0, <4>2 DEF CheckFailed, JobType
      <4>3. QED
        BY <2>6, <4>1, <4>2
    <3>3. QED
      BY <2>4, <3>1, <3>2
  <2>7. ASSUME NEW q \in Keys, WorldChanges(q)
        PROVE  RowsTimes(findings'[k], now') /\ RunIsNewer(k)'
    <3>1. findings' = findings /\ now' = now
      BY <2>7 DEF WorldChanges, dbVars
    <3>2. \A s \in Reporters : job'[s].pc = job[s].pc /\ job'[s].at = job[s].at
      BY <2>0, <2>7 DEF WorldChanges, JobType
    <3>3. QED
      BY <2>4, <3>1, <3>2
  <2>8. CASE Tick
    <3>1. now' = now + 1 /\ findings' = findings /\ job' = job
      BY <2>8 DEF Tick, dbVars
    <3>2. \A i \in 1..Len(findings[k]) : findings[k][i].lastSeen \in Nat
      <4>1. \A i \in 1..Len(findings[k]) : findings[k][i] \in Row
        BY <2>0
      <4>2. QED
        BY <4>1 DEF Row
    <3>3. RowsTimes(findings'[k], now')
      BY <2>0, <3>1, <3>2 DEF RowsTimes, RowTimes
    <3>4. QED
      BY <2>0, <3>1, <3>3 DEF RunIsNewer, Covers
  <2>9. CASE UNCHANGED vars
    BY <2>4, <2>9 DEF vars
  <2>10. QED
    BY <2>1, <2>2, <2>3, <2>5, <2>6, <2>7, <2>8, <2>9 DEF Next
<1>3. TimesInv => TimesOrdered
  BY DEF TimesInv, TimesOrdered, RowsTimes, RowTimes
<1>4. QED
  BY <1>1, <1>2, <1>3, TypeCorrect, ClockCorrect, JobSeesHolds, JobSelectedHolds, PTL DEF Spec

=============================================================================
