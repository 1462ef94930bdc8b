----------------------------- MODULE CheckProofs -----------------------------
(***************************************************************************)
(* What check.Run returns, for any list of checks and any number of runs,  *)
(* however many goroutines stay behind; and what the checks it runs make   *)
(* of services that fail or change under them (CheckFamilies).             *)
(*                                                                         *)
(* OwnFindings alone is not inductive: that a late answer cannot get in    *)
(* rests on the channels, each of which only ever holds the answer of the  *)
(* goroutine it was made for (RunnerInv).  OutageTold needs that a run     *)
(* which goes on has only seen failures its check tolerates (OutageInv),   *)
(* FlaggedIsUnimported that its answers still hold while no service has    *)
(* changed since it began (FlagInv).                                       *)
(***************************************************************************)
EXTENDS CheckRunner, CheckFamilies, TLAPS

-----------------------------------------------------------------------------
(* check.Run. *)

Reports == [ran : Seq(Checks), skipped : Seq(Checks), errors : Seq(Checks), findings : SUBSET Goroutines]

RunnerInv ==
  /\ TypeOK
  /\ pc # "idle" => run > 0
  /\ \A g \in Goroutines : chan[g] \subseteq {g}
  /\ Accounted
  /\ OwnFindings

-----------------------------------------------------------------------------

\* Appending adds one element to what a list holds.
LEMMA AppendRange ==
  ASSUME NEW s \in Seq(Checks), NEW c \in Checks
  PROVE  /\ Append(s, c) \in Seq(Checks) /\ Len(Append(s, c)) = Len(s) + 1 /\ Len(s) \in Nat
         /\ RangeOf(Append(s, c)) = RangeOf(s) \cup {c}
<1>1. Append(s, c) \in Seq(Checks) /\ Len(Append(s, c)) = Len(s) + 1 /\ Len(s) \in Nat OBVIOUS
<1>2. \A i \in 1..Len(s) : Append(s, c)[i] = s[i] OBVIOUS
<1>3. Append(s, c)[Len(s) + 1] = c OBVIOUS
<1>4. 1..(Len(s) + 1) = (1..Len(s)) \cup {Len(s) + 1} BY <1>1
<1> QED BY <1>1, <1>2, <1>3, <1>4 DEF RangeOf

\* One more check is accounted for: it is in one list, and the findings of the
\* present goroutine are in the report if that list is Ran.
LEMMA OneMore ==
  ASSUME RunnerInv, pc = "select", UNCHANGED run, pos' = pos + 1,
         LET c == Order[pos] IN
         \/ rep' = [rep EXCEPT !.skipped = Append(@, c)]
         \/ rep' = [rep EXCEPT !.errors = Append(@, c)]
         \/ rep' = [rep EXCEPT !.ran = Append(@, c), !.findings = @ \cup {Current}]
  PROVE  rep' \in Reports /\ pos' \in 1..(Len(Order) + 1) /\ Accounted' /\ OwnFindings'
<1> DEFINE c == Order[pos]
<1>0. /\ rep \in Reports /\ pos \in 1..Len(Order) /\ c \in Checks /\ run \in 1..MaxRuns /\ Current \in Goroutines
      /\ Order \in Seq(Checks)
  <2>1. rep \in Reports /\ pos \in 1..Len(Order) /\ run \in 1..MaxRuns
    BY OrderAssumption, RunnerBounds DEF OrderAssumption, RunnerBounds, RunnerInv, TypeOK, Reports
  <2>2. Order \in Seq(Checks) BY OrderAssumption DEF OrderAssumption
  <2>3. c \in Checks BY <2>1, <2>2
  <2> QED BY <2>1, <2>2, <2>3 DEF Current, Goroutines
<1>1. PICK r \in Reports : r = rep BY <1>0
<1>2. /\ r.ran \in Seq(Checks) /\ r.skipped \in Seq(Checks) /\ r.errors \in Seq(Checks)
      /\ r.findings \in SUBSET Goroutines
  BY DEF Reports
<1>3. /\ Len(r.ran) + Len(r.skipped) + Len(r.errors) = pos - 1
      /\ {Order[i] : i \in 1..(pos - 1)} = RangeOf(r.ran) \cup RangeOf(r.skipped) \cup RangeOf(r.errors)
      /\ r.findings = {<<run, d>> : d \in RangeOf(r.ran)}
  BY <1>1 DEF RunnerInv, Accounted, OwnFindings
<1>4. pos' \in 1..(Len(Order) + 1) BY <1>0
<1>5. PICK a \in Nat, b \in Nat, e \in Nat : a = Len(r.ran) /\ b = Len(r.skipped) /\ e = Len(r.errors)
  <2>1. Len(r.ran) \in Nat /\ Len(r.skipped) \in Nat /\ Len(r.errors) \in Nat BY <1>2
  <2> QED BY <2>1, Zenon
<1>6. pos \in Int /\ pos' = pos + 1 /\ a + b + e = pos - 1
  <2>1. pos \in Int BY <1>0
  <2>2. a + b + e = pos - 1 BY <1>3, <1>5, Zenon
  <2> QED BY <2>1, <2>2
<1>7. {Order[i] : i \in 1..(pos' - 1)} = {Order[i] : i \in 1..(pos - 1)} \cup {c}
  <2>1. 1..(pos' - 1) = (1..(pos - 1)) \cup {pos} BY <1>0
  <2> QED BY <2>1
<1> HIDE DEF c
<1>8. CASE rep' = [rep EXCEPT !.skipped = Append(@, c)]
  <2>1. PICK s : s = Append(r.skipped, c) OBVIOUS
  <2>2. rep' = [ran |-> r.ran, skipped |-> s, errors |-> r.errors, findings |-> r.findings]
    BY <1>1, <1>8, <2>1 DEF Reports
  <2>3. s \in Seq(Checks) /\ Len(s) = Len(r.skipped) + 1 /\ RangeOf(s) = RangeOf(r.skipped) \cup {c}
    BY <1>0, <1>2, <2>1, AppendRange
  <2>4. rep' \in Reports BY <1>2, <2>2, <2>3 DEF Reports
  <2>5. rep'.ran = r.ran /\ rep'.skipped = s /\ rep'.errors = r.errors /\ rep'.findings = r.findings BY <2>2
  <2>6. Len(rep'.ran) + Len(rep'.skipped) + Len(rep'.errors) = pos' - 1
    <3>1. Len(rep'.ran) = a /\ Len(rep'.skipped) = b + 1 /\ Len(rep'.errors) = e BY <1>5, <2>3, <2>5, Zenon
    <3>2. (a + (b + 1)) + e = pos' - 1 BY <1>6
    <3> QED BY <3>1, <3>2, Zenon
  <2>7. {Order[i] : i \in 1..(pos' - 1)} = RangeOf(rep'.ran) \cup RangeOf(rep'.skipped) \cup RangeOf(rep'.errors)
    BY <1>3, <1>7, <2>3, <2>5
  <2>8. Accounted' BY <2>6, <2>7 DEF Accounted, RangeOf
  <2>9. OwnFindings' BY <1>3, <2>5 DEF OwnFindings, RangeOf
  <2> QED BY <1>4, <2>4, <2>8, <2>9
<1>9. CASE rep' = [rep EXCEPT !.errors = Append(@, c)]
  <2>1. PICK s : s = Append(r.errors, c) OBVIOUS
  <2>2. rep' = [ran |-> r.ran, skipped |-> r.skipped, errors |-> s, findings |-> r.findings]
    BY <1>1, <1>9, <2>1 DEF Reports
  <2>3. s \in Seq(Checks) /\ Len(s) = Len(r.errors) + 1 /\ RangeOf(s) = RangeOf(r.errors) \cup {c}
    BY <1>0, <1>2, <2>1, AppendRange
  <2>4. rep' \in Reports BY <1>2, <2>2, <2>3 DEF Reports
  <2>5. rep'.ran = r.ran /\ rep'.skipped = r.skipped /\ rep'.errors = s /\ rep'.findings = r.findings BY <2>2
  <2>6. Len(rep'.ran) + Len(rep'.skipped) + Len(rep'.errors) = pos' - 1
    <3>1. Len(rep'.ran) = a /\ Len(rep'.skipped) = b /\ Len(rep'.errors) = e + 1 BY <1>5, <2>3, <2>5, Zenon
    <3>2. (a + b) + (e + 1) = pos' - 1 BY <1>6
    <3> QED BY <3>1, <3>2, Zenon
  <2>7. {Order[i] : i \in 1..(pos' - 1)} = RangeOf(rep'.ran) \cup RangeOf(rep'.skipped) \cup RangeOf(rep'.errors)
    BY <1>3, <1>7, <2>3, <2>5
  <2>8. Accounted' BY <2>6, <2>7 DEF Accounted, RangeOf
  <2>9. OwnFindings' BY <1>3, <2>5 DEF OwnFindings, RangeOf
  <2> QED BY <1>4, <2>4, <2>8, <2>9
<1>10. CASE rep' = [rep EXCEPT !.ran = Append(@, c), !.findings = @ \cup {Current}]
  <2>1. PICK s : s = Append(r.ran, c) OBVIOUS
  <2>2. PICK f : f = r.findings \cup {<<run, c>>} OBVIOUS
  <2>3. rep' = [ran |-> s, skipped |-> r.skipped, errors |-> r.errors, findings |-> f]
    BY <1>1, <1>10, <2>1, <2>2 DEF Reports, Current, c
  <2>4. s \in Seq(Checks) /\ Len(s) = Len(r.ran) + 1 /\ RangeOf(s) = RangeOf(r.ran) \cup {c}
    BY <1>0, <1>2, <2>1, AppendRange
  <2>5. f \in SUBSET Goroutines BY <1>0, <1>2, <2>2 DEF Current, c
  <2>6. rep' \in Reports BY <1>2, <2>3, <2>4, <2>5 DEF Reports
  <2>7. rep'.ran = s /\ rep'.skipped = r.skipped /\ rep'.errors = r.errors /\ rep'.findings = f BY <2>3
  <2>8. Len(rep'.ran) + Len(rep'.skipped) + Len(rep'.errors) = pos' - 1
    <3>1. Len(rep'.ran) = a + 1 /\ Len(rep'.skipped) = b /\ Len(rep'.errors) = e BY <1>5, <2>4, <2>7, Zenon
    <3>2. ((a + 1) + b) + e = pos' - 1 BY <1>6
    <3> QED BY <3>1, <3>2, Zenon
  <2>9. {Order[i] : i \in 1..(pos' - 1)} = RangeOf(rep'.ran) \cup RangeOf(rep'.skipped) \cup RangeOf(rep'.errors)
    BY <1>3, <1>7, <2>4, <2>7
  <2>10. f = {<<run, d>> : d \in RangeOf(s)} BY <1>3, <2>2, <2>4
  <2>11. Accounted' BY <2>8, <2>9 DEF Accounted, RangeOf
  <2>12. OwnFindings' BY <2>7, <2>10 DEF OwnFindings, RangeOf
  <2> QED BY <1>4, <2>6, <2>11, <2>12
<1> QED BY <1>8, <1>9, <1>10 DEF c

\* Before the first run.
LEMMA InitRunner == Init => RunnerInv
<1> SUFFICES ASSUME Init PROVE RunnerInv OBVIOUS
<1>0. MaxRuns \in Nat /\ Order \in Seq(Checks) BY OrderAssumption, RunnerBounds DEF OrderAssumption, RunnerBounds
<1>1. rep = EmptyReport /\ pos = 1 /\ run = 0 /\ pc = "idle" BY DEF Init
<1>2. Accounted /\ OwnFindings BY <1>1 DEF Accounted, OwnFindings, EmptyReport, RangeOf
<1>3. rep \in Reports BY <1>1 DEF EmptyReport, Reports
<1>4. TypeOK
  <2>1. run \in 0..MaxRuns /\ pos \in 1..(Len(Order) + 1) BY <1>0, <1>1
  <2>2. gor \in [Goroutines -> {"none", "running", "sending", "ended"}] /\ result \in [Goroutines -> Outcomes]
    BY DEF Init, Outcomes
  <2>3. chan \in [Goroutines -> SUBSET Goroutines] BY DEF Init
  <2>4. expired \in BOOLEAN /\ cancelled \in BOOLEAN BY DEF Init
  <2> QED BY <1>1, <1>3, <2>1, <2>2, <2>3, <2>4 DEF TypeOK, Reports
<1> QED BY <1>1, <1>2, <1>4 DEF Init, RunnerInv

\* Whatever happens, the report and the channels stay as RunnerInv says.
LEMMA RunnerStep == RunnerInv /\ [Next]_vars => RunnerInv'
<1> SUFFICES ASSUME RunnerInv, [Next]_vars PROVE RunnerInv' OBVIOUS
<1>0. /\ TypeOK /\ MaxRuns \in Nat /\ Len(Order) \in Nat /\ Order \in Seq(Checks) /\ rep \in Reports
  BY OrderAssumption, RunnerBounds DEF OrderAssumption, RunnerBounds, RunnerInv, TypeOK, Reports
<1>1. ASSUME UNCHANGED <<run, pos, rep>> PROVE Accounted' /\ OwnFindings'
  <2>1. Accounted <=> Accounted' BY <1>1 DEF Accounted, RangeOf
  <2>2. OwnFindings <=> OwnFindings' BY <1>1 DEF OwnFindings, RangeOf
  <2> QED BY <2>1, <2>2 DEF RunnerInv
<1>2. CASE StartRun
  <2>1. rep' = EmptyReport /\ pos' = 1 /\ run' = run + 1 /\ run' \in 0..MaxRuns /\ run' > 0 /\ pc' = "loop"
    BY <1>0, <1>2 DEF StartRun, TypeOK
  <2>2. Accounted' /\ OwnFindings' BY <2>1 DEF Accounted, OwnFindings, EmptyReport, RangeOf
  <2>3. rep' \in Reports BY <2>1 DEF EmptyReport, Reports
  <2>4. TypeOK' BY <1>0, <1>2, <2>1, <2>3 DEF StartRun, TypeOK, Reports
  <2> QED BY <1>2, <2>1, <2>2, <2>4 DEF StartRun, RunnerInv
<1>3. CASE Launch
  <2>1. TypeOK' BY <1>0, <1>3 DEF Launch, TypeOK, RunnerInv
  <2> QED BY <1>1, <1>3, <2>1 DEF Launch, RunnerInv
<1>4. CASE FinishRun \/ Deadline \/ Cancel \/ UNCHANGED vars
  <2>1. TypeOK' BY <1>0, <1>4 DEF FinishRun, Deadline, Cancel, vars, TypeOK, RunnerInv
  <2> QED BY <1>1, <1>4, <2>1 DEF FinishRun, Deadline, Cancel, vars, RunnerInv
<1>5. ASSUME NEW g \in Goroutines, NEW o \in Outcomes, CheckReturns(g, o) PROVE RunnerInv'
  <2>1. TypeOK' BY <1>0, <1>5 DEF CheckReturns, TypeOK
  <2> QED BY <1>1, <1>5, <2>1 DEF CheckReturns, RunnerInv
<1>6. ASSUME NEW g \in Goroutines, Send(g) PROVE RunnerInv'
  <2>1. chan' = [chan EXCEPT ![g] = {g}] BY <1>6 DEF Send, Done
  <2>2. TypeOK'
    <3>1. chan' \in [Goroutines -> SUBSET Goroutines] BY <1>0, <2>1 DEF TypeOK
    <3>2. gor' \in [Goroutines -> {"none", "running", "sending", "ended"}] BY <1>0, <1>6 DEF Send, TypeOK
    <3>3. UNCHANGED <<run, pc, pos, result, expired, cancelled, rep>> BY <1>6 DEF Send
    <3> QED BY <1>0, <3>1, <3>2, <3>3 DEF TypeOK
  <2>3. \A h \in Goroutines : chan'[h] \subseteq {h} BY <1>0, <2>1 DEF RunnerInv, TypeOK
  <2> QED BY <1>1, <1>6, <2>2, <2>3 DEF Send, RunnerInv
<1>7. CASE TakeTimeout
  <2>1. /\ pc = "select" /\ UNCHANGED <<run, gor, result, chan, expired, cancelled>> /\ pos' = pos + 1 /\ pc' = "loop"
        /\ rep' = [rep EXCEPT !.errors = Append(@, Order[pos])]
    BY <1>7 DEF TakeTimeout
  <2>2. rep' \in Reports /\ pos' \in 1..(Len(Order) + 1) /\ Accounted' /\ OwnFindings' BY <2>1, OneMore
  <2>3. TypeOK' BY <1>0, <2>1, <2>2 DEF TypeOK, Reports
  <2> QED BY <2>1, <2>2, <2>3 DEF RunnerInv
<1>8. CASE TakeResult
  <2>1. PICK g \in chan[Done(Current)] : chan' = [chan EXCEPT ![Done(Current)] = {}] /\ rep' = Answered(g)
    BY <1>8 DEF TakeResult
  <2>2. pc = "select" /\ UNCHANGED <<run, gor, result, expired, cancelled>> /\ pos' = pos + 1 /\ pc' = "loop"
    BY <1>8 DEF TakeResult
  <2>3. Current \in Goroutines
    <3>1. run \in 1..MaxRuns /\ pos \in 1..Len(Order) BY <1>0, <2>2 DEF TypeOK
    <3>2. Order[pos] \in Checks BY <1>0, <3>1
    <3> QED BY <3>1, <3>2 DEF Current, Goroutines
  <2>4. g = Current BY <2>1, <2>3 DEF RunnerInv, Done
  <2>5. \/ rep' = [rep EXCEPT !.skipped = Append(@, Order[pos])]
        \/ rep' = [rep EXCEPT !.errors = Append(@, Order[pos])]
        \/ rep' = [rep EXCEPT !.ran = Append(@, Order[pos]), !.findings = @ \cup {Current}]
    BY <2>1, <2>4 DEF Answered
  <2>6. rep' \in Reports /\ pos' \in 1..(Len(Order) + 1) /\ Accounted' /\ OwnFindings' BY <2>2, <2>5, OneMore
  <2>7. chan' \in [Goroutines -> SUBSET Goroutines] /\ \A h \in Goroutines : chan'[h] \subseteq {h}
    BY <1>0, <2>1 DEF TypeOK, RunnerInv
  <2>8. TypeOK' BY <1>0, <2>2, <2>6, <2>7 DEF TypeOK, Reports
  <2> QED BY <2>2, <2>6, <2>7, <2>8 DEF RunnerInv
<1> QED BY <1>2, <1>3, <1>4, <1>5, <1>6, <1>7, <1>8 DEF Next

\* The inductive invariant.
THEOREM RunnerInvariant == Spec => []RunnerInv
BY InitRunner, RunnerStep, PTL DEF Spec

\* The variables keep their types.
THEOREM RunnerTypes == Spec => []TypeOK
<1>1. RunnerInv => TypeOK BY DEF RunnerInv
<1> QED BY <1>1, RunnerInvariant, PTL

\* Every check Run is done with is in exactly one list, once, whichever of the
\* answer and the deadline runOne took.
THEOREM AccountedHolds == Spec => []Accounted
<1>1. RunnerInv => Accounted BY DEF RunnerInv
<1> QED BY <1>1, RunnerInvariant, PTL

\* The late answer of an abandoned goroutine never gets into a report.
THEOREM OwnFindingsHolds == Spec => []OwnFindings
<1>1. RunnerInv => OwnFindings BY DEF RunnerInv
<1> QED BY <1>1, RunnerInvariant, PTL

-----------------------------------------------------------------------------
(* Outages. *)

\* The run is a record of its five fields, whatever the services answered.
CurrentIsRun ==
  current = [st |-> current.st, i |-> current.i, ans |-> current.ans,
            failed |-> current.failed, since |-> current.since]

\* A run that still goes on has only seen failures its check can tell of.
FailuresTolerated ==
  current.st = "asking" => \A call \in current.failed : Tolerated(call)

OutageInv ==
  CurrentIsRun /\ FailuresTolerated /\ OutageTold

\* A critical finding, and a warning, are at least a warning.
LEMMA Severe ==
  ASSUME NEW key, NEW sev \in {"warn", "critical"}
  PROVE  /\ Finding(key, sev).key = key
         /\ Rank(Finding(key, sev)) >= 2
BY DEF Finding, Rank

\* The calls whose failure does not end the run.
LEMMA WhereTolerated ==
  ASSUME NEW call
  PROVE  Tolerated(call) <=>
           \/ check \in {"arr_health", "service_update_available", "plex_reachability"}
           \/ check = "mount_race" /\ call = "exec"
           \/ check = "host_mount_health" /\ call = "usage"
           \/ check = "tautulli_reachability" /\ call = "ping"
           \/ check = "wrong_file_type" /\ call \in Torrents
BY DEF Tolerated, AppUnreachable, PlexUnreachable, TautulliUnreachable, ProbeFailed,
       MountUnreadable, NotInspected

LEMMA FailureTold ==
  ASSUME NEW a, NEW failed, NEW call \in failed, NEW t,
         \A x \in failed : Tolerated(x), check # "service_update_available"
  PROVE  \E f \in FindingsOf(a, failed, t) :
           f.key = StandIn(call) /\ Rank(f) >= 2
<1> DEFINE Found == FindingsOf(a, failed, t)
<1>0. Tolerated(call) /\ failed # {}
  OBVIOUS
<1>1. ASSUME NEW key, NEW sev \in {"warn", "critical"},
             Finding(key, sev) \in Found, StandIn(call) = key
      PROVE  \E f \in Found : f.key = StandIn(call) /\ Rank(f) >= 2
  <2>1. PICK f : f = Finding(key, sev) /\ f.key = key /\ Rank(f) >= 2
    BY Severe
  <2>2. QED
    BY <1>1, <2>1
<1> SUFFICES \E f \in Found : f.key = StandIn(call) /\ Rank(f) >= 2
  OBVIOUS
<1> HIDE DEF Found
<1>2. CASE check = "arr_health"
  <2>1. Found = ArrHealth(a, failed) /\ StandIn(call) = <<call>>
    BY <1>2 DEF Found, FindingsOf, StandIn
  <2>2. Finding(<<call>>, "critical") \in {Finding(<<app>>, "critical") : app \in failed}
    OBVIOUS
  <2>3. {Finding(<<app>>, "critical") : app \in failed} \subseteq ArrHealth(a, failed)
    BY Zenon DEF ArrHealth
  <2>4. QED
    BY <1>1, <2>1, <2>2, <2>3
<1>3. CASE check = "mount_race"
  <2>1. call = "exec"
    BY <1>0, <1>3, WhereTolerated
  <2>2. Found = {Finding(<<"mount">>, "critical")} /\ StandIn(call) = <<"mount">>
    BY <1>3, <2>1 DEF Found, FindingsOf, StandIn, MountRace
  <2>3. QED
    BY <1>1, <2>2
<1>4. CASE check = "host_mount_health"
  <2>1. call = "usage"
    BY <1>0, <1>4, WhereTolerated
  <2>2. Found = {Finding(<<"mount">>, "critical")} /\ StandIn(call) = <<"mount">>
    BY <1>4, <2>1 DEF Found, FindingsOf, StandIn, HostMount, If
  <2>3. QED
    BY <1>1, <2>2
<1>5. CASE check = "plex_reachability"
  <2>1. Found = {Finding(<<"plex">>, "critical")} /\ StandIn(call) = <<"plex">>
    BY <1>0, <1>5 DEF Found, FindingsOf, StandIn, If, PlexReachability
  <2>2. QED
    BY <1>1, <2>1
<1>6. CASE check = "tautulli_reachability"
  <2>1. call = "ping"
    BY <1>0, <1>6, WhereTolerated
  <2>2. Found = {Finding(<<"tautulli">>, "warn")} /\ StandIn(call) = <<"tautulli">>
    BY <1>6, <2>1 DEF Found, FindingsOf, StandIn, If, TautulliReachability
  <2>3. QED
    BY <1>1, <2>2
<1>7. CASE check = "wrong_file_type"
  <2>1. Found = WrongFile(a, failed) /\ StandIn(call) = <<"inspect-errors">>
    BY <1>7 DEF Found, FindingsOf, StandIn
  <2>2. If(failed # {}, Finding(<<"inspect-errors">>, "warn"))
          = {Finding(<<"inspect-errors">>, "warn")}
    BY <1>0 DEF If
  <2>3. Finding(<<"inspect-errors">>, "warn") \in WrongFile(a, failed)
    BY <2>2, Zenon DEF WrongFile
  <2>4. QED
    BY <1>1, <2>1, <2>3
<1>8. check \in {"arr_health", "mount_race", "host_mount_health", "plex_reachability",
                 "tautulli_reachability", "wrong_file_type"}
  BY <1>0, WhereTolerated
<1>9. QED
  BY <1>2, <1>3, <1>4, <1>5, <1>6, <1>7, <1>8

LEMMA OutageInvHolds == FamilySpec => []OutageInv
<1>1. FamilyInit => OutageInv
  <2>1. FamilyInit => current = Idle /\ last = [st |-> "none", failed |-> {}]
    BY Zenon DEF FamilyInit
  <2>2. QED
    BY <2>1 DEF Idle, OutageInv, CurrentIsRun, FailuresTolerated, OutageTold
<1>2. OutageInv /\ [FamilyNext]_familyVars => OutageInv'
  <2> SUFFICES ASSUME OutageInv, [FamilyNext]_familyVars PROVE OutageInv'
    OBVIOUS
  <2> USE DEF OutageInv
  <2>1. PICK st, i, ans, failed, since :
          current = [st |-> st, i |-> i, ans |-> ans, failed |-> failed, since |-> since]
    BY DEF CurrentIsRun
  <2>2. ASSUME UNCHANGED <<check, open, last>> PROVE OutageTold'
    BY <2>2 DEF OutageTold, StandIn, Rank
  <2>3. ASSUME UNCHANGED <<check, current>> PROVE CurrentIsRun' /\ FailuresTolerated'
    BY <2>3 DEF CurrentIsRun, FailuresTolerated, Tolerated, AppUnreachable, PlexUnreachable,
             TautulliUnreachable, ProbeFailed, MountUnreadable, NotInspected
  <2>4. ASSUME current' = Idle PROVE CurrentIsRun' /\ FailuresTolerated'
    BY <2>4 DEF CurrentIsRun, FailuresTolerated, Idle
  <2>5. CASE StartCheck
    <3>1. OutageTold'
      <4>1. CASE NotConfigured
        BY <2>5, <4>1 DEF StartCheck, OutageTold
      <4>2. CASE ~NotConfigured
        BY <2>2, <2>5, <4>2 DEF StartCheck
      <4>3. QED
        BY <4>1, <4>2
    <3>2. check' = check /\ (current' = current \/ current' = [Idle EXCEPT !.st = "asking", !.since = now])
      BY <2>5 DEF StartCheck
    <3>3. CurrentIsRun' /\ FailuresTolerated'
      BY <2>3, <3>2 DEF CurrentIsRun, FailuresTolerated, Idle
    <3>4. QED
      BY <3>1, <3>3
  <2>6. CASE SkipCall
    <3>1. current' = [st |-> st, i |-> i + 1, ans |-> ans, failed |-> failed, since |-> since]
      BY <2>1, <2>6 DEF SkipCall
    <3>2. UNCHANGED <<check, open, last>>
      BY <2>6 DEF SkipCall
    <3>3. CurrentIsRun' /\ FailuresTolerated'
      BY <2>1, <3>1, <3>2 DEF CurrentIsRun, FailuresTolerated, Tolerated, AppUnreachable, PlexUnreachable,
             TautulliUnreachable, ProbeFailed, MountUnreadable, NotInspected
    <3>4. QED
      BY <2>2, <3>2, <3>3
  <2>7. CASE Answer
    <3>1. PICK a, s : current' = [st |-> st, i |-> i + 1, ans |-> a, failed |-> failed, since |-> s]
      BY <2>1, <2>7 DEF Answer
    <3>2. UNCHANGED <<check, open, last>>
      BY <2>7 DEF Answer
    <3>3. CurrentIsRun' /\ FailuresTolerated'
      BY <2>1, <3>1, <3>2 DEF CurrentIsRun, FailuresTolerated, Tolerated, AppUnreachable, PlexUnreachable,
             TautulliUnreachable, ProbeFailed, MountUnreadable, NotInspected
    <3>4. QED
      BY <2>2, <3>2, <3>3
  <2>8. CASE Fail
    <3> DEFINE call == NextCall
    <3>1. current' = [st |-> IF Tolerated(call) THEN st ELSE "broken", i |-> i + 1, ans |-> ans,
                     failed |-> failed \cup {call}, since |-> since]
      BY <2>1, <2>8 DEF Fail
    <3>2. UNCHANGED <<check, open, last>>
      BY <2>8 DEF Fail
    <3> HIDE DEF call
    <3>3. CurrentIsRun'
      BY <3>1 DEF CurrentIsRun
    <3>4. \A x : Tolerated(x)' <=> Tolerated(x)
      BY <3>2 DEF Tolerated, AppUnreachable, PlexUnreachable, TautulliUnreachable, ProbeFailed,
                  MountUnreadable, NotInspected
    <3>5. FailuresTolerated'
      <4>1. current'.st = "asking" => Tolerated(call) /\ st = "asking"
        BY <3>1
      <4>2. current'.failed = failed \cup {call} /\ current.st = st /\ current.failed = failed
        BY <2>1, <3>1
      <4>3. QED
        BY <3>4, <4>1, <4>2 DEF FailuresTolerated
    <3>6. QED
      BY <2>2, <3>2, <3>3, <3>5
  <2>9. CASE EndInError
    <3>1. current' = Idle /\ last'.st = "error"
      BY <2>9 DEF EndInError
    <3>2. QED
      BY <2>4, <3>1 DEF OutageTold
  <2>10. CASE EndRan
    <3>1. /\ current.st = "asking" /\ current' = Idle /\ check' = check
          /\ open' = FindingsOf(current.ans, current.failed, now)
          /\ last'.failed = current.failed
          /\ check = "service_update_available" => current.failed = {}
      BY <2>10 DEF EndRan
    <3>2. ASSUME NEW call \in current.failed
          PROVE  \E f \in open' : f.key = StandIn(call) /\ Rank(f) >= 2
      <4>1. \A x \in current.failed : Tolerated(x)
        BY <3>1 DEF FailuresTolerated
      <4>2. check # "service_update_available"
        BY <3>1
      <4>3. QED
        BY <3>1, <4>1, <4>2, FailureTold
    <3>3. OutageTold'
      BY <3>1, <3>2 DEF OutageTold, StandIn, Rank
    <3>4. QED
      BY <2>4, <3>1, <3>3
  <2>11. CASE UNCHANGED <<check, current, open, last>>
    BY <2>2, <2>3, <2>11
  <2>12. QED
    BY <2>5, <2>6, <2>7, <2>8, <2>9, <2>10, <2>11
       DEF FamilyNext, OtherCycle, Change, Tick, familyVars
<1>3. QED
  BY <1>1, <1>2, PTL DEF FamilySpec

(* A check that ran although calls failed shows a warning for each of them: no *)
(* outage of a service is ever taken for its health, in any of the checks.     *)
THEOREM OutageToldHolds == FamilySpec => []OutageTold
BY OutageInvHolds, PTL DEF OutageInv

-----------------------------------------------------------------------------
(* The download that was imported. *)

Downloads == {"torrents", "sonarr", "radarr"}
Importing == check = "qbit_completed_not_imported"

\* A history, and what of it matters: imports with a moment.
Moments(records) == \A r \in records : r.at \in Int

\* What a run of the check has been told so far, and that it still holds if no
\* service has changed since the run began.
Told ==
  /\ "torrents" \in config
  /\ current.i \in 1..4 /\ current.since \in Int /\ current.since <= now
  /\ "torrents" \in DOMAIN current.ans <=> current.i > 1
  /\ "sonarr" \in DOMAIN current.ans <=> current.i > 2 /\ "sonarr" \in config
  /\ "radarr" \in DOMAIN current.ans <=> current.i > 3 /\ "radarr" \in config
  /\ still > 0 =>
       /\ current.i > 1 => current.ans["torrents"] = world["torrents"]
       /\ \A app \in {"sonarr", "radarr"} \cap DOMAIN current.ans :
            current.ans[app] <=> Imported(app)

WorldTyped ==
  /\ config \subseteq Downloads
  /\ world = [call \in Downloads |-> world[call]]
  /\ world["torrents"].done \in Int /\ Moments(world["sonarr"]) /\ Moments(world["radarr"])
  /\ now \in Int /\ still \in Int

FlagInv ==
  Importing => WorldTyped /\ (current.st = "asking" => Told)

\* The calls of this check, in order.
LEMMA ImportCalls ==
  ASSUME Importing
  PROVE  /\ Calls[check] = <<"torrents", "sonarr", "radarr">>
         /\ CallsOf(check) = Downloads
<1>1. Calls[check] = <<"torrents", "sonarr", "radarr">>
  BY DEF Importing, Calls
<1>2. CallsOf(check) = Downloads
  <2>1. Len(Calls[check]) = 3 /\ 1..3 = {1, 2, 3}
    BY <1>1
  <2>2. CallsOf(check) = {Calls[check][i] : i \in {1, 2, 3}}
    BY <2>1 DEF CallsOf
  <2>3. QED
    BY <1>1, <2>2 DEF Downloads
<1>3. QED
  BY <1>1, <1>2

LEMMA NextImportCall ==
  ASSUME Importing, Told
  PROVE  /\ Asking => current.st = "asking" /\ current.i \in 1..3
         /\ current.i = 1 => NextCall = "torrents"
         /\ current.i = 2 => NextCall = "sonarr"
         /\ current.i = 3 => NextCall = "radarr"
         /\ current.i \in 1..3 => (Needed(NextCall) <=> NextCall \in config)
<1>1. Len(Calls[check]) = 3
  BY ImportCalls
<1>2. Asking => current.st = "asking" /\ current.i \in 1..3
  BY <1>1 DEF Asking, Told
<1>3. /\ current.i = 1 => NextCall = "torrents"
      /\ current.i = 2 => NextCall = "sonarr"
      /\ current.i = 3 => NextCall = "radarr"
  BY ImportCalls DEF NextCall
<1>4. Needed(NextCall) <=> NextCall \in config
  BY DEF Importing, Needed
<1>5. QED
  BY <1>2, <1>3, <1>4

LEMMA FlagInit == FamilyInit => FlagInv
<1> SUFFICES ASSUME FamilyInit, Importing PROVE WorldTyped /\ (current.st = "asking" => Told)
  BY DEF FlagInv
<1>1. current.st # "asking" /\ now = 1 /\ still = 0
  BY DEF FamilyInit, Idle
<1>2. config \subseteq Downloads
  <2>1. config \in Configs(check)
    BY DEF FamilyInit
  <2>2. Configs(check) =
          {{}, {"torrents"}, {"torrents", "sonarr"}, CallsOf(check)}
    BY DEF Importing, Configs, ArrChecks
  <2>3. QED
    BY <2>1, <2>2, ImportCalls DEF Downloads
<1>3. PICK title, requester :
        world = [call \in Downloads |-> Quiet(check, call, title, requester)]
  BY ImportCalls DEF FamilyInit
<1>4. /\ Quiet(check, "torrents", title, requester) = [done |-> 0, category |-> TRUE]
      /\ Quiet(check, "sonarr", title, requester) = {}
      /\ Quiet(check, "radarr", title, requester) = {}
  BY DEF Importing, Quiet, Torrents, Paths
<1>5. QED
  BY <1>1, <1>2, <1>3, <1>4 DEF WorldTyped, Downloads, Moments

\* Only these steps say what a run is told; the run keeps its fields.
LEMMA AnswerStep ==
  ASSUME Importing, CurrentIsRun, WorldTyped, Told, Limits.ArrHistoryWindow \in Int,
         Answer
  PROVE  Told'
<1> DEFINE call == NextCall
<1>1. PICK i, a, s : i = current.i /\ a = current.ans /\ s = current.since
  OBVIOUS
<1>2. /\ current'.i = i + 1
      /\ current'.ans = [x \in DOMAIN a \cup {call} |-> IF x = call THEN Reply(x) ELSE a[x]]
      /\ current'.since = IF call = "torrents" THEN now ELSE s
  BY <1>1 DEF Answer, CurrentIsRun
<1>3. UNCHANGED <<check, config, world, now, still>>
  BY DEF Answer
<1>4. i \in 1..3 /\ call \in config
  BY <1>1, NextImportCall DEF Answer
<1>5. /\ "torrents" \in config
      /\ "torrents" \in DOMAIN a <=> i > 1
      /\ "sonarr" \in DOMAIN a <=> i > 2 /\ "sonarr" \in config
      /\ "radarr" \in DOMAIN a <=> i > 3 /\ "radarr" \in config
      /\ s \in Int /\ s <= now
      /\ still > 0 =>
           /\ i > 1 => a["torrents"] = world["torrents"]
           /\ \A app \in {"sonarr", "radarr"} \cap DOMAIN a : a[app] <=> Imported(app)
  BY <1>1 DEF Told
<1>6. (i = 1 => call = "torrents") /\ (i = 2 => call = "sonarr") /\ (i = 3 => call = "radarr")
  BY <1>1, NextImportCall
<1>7. now \in Int
  BY DEF WorldTyped
<1>8. Reply("torrents") = world["torrents"]
  BY DEF Reply, Importing, Apps
<1>9. \A app \in {"sonarr", "radarr"} : Reply(app) = Imported(app)
  BY DEF Reply, Importing, Apps
<1> HIDE DEF call
<1>10. /\ current'.i \in 1..4 /\ current'.since \in Int /\ current'.since <= now
       /\ "torrents" \in DOMAIN current'.ans <=> current'.i > 1
       /\ "sonarr" \in DOMAIN current'.ans <=> current'.i > 2 /\ "sonarr" \in config
       /\ "radarr" \in DOMAIN current'.ans <=> current'.i > 3 /\ "radarr" \in config
  BY <1>2, <1>4, <1>5, <1>6, <1>7
<1>11. still > 0 => current'.ans["torrents"] = world["torrents"]
  BY <1>2, <1>4, <1>5, <1>6, <1>8
<1>12. ASSUME still > 0, NEW app \in {"sonarr", "radarr"} \cap DOMAIN current'.ans
       PROVE  current'.ans[app] <=> Imported(app)'
  <2>1. call # "torrents"
    BY <1>2, <1>4, <1>5, <1>6, <1>12
  <2>2. Imported(app)' <=> Imported(app)
    BY <1>1, <1>2, <1>3, <2>1 DEF Imported
  <2>3. CASE app = call
    BY <1>2, <1>9, <2>2, <2>3
  <2>4. CASE app # call
    BY <1>2, <1>5, <1>12, <2>2, <2>4
  <2>5. QED
    BY <2>3, <2>4
<1>13. QED
  BY <1>3, <1>10, <1>11, <1>12 DEF Told

LEMMA ChangeStep ==
  ASSUME Importing, WorldTyped, NEW call \in config, Change(call)
  PROVE  WorldTyped' /\ still' = 0
<1>1. call \in Downloads /\ now \in Int
  BY DEF WorldTyped
<1>2. PICK v \in Answers(check, call, now) : world' = [world EXCEPT ![call] = v]
  BY DEF Change
<1>3. UNCHANGED <<config, now>> /\ still' = 0
  BY DEF Change
<1>4. IF call = "torrents" THEN v.done \in Int ELSE Moments(v)
  <2>1. CASE call = "torrents"
    <3>1. Answers(check, call, now) = [done : {0, now}, category : BOOLEAN]
      BY <2>1 DEF Importing, Answers, Torrents, Paths
    <3>2. v.done \in {0, now}
      BY <1>2, <3>1
    <3>3. QED
      BY <1>1, <2>1, <3>2
  <2>2. CASE call \in {"sonarr", "radarr"}
    <3>1. Answers(check, call, now) =
            {world[call] \cup {r} : r \in {x \in [at : {now}, id : BOOLEAN] : world["torrents"].done # 0}}
      BY <2>2 DEF Importing, Answers, Torrents, Paths
    <3>2. PICK r \in [at : {now}, id : BOOLEAN] : v = world[call] \cup {r}
      BY <1>2, <3>1
    <3>3. r.at \in Int /\ Moments(world[call])
      BY <1>1, <2>2 DEF WorldTyped
    <3>4. QED
      BY <2>2, <3>2, <3>3 DEF Moments
  <2>3. QED
    BY <1>1, <2>1, <2>2 DEF Downloads
<1>5. world = [c \in Downloads |-> world[c]]
  BY DEF WorldTyped
<1>6. world' = [c \in Downloads |-> IF c = call THEN v ELSE world[c]]
  BY <1>1, <1>2, <1>5
<1>7. /\ world'["torrents"].done \in Int /\ Moments(world'["sonarr"]) /\ Moments(world'["radarr"])
      /\ world' = [c \in Downloads |-> world'[c]]
  BY <1>1, <1>4, <1>6 DEF WorldTyped, Downloads
<1>8. QED
  BY <1>3, <1>7 DEF WorldTyped, Moments

(* A run that ends flags the download only if no configured app has imported it under its id. *)
LEMMA EndFlags ==
  ASSUME Importing, WorldTyped, Told, Limits.ArrHistoryWindow \in Int,
         EndRan, still > 0, open' # {}, NEW app \in config \cap Apps,
         NEW r \in world[app], r.id
  PROVE  r.at < world["torrents"].done
<1> DEFINE x == world["torrents"]
<1>1. current.i = 4
  <2>1. Len(Calls[check]) = 3
    BY ImportCalls
  <2>2. QED
    BY <2>1 DEF EndRan, Told
<1>2. current.ans["torrents"] = x
  BY <1>1 DEF Told
<1>3. app \in {"sonarr", "radarr"} \cap DOMAIN current.ans
  BY <1>1 DEF Told, WorldTyped, Downloads, Apps
<1>4. open' = NotImported(current.ans, now)
  BY DEF Importing, EndRan, FindingsOf
<1>5. now - x.done <= Limits.ArrHistoryWindow /\ ~current.ans[app]
  <2>1. app \in Asked(current.ans, Apps)
    BY <1>3 DEF Asked
  <2>2. QED
    BY <1>2, <1>4, <2>1 DEF NotImported, If
<1>6. ~Imported(app)
  BY <1>3, <1>5 DEF Told
<1>7. x.done \in Int /\ now \in Int /\ r.at \in Int /\ current.since \in Int /\ current.since <= now
  BY <1>3 DEF WorldTyped, Told, Moments
<1>8. QED
  BY <1>5, <1>6, <1>7 DEF Imported

LEMMA FlagStep ==
  ASSUME CurrentIsRun, FlagInv, Limits.ArrHistoryWindow \in Int,
         [FamilyNext]_familyVars
  PROVE  FlagInv'
<1> SUFFICES ASSUME Importing' PROVE WorldTyped' /\ (current'.st = "asking" => Told')
  BY DEF FlagInv
<1>0. Importing
  BY DEF Importing, FamilyNext, StartCheck, SkipCall, Answer, Fail,
         EndInError, EndRan, OtherCycle, Change, Tick,
         familyVars
<1>1. WorldTyped /\ (current.st = "asking" => Told) /\ now \in Int /\ still \in Int
  BY <1>0 DEF FlagInv, WorldTyped
<1>2. ASSUME UNCHANGED <<config, world, now, still>> PROVE WorldTyped'
  BY <1>1, <1>2 DEF WorldTyped
<1>3. ASSUME UNCHANGED <<config, world, now, current, still>> PROVE current'.st = "asking" => Told'
  BY <1>1, <1>3 DEF Told, Imported
<1>4. CASE StartCheck
  <2>1. UNCHANGED <<config, world, now>> /\ still' \in Int
    BY <1>1, <1>4 DEF StartCheck
  <2>2. WorldTyped'
    BY <1>1, <2>1 DEF WorldTyped
  <2>3. CASE NotConfigured
    BY <1>4, <2>2, <2>3 DEF StartCheck
  <2>4. CASE ~NotConfigured
    <3>1. current' = [st |-> "asking", i |-> 1, ans |-> << >>, failed |-> {}, since |-> now]
      BY <1>4, <2>4 DEF StartCheck, Idle
    <3>2. "torrents" \in config
      BY <1>0, <2>4 DEF Importing, NotConfigured, ArrChecks
    <3>3. DOMAIN current'.ans = {}
      BY <3>1
    <3>4. Told'
      BY <1>1, <2>1, <3>1, <3>2, <3>3 DEF Told
    <3>5. QED
      BY <2>2, <3>4
  <2>5. QED
    BY <2>3, <2>4
<1>5. CASE SkipCall
  <2>1. UNCHANGED <<config, world, now, still>>
    BY <1>5 DEF SkipCall
  <2>2. current.st = "asking" /\ current.i \in 1..3 /\ Told
    BY <1>0, <1>1, <1>5, NextImportCall DEF SkipCall, Asking
  <2>3. NextCall \notin config
    BY <1>0, <1>5, <2>2, NextImportCall DEF SkipCall
  <2>4. /\ current'.i = current.i + 1 /\ current'.ans = current.ans /\ current'.since = current.since
    BY <1>5 DEF SkipCall, CurrentIsRun
  <2>5. Told'
    BY <1>0, <2>1, <2>2, <2>3, <2>4, NextImportCall DEF Told, Imported
  <2>6. QED
    BY <1>2, <2>1, <2>5
<1>6. CASE Answer
  <2>1. Told
    BY <1>1, <1>6 DEF Answer, Asking
  <2>2. UNCHANGED <<config, world, now, still>>
    BY <1>6 DEF Answer
  <2>3. QED
    BY <1>0, <1>1, <1>2, <1>6, <2>1, <2>2, AnswerStep
<1>7. CASE Fail
  <2>1. current'.st = "broken"
    <3>1. ~Tolerated(NextCall)
      BY <1>0, WhereTolerated DEF Importing
    <3>2. QED
      BY <1>7, <3>1 DEF Fail, CurrentIsRun
  <2>2. UNCHANGED <<config, world, now, still>>
    BY <1>7 DEF Fail
  <2>3. QED
    BY <1>2, <2>1, <2>2
<1>8. CASE EndInError \/ EndRan
  <2>1. current'.st = "idle" /\ UNCHANGED <<config, world, now, still>>
    BY <1>8 DEF EndInError, EndRan, Idle
  <2>2. QED
    BY <1>2, <2>1
<1>9. ASSUME NEW call \in config, Change(call)
      PROVE  WorldTyped' /\ (current'.st = "asking" => Told')
  <2>1. WorldTyped' /\ still' = 0
    BY <1>0, <1>1, <1>9, ChangeStep
  <2>2. UNCHANGED <<config, now, current>>
    BY <1>9 DEF Change
  <2>3. QED
    BY <1>1, <2>1, <2>2 DEF Told
<1>10. CASE Tick
  <2>1. now' = now + 1 /\ UNCHANGED <<config, world, current, still>>
    BY <1>10 DEF Tick
  <2>2. QED
    BY <1>1, <2>1 DEF WorldTyped, Told, Imported
<1>11. CASE UNCHANGED <<config, world, now, current, still>>
  BY <1>2, <1>3, <1>11
<1>12. QED
  BY <1>4, <1>5, <1>6, <1>7, <1>8, <1>9, <1>10, <1>11
     DEF FamilyNext, OtherCycle, familyVars

LEMMA CurrentRecord == FamilySpec => []CurrentIsRun
BY OutageInvHolds, PTL DEF OutageInv

(* For any window and ages: while the services stand still during the run, a   *)
(* download is flagged only if no configured app has imported it under its id  *)
(* since it was completed; what was imported by hand carries no id and does    *)
(* not count, as in the code.  The window is fixed before the histories are    *)
(* asked for, the age is judged after, and the later the judgement the fewer   *)
(* downloads it flags.                                                         *)
THEOREM FlaggedIsUnimportedHolds ==
  ASSUME Limits.ArrHistoryWindow \in Int
  PROVE  FamilySpec => FlaggedIsUnimported
<1> DEFINE Step == (EndRan /\ Importing /\ still > 0 /\ open' # {})
             => \A app \in config \cap Apps :
                  \A r \in world[app] : r.id => r.at < world["torrents"].done
<1>1. FamilyInit => FlagInv
  BY FlagInit
<1>2. CurrentIsRun /\ FlagInv /\ [FamilyNext]_familyVars => FlagInv'
  BY FlagStep
<1>3. FlagInv => Step
  <2> SUFFICES ASSUME FlagInv, EndRan, Importing, still > 0, open' # {},
                      NEW app \in config \cap Apps, NEW r \in world[app], r.id
               PROVE  r.at < world["torrents"].done
    OBVIOUS
  <2>1. WorldTyped /\ Told
    BY DEF FlagInv, EndRan
  <2>2. QED
    BY <2>1, EndFlags
<1>4. FlagInv => [Step]_familyVars
  BY <1>3
<1>5. QED
  BY <1>1, <1>2, <1>4, CurrentRecord, PTL DEF FamilySpec, FlaggedIsUnimported, Importing

==============================================================================
