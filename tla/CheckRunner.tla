----------------------------- MODULE CheckRunner -----------------------------
(***************************************************************************)
(* check.Run and runOne: one cadence's checks run one after the other,     *)
(* each in a goroutine that is raced against a deadline and abandoned when *)
(* it does not answer, over several runs of the same checks.  A check may  *)
(* hang in a system call on a dead mount: then neither the deadline nor a  *)
(* cancelled context gives its goroutine back.                             *)
(*                                                                         *)
(* FindingStore's CheckRan and CheckFailed are what this module makes of   *)
(* one check; a finding is represented by the goroutine that produced it.  *)
(***************************************************************************)
EXTENDS Integers, Sequences, FiniteSets

CONSTANTS
  Checks,    \* check ids
  Order,     \* the checks of the run, in registry order
  MaxRuns    \* bound: how many runs are started

ASSUME OrderAssumption ==
  /\ Order \in Seq(Checks)
  /\ \A i, j \in 1..Len(Order) : Order[i] = Order[j] => i = j

ASSUME RunnerBounds == MaxRuns \in Nat

VARIABLES
  run,        \* how many runs have been started
  pc,         \* "idle", or where Run is: "loop" or runOne's "select"
  pos,        \* the index in Order of the current check
  gor,        \* gor[g]: what goroutine g is doing
  result,     \* result[g]: the outcome g computed
  chan,       \* chan[h]: the buffer of channel h
  expired,    \* the deadline of the current runOne has passed
  cancelled,  \* the caller's context is done
  rep         \* the Report being built, then returned

vars == <<run, pc, pos, gor, result, chan, expired, cancelled, rep>>

-----------------------------------------------------------------------------

\* The goroutine of check c in run n is <<n, c>>.
Goroutines == (1..MaxRuns) \X Checks

Outcomes == {"ok", "notConfigured", "failed"}  \* a panic is recovered into an error

EmptyReport == [ran |-> << >>, skipped |-> << >>, errors |-> << >>, findings |-> {}]

Current == <<run, Order[pos]>>

\* Mutant: one channel per check, made once and kept across runs.
Done_PerCheck(g) == <<1, g[2]>>

\* done := make(chan outcome, 1): every call of runOne has its own channel.
Done(g) == g

RangeOf(s) == {s[i] : i \in 1..Len(s)}

\* runOne returned an outcome of the goroutine g.
Answered(g) ==
  LET c == Order[pos] IN
  CASE result[g] = "notConfigured" -> [rep EXCEPT !.skipped = Append(@, c)]
    [] result[g] = "failed" -> [rep EXCEPT !.errors = Append(@, c)]
    [] OTHER -> [rep EXCEPT !.ran = Append(@, c), !.findings = @ \cup {g}]

Init ==
  /\ run = 0 /\ pc = "idle" /\ pos = 1
  /\ gor = [g \in Goroutines |-> "none"]
  /\ result = [g \in Goroutines |-> "ok"]
  /\ chan = [g \in Goroutines |-> {}]
  /\ expired = FALSE /\ cancelled = FALSE
  /\ rep = EmptyReport

\* The scheduler calls Run again.
StartRun ==
  /\ pc = "idle" /\ ~cancelled /\ run < MaxRuns
  /\ run' = run + 1 /\ pc' = "loop" /\ pos' = 1 /\ rep' = EmptyReport
  /\ UNCHANGED <<gor, result, chan, expired, cancelled>>

\* runOne: a fresh deadline, and the goroutine is started.
Launch ==
  /\ pc = "loop" /\ pos <= Len(Order)
  /\ gor' = [gor EXCEPT ![Current] = "running"]
  /\ expired' = FALSE /\ pc' = "select"
  /\ UNCHANGED <<run, pos, result, chan, cancelled, rep>>

\* The loop of Run is over: the report is returned.
FinishRun ==
  /\ pc = "loop" /\ pos > Len(Order)
  /\ pc' = "idle"
  /\ UNCHANGED <<run, pos, gor, result, chan, expired, cancelled, rep>>

\* c.Run returns or panics, in time, long after runOne has given up on it, or
\* never: a system call on a dead mount does not come back.
CheckReturns(g, o) ==
  /\ gor[g] = "running"
  /\ gor' = [gor EXCEPT ![g] = "sending"]
  /\ result' = [result EXCEPT ![g] = o]
  /\ UNCHANGED <<run, pc, pos, chan, expired, cancelled, rep>>

\* Mutant: an unbuffered channel, where a send needs a waiting receiver.
Send_Unbuffered(g) ==
  /\ gor[g] = "sending" /\ pc = "select" /\ Current = g
  /\ chan' = [chan EXCEPT ![Done(g)] = @ \cup {g}]
  /\ gor' = [gor EXCEPT ![g] = "ended"]
  /\ UNCHANGED <<run, pc, pos, result, expired, cancelled, rep>>

\* done <- outcome: needs a free slot of the buffer and no receiver.
Send(g) ==
  /\ gor[g] = "sending" /\ chan[Done(g)] = {}
  /\ chan' = [chan EXCEPT ![Done(g)] = {g}]
  /\ gor' = [gor EXCEPT ![g] = "ended"]
  /\ UNCHANGED <<run, pc, pos, result, expired, cancelled, rep>>

\* context.WithTimeout fires.
Deadline ==
  /\ pc = "select" /\ ~expired /\ expired' = TRUE
  /\ UNCHANGED <<run, pc, pos, gor, result, chan, cancelled, rep>>

\* select, case o := <-done; Run files the outcome under its list.
TakeResult ==
  /\ pc = "select"
  /\ \E g \in chan[Done(Current)] :
       /\ chan' = [chan EXCEPT ![Done(Current)] = {}]
       /\ rep' = Answered(g)
  /\ pc' = "loop" /\ pos' = pos + 1
  /\ UNCHANGED <<run, gor, result, expired, cancelled>>

\* Mutants: the error of a check that timed out is dropped; runOne waits for
\* the goroutine it has cancelled.
TakeTimeout_Silent ==
  /\ pc = "select" /\ (expired \/ cancelled)
  /\ pc' = "loop" /\ pos' = pos + 1
  /\ UNCHANGED <<run, gor, result, chan, expired, cancelled, rep>>

TakeTimeout_Waits ==
  /\ pc = "select" /\ (expired \/ cancelled) /\ gor[Current] = "ended"
  /\ rep' = [rep EXCEPT !.errors = Append(@, Order[pos])]
  /\ pc' = "loop" /\ pos' = pos + 1
  /\ UNCHANGED <<run, gor, result, chan, expired, cancelled>>

\* select, case <-cctx.Done(): the goroutine is abandoned.  When an outcome
\* is ready too, select picks either case.
TakeTimeout ==
  /\ pc = "select" /\ (expired \/ cancelled)
  /\ rep' = [rep EXCEPT !.errors = Append(@, Order[pos])]
  /\ pc' = "loop" /\ pos' = pos + 1
  /\ UNCHANGED <<run, gor, result, chan, expired, cancelled>>

\* The daemon shuts down, or the user interrupts the command.
Cancel ==
  /\ ~cancelled /\ cancelled' = TRUE
  /\ UNCHANGED <<run, pc, pos, gor, result, chan, expired, rep>>

Next ==
  \/ StartRun \/ Launch \/ FinishRun \/ Deadline \/ TakeResult \/ TakeTimeout \/ Cancel
  \/ \E g \in Goroutines : Send(g) \/ \E o \in Outcomes : CheckReturns(g, o)

Spec == Init /\ [][Next]_vars

\* The Go scheduler runs what can run and timers fire.  Nothing is assumed of
\* the checks: CheckReturns may never happen.
FairSpec ==
  /\ Spec
  /\ WF_vars(Launch) /\ WF_vars(FinishRun) /\ WF_vars(Deadline)
  /\ WF_vars(TakeResult \/ TakeTimeout)
  /\ \A g \in Goroutines : WF_vars(Send(g))

-----------------------------------------------------------------------------

\* Every variable keeps its type.
TypeOK ==
  /\ run \in 0..MaxRuns /\ pc \in {"idle", "loop", "select"}
  /\ pos \in 1..(Len(Order) + 1) /\ (pc = "select" => pos <= Len(Order) /\ run > 0)
  /\ gor \in [Goroutines -> {"none", "running", "sending", "ended"}]
  /\ result \in [Goroutines -> Outcomes]
  /\ chan \in [Goroutines -> SUBSET Goroutines]
  /\ expired \in BOOLEAN /\ cancelled \in BOOLEAN
  /\ rep \in [ran : Seq(Checks), skipped : Seq(Checks), errors : Seq(Checks),
              findings : SUBSET Goroutines]

\* Every check that Run is done with is in exactly one of Ran, Skipped and
\* Errors, once, whichever way the deadline, the answer, a panic and a
\* cancellation race: ChecksRun + len(Skipped) counts them all.
Accounted ==
  /\ Len(rep.ran) + Len(rep.skipped) + Len(rep.errors) = pos - 1
  /\ {Order[i] : i \in 1..(pos - 1)} =
       RangeOf(rep.ran) \cup RangeOf(rep.skipped) \cup RangeOf(rep.errors)

\* A report holds the findings of its own run only, and those of a check
\* exactly when the check is in Ran: the late answer of a goroutine that an
\* earlier run, or this one, abandoned never gets in.
OwnFindings ==
  rep.findings = {<<run, c>> : c \in RangeOf(rep.ran)}

\* A run that has started returns, even when every check hangs for ever.
RunReturns == (pc # "idle") ~> (pc = "idle")

\* A check that has returned, however late, lets its goroutine go: no sender
\* stays blocked on a channel nobody reads.
SendersEnd == \A g \in Goroutines : (gor[g] = "sending") ~> (gor[g] = "ended")

=============================================================================
