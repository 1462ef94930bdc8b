-------------------------- MODULE FindingLifecycle --------------------------
(***************************************************************************)
(* What the findings table promises its readers (the dashboard, the        *)
(* digests, the escalations), without reports, transactions or rows: every *)
(* key has one current incident.  An incident opens, may be put to sleep   *)
(* until some time, wakes when that time is over, and is resolved once and *)
(* for all; a problem that comes back is a new incident.  One step changes *)
(* the incidents of one node (a report of it) or puts every running        *)
(* incident of one entity to sleep (a keep decision).                      *)
(***************************************************************************)
EXTENDS Integers

CONSTANTS Nodes, Checks, Entities

VARIABLES
  clock,     \* the time
  status,    \* status[k]: the state of the current incident of k
  wakes,     \* wakes[k]: when a sleeping incident may wake
  incident   \* incident[k]: how many incidents of k there have been

lifeVars == <<clock, status, wakes, incident>>

Incidents == Nodes \X Checks \X Entities

Running(k) == status[k] \in {"open", "snoozed"}

LifeInit ==
  /\ clock = 0
  /\ status = [k \in Incidents |-> "none"]
  /\ wakes = [k \in Incidents |-> -1]
  /\ incident = [k \in Incidents |-> 0]

Stays(k) ==
  status'[k] = status[k] /\ wakes'[k] = wakes[k] /\ incident'[k] = incident[k]

Opens(k) ==
  /\ ~Running(k) /\ status'[k] = "open"
  /\ wakes'[k] = -1 /\ incident'[k] = incident[k] + 1

Wakes(k) ==
  /\ status[k] = "snoozed" /\ wakes[k] <= clock
  /\ status'[k] = "open" /\ wakes'[k] = -1 /\ incident'[k] = incident[k]

Resolves(k) ==
  /\ Running(k) /\ status'[k] = "resolved"
  /\ wakes'[k] = wakes[k] /\ incident'[k] = incident[k]

\* A report of node n: its incidents move independently, the others stay.
Reported(n) ==
  /\ \A k \in Incidents :
       Stays(k) \/ (k[1] = n /\ (Opens(k) \/ Wakes(k) \/ Resolves(k)))
  /\ clock' = clock

\* A keep decision on entity e: all its running incidents, until one time.
Slept(e) == {k \in Incidents : k[3] = e /\ Running(k)}

Kept(e) ==
  /\ \A k \in Incidents \ Slept(e) : Stays(k)
  /\ \A k \in Slept(e) :
       /\ status'[k] = "snoozed" /\ wakes'[k] > clock /\ incident'[k] = incident[k]
       /\ \A j \in Slept(e) : wakes'[j] = wakes'[k]
  /\ clock' = clock

Passes == clock' > clock /\ \A k \in Incidents : Stays(k)

LifeNext ==
  \/ \E n \in Nodes : Reported(n)
  \/ \E e \in Entities : Kept(e)
  \/ Passes

LifeSpec == LifeInit /\ [][LifeNext]_lifeVars

=============================================================================
