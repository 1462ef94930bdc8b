------------------------- MODULE AgentLifecycleProofs -------------------------
(***************************************************************************)
(* The safety of the daemon's start and stop, for any number of servers    *)
(* and cron jobs and any number of requests and firings.                   *)
(*                                                                         *)
(* NilMeansAsked rests on where a nil can come from: a server puts one in  *)
(* its channel only when runCtx is done (Contexts, NilResults), and until  *)
(* Run has left its select only a signal can have ended runCtx.            *)
(* JobsBeforeClose rests on Run's order: cron is stopped before the wait,  *)
(* so a job that is idle at the end of the wait stays idle (CronOrder).    *)
(***************************************************************************)
EXTENDS AgentLifecycle, TLAPS

\* runCtx is a child of ctx, and only Run's way out ends it otherwise.
Contexts ==
  /\ ctxDone => runDone
  /\ runDone /\ ~ctxDone => pc \in {"stop", "drain", "returned", "closed"}
  /\ pc = "join" => ctxDone

\* A server that ends well was told to.
NilResults ==
  /\ \A s \in Servers : serv[s] = "closing" => runDone
  /\ \A s \in Servers : chan[s] = "nil" => runDone
  /\ outcome = "nil" => ctxDone

\* Cron is not started before Run is through its start, and once Run has
\* returned it is not running and nothing it started is.
CronOrder ==
  /\ pc \in {"new", "cycle"} => cron = "new"
  /\ cron = "new" => \A j \in Jobs : job[j] = "idle"
  /\ pc = "drain" => cron = "stopped"
  /\ pc \in {"returned", "closed"} =>
       cron # "running" /\ \A j \in Jobs : job[j] = "idle"
  /\ store = "closed" => pc = "closed"

LifecycleInv == TypeOK /\ Contexts /\ NilResults /\ CronOrder

-----------------------------------------------------------------------------

\* The daemon starts with nothing running and no context ended.
LEMMA InitLifecycle == Init => LifecycleInv
<1> SUFFICES ASSUME Init PROVE LifecycleInv OBVIOUS
<1>1. TypeOK BY DEF Init, TypeOK
<1>2. Contexts BY DEF Init, Contexts
<1>3. NilResults BY DEF Init, NilResults
<1>4. CronOrder BY DEF Init, CronOrder
<1> QED BY <1>1, <1>2, <1>3, <1>4 DEF LifecycleInv

\* A step of Run or of runAgentServe keeps the invariant.
LEMMA RunKeepsLifecycle == LifecycleInv /\ RunStep => LifecycleInv'
<1> USE DEF LifecycleInv, TypeOK, Contexts, NilResults, CronOrder
<1> SUFFICES ASSUME LifecycleInv, RunStep PROVE LifecycleInv' OBVIOUS
<1>1. CASE RunRefuses BY <1>1 DEF RunRefuses, config, counts
<1>2. CASE StartServers BY <1>2 DEF StartServers, config, counts
<1>3. CASE InitialCycle BY <1>3 DEF InitialCycle, config, counts
<1>4. CASE SelectCtx BY <1>4 DEF SelectCtx, config, counts
<1>5. CASE JoinServers BY <1>5 DEF JoinServers, config, counts
<1>6. CASE CancelJobs BY <1>6 DEF CancelJobs, config, counts
<1>7. CASE StopCron BY <1>7 DEF StopCron, config, counts
<1>8. CASE DrainJobs BY <1>8 DEF DrainJobs, config, counts
<1>9. CASE CloseStore BY <1>9 DEF CloseStore, config, counts
<1>10. ASSUME NEW s \in Servers, SelectServer(s) PROVE LifecycleInv'
  BY <1>10 DEF SelectServer, config, counts
<1> QED BY <1>1, <1>2, <1>3, <1>4, <1>5, <1>6, <1>7, <1>8, <1>9, <1>10 DEF RunStep

\* So does a step of a server, which may start or end a request too.
LEMMA ServerKeepsLifecycle ==
  ASSUME LifecycleInv, NEW s \in Servers, ServerStep(s) \/ Request(s) \/ RequestEnds(s)
  PROVE  LifecycleInv'
<1> USE DEF LifecycleInv, TypeOK, Contexts, NilResults, CronOrder
<1>1. CASE Bind(s) BY <1>1 DEF Bind, config, counts
<1>2. CASE ServerFails(s) BY <1>2 DEF ServerFails, Exits, config, counts
<1>3. CASE BeginShutdown(s) BY <1>3 DEF BeginShutdown, config, counts
<1>4. CASE EndShutdown(s) BY <1>4 DEF EndShutdown, Exits, config, counts
<1>5. CASE Request(s) BY <1>5 DEF Request, config
<1>6. CASE RequestEnds(s) BY <1>6 DEF RequestEnds, config, counts
<1> QED BY <1>1, <1>2, <1>3, <1>4, <1>5, <1>6 DEF ServerStep

\* So does a job that is started, blocks or ends.
LEMMA JobKeepsLifecycle ==
  ASSUME LifecycleInv, NEW j \in Jobs, Fire(j) \/ JobBlocks(j) \/ JobEnds(j)
  PROVE  LifecycleInv'
<1> USE DEF LifecycleInv, TypeOK, Contexts, NilResults, CronOrder
<1>1. CASE Fire(j) BY <1>1 DEF Fire, config
<1>2. CASE JobBlocks(j) BY <1>2 DEF JobBlocks, config, counts
<1>3. CASE JobEnds(j) BY <1>3 DEF JobEnds, config, counts
<1> QED BY <1>1, <1>2, <1>3

\* Every behaviour of the daemon keeps the invariant.
THEOREM LifecycleInvariant == Spec => []LifecycleInv
<1>1. LifecycleInv /\ [Next]_vars => LifecycleInv'
  <2> SUFFICES ASSUME LifecycleInv, [Next]_vars PROVE LifecycleInv' OBVIOUS
  <2>1. CASE Signal
    BY <2>1 DEF Signal, config, counts, LifecycleInv, TypeOK, Contexts, NilResults, CronOrder
  <2>2. CASE RunStep BY <2>2, RunKeepsLifecycle
  <2>3. ASSUME NEW s \in Servers, ServerStep(s) \/ Request(s) \/ RequestEnds(s)
        PROVE  LifecycleInv'
    BY <2>3, ServerKeepsLifecycle
  <2>4. ASSUME NEW j \in Jobs, Fire(j) \/ JobBlocks(j) \/ JobEnds(j)
        PROVE  LifecycleInv'
    BY <2>4, JobKeepsLifecycle
  <2>5. CASE UNCHANGED vars
    BY <2>5 DEF vars, config, counts, LifecycleInv, TypeOK, Contexts, NilResults, CronOrder
  <2> QED BY <2>1, <2>2, <2>3, <2>4, <2>5 DEF Next
<1> QED BY InitLifecycle, <1>1, PTL DEF Spec

-----------------------------------------------------------------------------

\* However Run is left, no job works on the closed store and none can start.
THEOREM JobsBeforeCloseHolds == Spec => []JobsBeforeClose
<1>1. LifecycleInv => JobsBeforeClose
  BY DEF LifecycleInv, CronOrder, JobsBeforeClose
<1> QED BY <1>1, LifecycleInvariant, PTL

\* Run returns nil only after a signal: a server that ends by itself, at any
\* moment of the start or of the shutdown, is never taken for a success.
THEOREM NilMeansAskedHolds == Spec => []NilMeansAsked
<1>1. LifecycleInv => NilMeansAsked
  BY DEF LifecycleInv, NilResults, NilMeansAsked
<1> QED BY <1>1, LifecycleInvariant, PTL

=============================================================================
