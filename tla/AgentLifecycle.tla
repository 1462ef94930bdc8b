---------------------------- MODULE AgentLifecycle ----------------------------
(***************************************************************************)
(* The daemon's life: Agent.Run starts the peer server and the web server, *)
(* runs one check cycle, starts cron, and waits for a signal or for a      *)
(* server that fails; then it cancels the jobs, waits for them and returns *)
(* to runAgentServe, which closes the store.  Servers, requests and jobs   *)
(* run in goroutines of their own the whole time.                          *)
(*                                                                         *)
(* A request is not cancelled by a shutdown (its context is the            *)
(* connection's), a job is (it gets runCtx).                               *)
(***************************************************************************)
EXTENDS Naturals, FiniteSets

CONSTANTS
  Servers,      \* the peer server and the web server
  Jobs,         \* cron entries: cycles, heartbeat, digest, maintenance
  MaxRequests,  \* bound: requests the servers accept
  MaxFirings    \* bound: jobs cron starts

ASSUME LifecycleAssumption == MaxRequests \in Nat /\ MaxFirings \in Nat

VARIABLES
  configured,  \* the servers this node's configuration asks for
  valid,       \* the token, the time zone and the schedules are usable
  pc,          \* where Run, then runAgentServe, is
  ctxDone,     \* SIGINT or SIGTERM has arrived
  runDone,     \* runCtx, a child of ctx, is done
  serv,        \* serv[s]: what s's ListenAndServe is doing
  chan,        \* chan[s]: the result in its buffered channel
  busy,        \* the servers that have a request in flight
  cron,        \* the scheduler
  job,         \* job[j]: what cron entry j is doing
  outcome,     \* the error Run is going to return
  store,       \* the state store
  requests, firings

counts == <<requests, firings>>
config == <<configured, valid>>
vars == <<config, pc, ctxDone, runDone, serv, chan, busy, cron, job, outcome, store, counts>>

-----------------------------------------------------------------------------

Init ==
  /\ configured \in SUBSET Servers /\ valid \in BOOLEAN
  /\ pc = "new" /\ ctxDone = FALSE /\ runDone = FALSE
  /\ serv = [s \in Servers |-> "off"] /\ chan = [s \in Servers |-> "empty"]
  /\ busy = {}
  /\ cron = "new" /\ job = [j \in Jobs |-> "idle"]
  /\ outcome = "none" /\ store = "open"
  /\ requests = 0 /\ firings = 0

\* signal.NotifyContext: ctx is done, and with it its child runCtx.
Signal ==
  /\ ~ctxDone /\ pc # "closed"
  /\ ctxDone' = TRUE /\ runDone' = TRUE
  /\ UNCHANGED <<config, pc, serv, chan, busy, cron, job, outcome, store, counts>>

-----------------------------------------------------------------------------
(* Agent.Run. *)

\* No peer token, or Schedule fails: Run returns before it starts anything.
RunRefuses ==
  /\ pc = "new" /\ ~valid
  /\ pc' = "returned" /\ outcome' = "err" /\ runDone' = TRUE
  /\ UNCHANGED <<config, ctxDone, serv, chan, busy, cron, job, store, counts>>

\* startPeerServer and startWebServer.
StartServers ==
  /\ pc = "new" /\ valid
  /\ serv' = [s \in Servers |-> IF s \in configured THEN "binding" ELSE "off"]
  /\ pc' = "cycle"
  /\ UNCHANGED <<config, ctxDone, runDone, chan, busy, cron, job, outcome, store, counts>>

\* The initial RunCycle ends, a failure is only logged; sched.Start.
InitialCycle ==
  /\ pc = "cycle"
  /\ cron' = "running" /\ pc' = "await"
  /\ UNCHANGED <<config, ctxDone, runDone, serv, chan, busy, job, outcome, store, counts>>

\* Mutant: the error of the server that ended is not kept.
SelectServer_Dropped(s) ==
  /\ pc = "await" /\ chan[s] # "empty"
  /\ chan' = [chan EXCEPT ![s] = "empty"]
  /\ pc' = "cancel" /\ outcome' = "nil"
  /\ UNCHANGED <<config, ctxDone, runDone, serv, busy, cron, job, store, counts>>

\* awaitShutdownOrServerFailure, case err := <-peerErrCh or <-webErrCh: what
\* the server returned is returned, nil included.  When ctx is done as well,
\* select picks any case that is ready.
SelectServer(s) ==
  /\ pc = "await" /\ chan[s] # "empty"
  /\ chan' = [chan EXCEPT ![s] = "empty"]
  /\ pc' = "cancel" /\ outcome' = chan[s]
  /\ UNCHANGED <<config, ctxDone, runDone, serv, busy, cron, job, store, counts>>

\* case <-ctx.Done().
SelectCtx ==
  /\ pc = "await" /\ ctxDone
  /\ pc' = "join"
  /\ UNCHANGED <<config, ctxDone, runDone, serv, chan, busy, cron, job, outcome, store, counts>>

\* waitServerErr of both; a server that was never started has a nil channel.
JoinServers ==
  /\ pc = "join" /\ \A s \in configured : chan[s] # "empty"
  /\ outcome' = IF \E s \in configured : chan[s] = "err" THEN "err" ELSE "nil"
  /\ chan' = [s \in Servers |-> "empty"]
  /\ pc' = "cancel"
  /\ UNCHANGED <<config, ctxDone, runDone, serv, busy, cron, job, store, counts>>

\* Mutant: the jobs are left to ctx.
CancelJobs_None ==
  /\ pc = "cancel"
  /\ pc' = "stop"
  /\ UNCHANGED <<config, ctxDone, runDone, serv, chan, busy, cron, job, outcome, store, counts>>

CancelJobs ==
  /\ pc = "cancel"
  /\ runDone' = TRUE /\ pc' = "stop"
  /\ UNCHANGED <<config, ctxDone, serv, chan, busy, cron, job, outcome, store, counts>>

\* sched.Stop: no job is started any more.
StopCron ==
  /\ pc = "stop"
  /\ cron' = "stopped" /\ pc' = "drain"
  /\ UNCHANGED <<config, ctxDone, runDone, serv, chan, busy, job, outcome, store, counts>>

\* Mutant: Stop's context is not waited for.
DrainJobs_NoWait ==
  /\ pc = "drain"
  /\ pc' = "returned"
  /\ UNCHANGED <<config, ctxDone, runDone, serv, chan, busy, cron, job, outcome, store, counts>>

\* <-sched.Stop().Done(): the running jobs have ended.
DrainJobs ==
  /\ pc = "drain" /\ \A j \in Jobs : job[j] = "idle"
  /\ pc' = "returned"
  /\ UNCHANGED <<config, ctxDone, runDone, serv, chan, busy, cron, job, outcome, store, counts>>

\* runAgentServe closes the store and the process ends.
CloseStore ==
  /\ pc = "returned"
  /\ store' = "closed" /\ pc' = "closed"
  /\ UNCHANGED <<config, ctxDone, runDone, serv, chan, busy, cron, job, outcome, counts>>

-----------------------------------------------------------------------------
(* The servers: ListenAndServe and Serve, the same code in peer and web. *)

Bind(s) ==
  /\ serv[s] = "binding"
  /\ serv' = [serv EXCEPT ![s] = "serving"]
  /\ UNCHANGED <<config, pc, ctxDone, runDone, chan, busy, cron, job, outcome, store, counts>>

Exits(s, result) ==
  /\ serv' = [serv EXCEPT ![s] = "exited"]
  /\ chan' = [chan EXCEPT ![s] = result]
  /\ UNCHANGED <<config, pc, ctxDone, runDone, busy, cron, job, outcome, store, counts>>

\* Mutant: every end of srv.Serve is taken for http.ErrServerClosed.
ServerFails_Closed(s) == serv[s] \in {"binding", "serving"} /\ Exits(s, "nil")

\* net.Listen or srv.Serve fails.
ServerFails(s) == serv[s] \in {"binding", "serving"} /\ Exits(s, "err")

\* ctx (that is, runCtx) is done: srv.Shutdown closes the listener.
BeginShutdown(s) ==
  /\ serv[s] = "serving" /\ runDone
  /\ serv' = [serv EXCEPT ![s] = "closing"]
  /\ UNCHANGED <<config, pc, ctxDone, runDone, chan, busy, cron, job, outcome, store, counts>>

\* No request is left, or one outlasts shutdownTimeout.
EndShutdown(s) ==
  /\ serv[s] = "closing"
  /\ Exits(s, IF s \in busy THEN "err" ELSE "nil")

Request(s) ==
  /\ serv[s] = "serving" /\ s \notin busy
  /\ requests < MaxRequests /\ requests' = requests + 1
  /\ busy' = busy \cup {s}
  /\ UNCHANGED <<config, pc, ctxDone, runDone, serv, chan, cron, job, outcome, store, firings>>

RequestEnds(s) ==
  /\ s \in busy
  /\ busy' = busy \ {s}
  /\ UNCHANGED <<config, pc, ctxDone, runDone, serv, chan, cron, job, outcome, store, counts>>

-----------------------------------------------------------------------------
(* The jobs. *)

\* Cron starts a job; SkipIfStillRunning drops the firing of one that runs.
Fire(j) ==
  /\ cron = "running" /\ job[j] = "idle"
  /\ firings < MaxFirings /\ firings' = firings + 1
  /\ job' = [job EXCEPT ![j] = "running"]
  /\ UNCHANGED <<config, pc, ctxDone, runDone, serv, chan, busy, cron, outcome, store, requests>>

\* A job waits for something that only the end of its context cuts short, such
\* as an msmtp that hangs.
JobBlocks(j) ==
  /\ job[j] = "running" /\ ~runDone
  /\ job' = [job EXCEPT ![j] = "blocked"]
  /\ UNCHANGED <<config, pc, ctxDone, runDone, serv, chan, busy, cron, outcome, store, counts>>

\* A job returns, is cancelled, or panics under cron.Recover.
JobEnds(j) ==
  /\ job[j] = "running" \/ (job[j] = "blocked" /\ runDone)
  /\ job' = [job EXCEPT ![j] = "idle"]
  /\ UNCHANGED <<config, pc, ctxDone, runDone, serv, chan, busy, cron, outcome, store, counts>>

-----------------------------------------------------------------------------

RunStep ==
  \/ RunRefuses \/ StartServers \/ InitialCycle \/ SelectCtx \/ JoinServers
  \/ CancelJobs \/ StopCron \/ DrainJobs \/ CloseStore
  \/ \E s \in Servers : SelectServer(s)

ServerStep(s) == Bind(s) \/ ServerFails(s) \/ BeginShutdown(s) \/ EndShutdown(s)

Next ==
  \/ Signal \/ RunStep
  \/ \E s \in Servers : ServerStep(s) \/ Request(s) \/ RequestEnds(s)
  \/ \E j \in Jobs : Fire(j) \/ JobBlocks(j) \/ JobEnds(j)

Spec == Init /\ [][Next]_vars

\* Goroutines that can run do, the shutdown timer fires, and a job that is not
\* blocked, or whose context is done, ends.  Requests need not end, and nobody
\* need send a signal.
FairSpec ==
  /\ Spec
  /\ WF_vars(RunStep)
  /\ \A s \in Servers : WF_vars(ServerStep(s))
  /\ \A j \in Jobs : WF_vars(JobEnds(j))

-----------------------------------------------------------------------------

\* Every variable keeps its type.
TypeOK ==
  /\ configured \in SUBSET Servers /\ valid \in BOOLEAN
  /\ pc \in {"new", "cycle", "await", "join", "cancel", "stop", "drain", "returned", "closed"}
  /\ ctxDone \in BOOLEAN /\ runDone \in BOOLEAN
  /\ serv \in [Servers -> {"off", "binding", "serving", "closing", "exited"}]
  /\ chan \in [Servers -> {"empty", "nil", "err"}]
  /\ busy \in SUBSET Servers
  /\ cron \in {"new", "running", "stopped"}
  /\ job \in [Jobs -> {"idle", "running", "blocked"}]
  /\ outcome \in {"none", "nil", "err"} /\ store \in {"open", "closed"}
  /\ requests \in Nat /\ firings \in Nat

\* However Run is left, by a signal, a failing server or both at once, no job
\* is at work on a store that is closed, and none can start any more.
JobsBeforeClose ==
  store = "closed" => cron # "running" /\ \A j \in Jobs : job[j] = "idle"

\* The daemon calls its end a success only if somebody asked for it: a server
\* that stops by itself, before or after the scheduler started, is an error.
NilMeansAsked == outcome = "nil" => ctxDone

\* A signal or the failure of one server ends the daemon, although the other
\* server is well, requests hang and jobs are blocked on their context.
RunReturns ==
  (ctxDone \/ \E s \in Servers : serv[s] = "exited") ~> (pc = "closed")

\* A server that fails takes the daemon down with its error, unless a signal
\* gets in first.
FailureFatal ==
  \A s \in Servers : (chan[s] = "err" /\ ~ctxDone) ~> (outcome = "err" \/ ctxDone)

=============================================================================
