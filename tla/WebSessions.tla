----------------------------- MODULE WebSessions -----------------------------
(***************************************************************************)
(* The Pi's web pages (internal/web): logging in with the shared token,     *)
(* the in-memory session table, the CSRF token every form carries, and the  *)
(* pages themselves, which read the store one node after the other.  Every  *)
(* request runs in a goroutine of its own; sessionTable.valid takes the     *)
(* lock twice.  A restart loses the table and the CSRF key.                 *)
(*                                                                          *)
(* Any cookie ever set and any form ever rendered may come back, from an    *)
(* old tab or another browser.  `ended' and the fields `arrivedLive',       *)
(* `unexpired', `always' and `ever' of a request are history.  The plans    *)
(* and outcomes pages show besides findings are left out.                   *)
(***************************************************************************)
EXTENDS Integers, FiniteSets

CONSTANTS
  Reqs,          \* requests that may be in flight together
  Nodes, First,  \* dashboardNodes, and the one a page reads first
  Items,         \* rows of the findings table; a finding that comes back after it was resolved has a new one
  NodeOf,        \* NodeOf[i]: the node of row i
  Stale,         \* the rows of staleness_scan
  Before,        \* Before[i]: the status of row i in the file the process finds, "never": there is no such row
  TTL,           \* sessionTTL, in units of the clock
  RecentWindow,  \* recentActivityWindow
  HistoryLimit,  \* historyLimit
  MaxTime, MaxSessions, MaxStarts, MaxRequests, MaxChanges  \* bounds

Statuses == {"never", "open", "snoozed", "resolved"}

ASSUME NodesAssumption ==
  /\ First \in Nodes /\ \E other \in Nodes \ {First} : Nodes = {First, other}
  /\ NodeOf \in [Items -> Nodes] /\ Before \in [Items -> Statuses]
ASSUME ClockAssumption == TTL \in Nat /\ RecentWindow \in Nat

VARIABLES
  now,
  start,      \* how often the process was started; it stands for the random CSRF key
  sessions,   \* sessionTable.byID: id -> expiresAt
  born,       \* born[id]: when session id was minted; its length is the number of ids used
  forms,      \* the <<session, CSRF token>> pairs rendered into pages so far
  rows,       \* rows[i]: status and last_seen of row i
  decisions,  \* how many decisions were created
  req,        \* req[r]: the request r is handling
  ended,      \* history: sessions that were logged out or lost in a restart
  requests, changes

vars == <<now, start, sessions, born, forms, rows, decisions, req, ended, requests, changes>>

Pages == {"dashboard", "decisions", "history"}
Ops == Pages \union {"login", "logout", "decide"}
Ids == 1..MaxSessions
Minted == DOMAIN born
Row == [status : Statuses, seen : Nat]

Idle == [pc |-> "idle", op |-> "login", cookie |-> 0, csrf |-> <<0, 0>>, expiresAt |-> 0, since |-> 0,
         shown |-> {}, arrivedLive |-> FALSE, unexpired |-> FALSE, always |-> {}, ever |-> {}]

TypeOK ==
  /\ now \in 0..MaxTime /\ start \in 1..MaxStarts
  /\ DOMAIN sessions \subseteq Minted /\ Minted \subseteq Ids
  /\ forms \subseteq Ids \X (Ids \X (1..MaxStarts))
  /\ \A i \in Items : rows[i].status \in Statuses /\ rows[i].seen \in 0..MaxTime
  /\ decisions \in 0..MaxRequests
  /\ \A r \in Reqs :
       /\ req[r].pc \in {"idle", "arrived", "compare", "handle", "first", "second", "rest"}
       /\ req[r].op \in Ops /\ req[r].cookie \in Ids \union {0}
  /\ ended \subseteq Minted

Init ==
  /\ now = 0 /\ start = 1
  /\ sessions = <<>> /\ born = <<>> /\ forms = {}
  /\ rows = [i \in Items |-> [status |-> Before[i], seen |-> 0]]
  /\ decisions = 0
  /\ req = [r \in Reqs |-> Idle]
  /\ ended = {}
  /\ requests = 0 /\ changes = 0

-----------------------------------------------------------------------------
(* Requests. *)

(* The answer is written; of the status code only what changes the state matters. *)
Reply(r) == req' = [req EXCEPT ![r] = Idle]

\* Mutant: the token depends on the process's key alone.
CsrfToken_AnySession(id) == <<1, start>>

(* csrfToken: derived from the session id and the process's key. *)
CsrfToken(id) == <<id, start>>

(* A request arrives, with a cookie some login set or none, and with the token of some rendered form. *)
Arrive(r, op, cookie, csrf) ==
  /\ req[r].pc = "idle" /\ requests < MaxRequests
  /\ requests' = requests + 1
  /\ cookie \in Minted \union {0}
  /\ csrf \in {f[2] : f \in forms} \union {<<0, 0>>}
  /\ op \in {"logout", "decide"} \/ csrf = <<0, 0>>
  /\ req' = [req EXCEPT ![r] = [Idle EXCEPT !.pc = "arrived", !.op = op, !.cookie = cookie, !.csrf = csrf,
                                            !.arrivedLive = cookie \in Minted \ ended]]
  /\ UNCHANGED <<now, start, sessions, born, forms, rows, decisions, ended, changes>>

(* handleLoginGet, the only route without a session: no token, a wrong one or a failing random source change
   nothing; the right token mints a session. *)
HandleLoginGet(r) ==
  /\ req[r].pc = "arrived" /\ req[r].op = "login"
  /\ Reply(r)
  /\ \/ UNCHANGED <<sessions, born>>
     \/ /\ Cardinality(Minted) < MaxSessions
        /\ LET id == Cardinality(Minted) + 1 IN
             /\ sessions' = [s \in DOMAIN sessions \union {id} |-> IF s = id THEN now + TTL ELSE sessions[s]]
             /\ born' = [s \in Minted \union {id} |-> IF s = id THEN now ELSE born[s]]
  /\ UNCHANGED <<now, start, forms, rows, decisions, ended, requests, changes>>

(* sessionTable.valid under the read lock. *)
Lookup(r) ==
  /\ req[r].pc = "arrived" /\ req[r].op # "login"
  /\ IF req[r].cookie \in DOMAIN sessions
       THEN req' = [req EXCEPT ![r].pc = "compare", ![r].expiresAt = sessions[req[r].cookie]]
       ELSE Reply(r)
  /\ UNCHANGED <<now, start, sessions, born, forms, rows, decisions, ended, requests, changes>>

\* Mutant: a valid session is prolonged, with the map entry written again.
Compare_Renews(r) ==
  /\ req[r].pc = "compare"
  /\ LET id == req[r].cookie IN
     IF now > req[r].expiresAt
       THEN Reply(r) /\ sessions' = [s \in DOMAIN sessions \ {id} |-> sessions[s]]
       ELSE /\ req' = [req EXCEPT ![r].pc = IF req[r].op \in Pages THEN "first" ELSE "handle",
                                  ![r].since = now - RecentWindow, ![r].unexpired = now <= born[id] + TTL]
            /\ sessions' = [s \in DOMAIN sessions \union {id} |-> IF s = id THEN now + TTL ELSE sessions[s]]
  /\ UNCHANGED <<now, start, born, forms, rows, decisions, ended, requests, changes>>

(* sessionTable.valid after the read lock, with sessionTable.delete: an expired session is evicted.  A page's
   handler takes its time as it starts. *)
Compare(r) ==
  /\ req[r].pc = "compare"
  /\ LET id == req[r].cookie IN
     IF now > req[r].expiresAt
       THEN Reply(r) /\ sessions' = [s \in DOMAIN sessions \ {id} |-> sessions[s]]
       ELSE /\ req' = [req EXCEPT ![r].pc = IF req[r].op \in Pages THEN "first" ELSE "handle",
                                  ![r].since = now - RecentWindow, ![r].unexpired = now <= born[id] + TTL]
            /\ UNCHANGED sessions
  /\ UNCHANGED <<now, start, born, forms, rows, decisions, ended, requests, changes>>

(* validCSRF. *)
ValidCSRF(r) == req[r].csrf = CsrfToken(req[r].cookie)

(* handleLogout and handleDecisionsPost with a foreign or missing token. *)
Forbidden(r) ==
  /\ req[r].pc = "handle" /\ ~ValidCSRF(r)
  /\ Reply(r)
  /\ UNCHANGED <<now, start, sessions, born, forms, rows, decisions, ended, requests, changes>>

HandleLogout(r) ==
  /\ req[r].pc = "handle" /\ req[r].op = "logout" /\ ValidCSRF(r)
  /\ sessions' = [s \in DOMAIN sessions \ {req[r].cookie} |-> sessions[s]]
  /\ ended' = ended \union {req[r].cookie}
  /\ Reply(r)
  /\ UNCHANGED <<now, start, born, forms, rows, decisions, requests, changes>>

(* handleDecisionsPost: a bad kind or key is refused, a good one is recorded, unless CreateDecision fails, and handed
   to the runner (DecisionExec). *)
HandleDecisionsPost(r) ==
  /\ req[r].pc = "handle" /\ req[r].op = "decide" /\ ValidCSRF(r)
  /\ Reply(r)
  /\ decisions' = decisions + 1 \/ UNCHANGED decisions
  /\ UNCHANGED <<now, start, sessions, born, forms, rows, ended, requests, changes>>

-----------------------------------------------------------------------------
(* Pages. *)

(* buildNodeView with excludeSnoozed. *)
OnDashboard(i) == rows[i].status = "open"

\* Mutant: the decisions page lists what OpenFindings returns.
StalenessCandidate_Snoozed(i) == rows[i].status \in {"open", "snoozed"} /\ i \in Stale

StalenessCandidate(i) == rows[i].status = "open" /\ i \in Stale

(* FindingHistory takes rows of any status. *)
InHistory(i, since) == rows[i].status # "never" /\ rows[i].seen >= since

Lists(op, since, i) ==
  \/ op = "dashboard" /\ OnDashboard(i)
  \/ op = "decisions" /\ StalenessCandidate(i)
  \/ op = "history" /\ InHistory(i, since)

(* FindingHistory's ORDER BY last_seen DESC and LIMIT; which of two rows of one time comes first is left open. *)
Newest(matching) ==
  {S \in SUBSET matching :
     /\ Cardinality(S) = HistoryLimit \/ (S = matching /\ Cardinality(S) <= HistoryLimit)
     /\ \A i \in S, j \in matching \ S : rows[j].seen <= rows[i].seen}

(* History: what a page that began at q.since is for, and what of the rows `as' a request takes note of. *)
Fits(q, i, row) ==
  CASE q.op = "dashboard" -> row.status = "open"
    [] q.op = "decisions" -> row.status = "open" /\ i \in Stale
    [] q.op = "history"   -> row.status # "never" /\ row.seen >= q.since

Fitting(q, as) == {i \in Items : Fits(q, i, as[i])}
Present(as) == {<<i, as[i]>> : i \in Items}

ReadNode(r, pc, next, node) ==
  LET q == req[r]
      matching == {i \in Items : NodeOf[i] = node /\ Lists(q.op, q.since, i)} IN
  /\ q.pc = pc
  /\ \E listed \in IF q.op = "history" THEN Newest(matching) ELSE {matching} :
       req' = [req EXCEPT ![r].pc = next,
                          ![r].shown = @ \union listed,
                          ![r].always = IF pc = "first" THEN Fitting(q, rows) ELSE @,
                          ![r].ever = IF pc = "first" THEN Present(rows) ELSE @]
  /\ UNCHANGED <<now, start, sessions, born, forms, rows, decisions, ended, requests, changes>>

ReadFirst(r) == ReadNode(r, "first", "second", First)
ReadSecond(r) == \E n \in Nodes \ {First} : ReadNode(r, "second", "rest", n)

(* PendingDecisions and RecentRemediations where the page has them, then render: the page carries the token of its
   session. *)
Render(r) ==
  /\ req[r].pc = "rest"
  /\ forms' = forms \union {<<req[r].cookie, CsrfToken(req[r].cookie)>>}
  /\ Reply(r)
  /\ UNCHANGED <<now, start, sessions, born, rows, decisions, ended, requests, changes>>

(* A query of the page fails. *)
PageFails(r) ==
  /\ req[r].pc \in {"first", "second", "rest"}
  /\ Reply(r)
  /\ UNCHANGED <<now, start, sessions, born, forms, rows, decisions, ended, requests, changes>>

-----------------------------------------------------------------------------
(* Meanwhile. *)

(* A row changes; requests that are reading note it. *)
RowBecomes(i, row) ==
  /\ changes < MaxChanges /\ changes' = changes + 1
  /\ rows' = [rows EXCEPT ![i] = row]
  /\ req' = [r \in Reqs |->
               IF req[r].pc \in {"second", "rest"}
                 THEN [req[r] EXCEPT !.always = @ \intersect Fitting(req[r], rows'), !.ever = @ \union Present(rows')]
                 ELSE req[r]]
  /\ UNCHANGED <<now, start, sessions, born, forms, decisions, ended, requests>>

(* A report generated at `at', own or pushed, possibly late, inserts the row or refreshes it: a snooze goes on or is
   over. *)
Reported(i, at) ==
  /\ rows[i].status # "resolved"
  /\ \E status \in {"open"} \union ({"snoozed"} \intersect {rows[i].status}) :
       RowBecomes(i, [status |-> status, seen |-> at])

(* A keep, and a report of the check that no longer has the finding: last_seen stays. *)
SnoozeEntity(i) ==
  /\ rows[i].status \in {"open", "snoozed"}
  /\ RowBecomes(i, [rows[i] EXCEPT !.status = "snoozed"])

ResolveMissingFinding(i) ==
  /\ rows[i].status \in {"open", "snoozed"}
  /\ RowBecomes(i, [rows[i] EXCEPT !.status = "resolved"])

Tick ==
  /\ now < MaxTime
  /\ now' = now + 1
  /\ UNCHANGED <<start, sessions, born, forms, rows, decisions, req, ended, requests, changes>>

(* The daemon is started again: New makes an empty table and a new key; requests in flight are lost. *)
Restart ==
  /\ start < MaxStarts
  /\ start' = start + 1
  /\ sessions' = <<>>
  /\ ended' = Minted
  /\ req' = [r \in Reqs |-> Idle]
  /\ UNCHANGED <<now, born, forms, rows, decisions, requests, changes>>

Next ==
  \/ \E r \in Reqs :
       \/ \E op \in Ops, cookie \in Ids \union {0}, csrf \in (Ids \X (1..MaxStarts)) \union {<<0, 0>>} :
            Arrive(r, op, cookie, csrf)
       \/ HandleLoginGet(r) \/ Lookup(r) \/ Compare(r) \/ Forbidden(r) \/ HandleLogout(r) \/ HandleDecisionsPost(r)
       \/ ReadFirst(r) \/ ReadSecond(r) \/ Render(r) \/ PageFails(r)
  \/ \E i \in Items :
       \/ \E at \in 0..now : Reported(i, at)
       \/ SnoozeEntity(i) \/ ResolveMissingFinding(i)
  \/ Tick \/ Restart

Spec == Init /\ [][Next]_vars

-----------------------------------------------------------------------------
(* Properties. *)

Inside == {"handle", "first", "second", "rest"}

(* A handler behind requireSession runs only for a session this process minted that had not been logged out when
   the request arrived and had not expired when it was checked, whatever other requests of the same session do
   between the two halves of sessionTable.valid; and a session that has ended never returns to the table. *)
Admitted ==
  /\ \A r \in Reqs : req[r].pc \in Inside => req[r].arrivedLive /\ req[r].unexpired
  /\ ended \intersect DOMAIN sessions = {}

(* A form is accepted exactly if it was rendered by this process for the session that posts it: decisions and
   logouts need it, forms from before a restart or of another session fail, and a user's own page is never answered
   with 403 (validCSRF, pageData). *)
FormsJudged ==
  /\ \A r \in Reqs :
       (req[r].pc = "handle" /\ ValidCSRF(r)) => /\ <<req[r].cookie, req[r].csrf>> \in forms
                                                 /\ req[r].csrf[2] = start
  /\ \A f \in forms : f[1] \notin ended => f[2] = CsrfToken(f[1])

(* The history page has no room for row i: HistoryLimit rows of its node are listed, none of them seen before i. *)
Crowded(q, i) ==
  LET listed == {j \in q.shown : NodeOf[j] = NodeOf[i]} IN
  /\ q.op = "history" /\ Cardinality(listed) = HistoryLimit
  /\ \A j \in listed : \E e, f \in q.ever : e[1] = j /\ f[1] = i /\ e[2].seen >= f[2].seen

(* A page is no snapshot, but what it lists was so at some time while it was read, and what was so all the while is
   listed, unless the history page is full of rows seen as late: open findings, candidates that are not snoozed,
   and rows of any status seen within the window before the page began (buildNodeView, stalenessCandidates,
   handleHistory, FindingHistory). *)
PageTruthful ==
  \A r \in Reqs : req[r].pc = "rest" =>
    /\ \A i \in req[r].shown : \E e \in req[r].ever : e[1] = i /\ Fits(req[r], i, e[2])
    /\ \A i \in req[r].always \ req[r].shown : Crowded(req[r], i)
=============================================================================
