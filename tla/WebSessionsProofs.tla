-------------------------- MODULE WebSessionsProofs --------------------------
(***************************************************************************)
(* What WebSessions guarantees for any number of requests in flight, of    *)
(* sessions, restarts and store changes, and any session lifetime.         *)
(*                                                                         *)
(* What a request knows of its session (Visit) rests on the table          *)
(* (TableKept): ids are used once and expiry times are never written       *)
(* again.  A page rests on what was present while it was read (Reading).   *)
(***************************************************************************)
EXTENDS WebSessions, FiniteSetTheorems, TLAPS

RequestType ==
  [pc : {"idle", "arrived", "compare"} \union Inside, op : Ops,
   cookie : Nat, csrf : Nat \X Nat, expiresAt : Nat, since : Int, shown : SUBSET Items,
   arrivedLive : BOOLEAN, unexpired : BOOLEAN,
   always : SUBSET Items, ever : SUBSET (Items \X Row)]

\* Ids are counted from one, and every variable the sessions use is typed.
SessionTypes ==
  /\ now \in Nat /\ start \in Nat \ {0}
  /\ \E n \in Nat : Minted = 1..n
  /\ \A id \in Minted : born[id] \in Nat
  /\ rows \in [Items -> Row]
  /\ req \in [Reqs -> RequestType]

\* A session is in the table with the expiry time it was minted with, until it
\* has ended.
TableKept ==
  /\ DOMAIN sessions \subseteq Minted /\ \A id \in DOMAIN sessions : sessions[id] = born[id] + TTL
  /\ ended \subseteq Minted /\ ended \intersect DOMAIN sessions = {}

\* What the request q has found out about its session so far.
Visit(q) ==
  /\ q.cookie \in Minted \union {0}
  /\ q.pc = "arrived" => q.arrivedLive \/ q.cookie \notin Minted \ ended
  /\ q.pc \in {"compare"} \union Inside => q.cookie \in Minted /\ q.arrivedLive
  /\ q.pc = "compare" => q.expiresAt = born[q.cookie] + TTL
  /\ q.pc \in Inside => q.unexpired

\* Forms carry the token of their session, and those of sessions that have not
\* ended carry the present process's; a request's token is some form's.
FormsKept ==
  /\ forms \subseteq Minted \X (Minted \X Nat)
  /\ \A id, of \in Minted, key \in Nat :
       <<id, <<of, key>>>> \in forms => of = id /\ (id \notin ended => key = start)
  /\ \A r \in Reqs : req[r].csrf # <<0, 0>> => <<req[r].csrf[1], req[r].csrf>> \in forms

SessionInv == SessionTypes /\ TableKept /\ (\A r \in Reqs : Visit(req[r])) /\ FormsKept

\* The page q has read the node of i.
HasRead(q, i) == q.pc = "rest" \/ (q.pc = "second" /\ NodeOf[i] = First)

Reading(q) ==
  /\ q.pc \in {"first", "second", "rest"} => q.op \in Pages
  /\ q.pc \in {"arrived", "compare", "first"} => q.shown = {}
  /\ q.pc \in {"second", "rest"} =>
       /\ Present(rows) \subseteq q.ever /\ q.always \subseteq Fitting(q, rows)
       /\ \A i \in q.shown : HasRead(q, i) /\ \E e \in q.ever : e[1] = i /\ Fits(q, i, e[2])
       /\ \A i \in q.always \ q.shown : HasRead(q, i) => Crowded(q, i)

PagesRead == \A r \in Reqs : Reading(req[r])

-----------------------------------------------------------------------------
(* Sessions and forms. *)

LEMMA IdleType == Idle \in RequestType /\ Idle.pc = "idle" /\ Idle.cookie = 0 /\ Idle.csrf = <<0, 0>>
BY DEF Idle, RequestType, Inside, Ops

\* The process has just been started for the first time.
LEMMA InitSessions == Init => SessionInv
<1> SUFFICES ASSUME Init PROVE SessionInv OBVIOUS
<1>1. Minted = {} /\ DOMAIN sessions = {} BY DEF Init, Minted
<1>2. SessionTypes
  <2>1. Minted = 1..0 BY <1>1
  <2>2. req \in [Reqs -> RequestType] BY IdleType DEF Init
  <2>3. rows \in [Items -> Row] BY NodesAssumption DEF NodesAssumption, Init, Row
  <2> QED BY <1>1, <2>1, <2>2, <2>3 DEF Init, SessionTypes
<1>3. TableKept BY <1>1 DEF Init, TableKept
<1>4. \A r \in Reqs : Visit(req[r])
  BY IdleType DEF Init, Visit, Inside
<1>5. FormsKept BY IdleType DEF Init, FormsKept
<1> QED BY <1>2, <1>3, <1>4, <1>5 DEF SessionInv

\* A request's step may mint ids, end sessions and render forms of its process.
MayChange ==
  /\ UNCHANGED <<now, start, rows>>
  /\ \E n \in Nat : Minted' = 1..n
  /\ Minted \subseteq Minted'
  /\ \A id \in Minted' : born'[id] \in Nat
  /\ \A id \in Minted : born'[id] = born[id]
  /\ ended \subseteq ended'
  /\ forms \subseteq forms'
  /\ \A f \in forms' : f \in forms \/ \E id \in Minted : f = <<id, CsrfToken(id)>>

\* A request that goes on to q leaves what the other requests know true.
LEMMA RequestGoesOn ==
  ASSUME SessionInv, NEW r \in Reqs, NEW q \in RequestType, req' = [req EXCEPT ![r] = q],
         MayChange, TableKept', Visit(q)', q.csrf # <<0, 0>> => <<q.csrf[1], q.csrf>> \in forms
  PROVE  SessionInv'
<1>1. req' \in [Reqs -> RequestType] /\ req \in [Reqs -> RequestType] BY DEF SessionInv, SessionTypes
<1>2. SessionTypes' BY <1>1 DEF SessionInv, SessionTypes, MayChange
<1>3. ASSUME NEW p \in Reqs PROVE Visit(req[p])'
  <2>1. CASE p = r
    <3>1. req'[p] = q BY <1>1, <2>1
    <3> QED BY <3>1
  <2>2. CASE p # r
    <3>1. req'[p] = req[p] BY <1>1, <2>2
    <3>2. Visit(req[p]) BY DEF SessionInv
    <3>3. 0 \notin Minted' BY DEF MayChange
    <3> QED BY <3>1, <3>2, <3>3 DEF Visit, MayChange
  <2> QED BY <2>1, <2>2
<1>4. FormsKept'
  <2>0. /\ start' = start /\ start \in Nat /\ Minted \subseteq Minted' /\ ended \subseteq ended'
        /\ \A f \in forms' : f \in forms \/ \E id \in Minted : f = <<id, <<id, start>>>>
        /\ forms \subseteq Minted \X (Minted \X Nat)
    BY DEF MayChange, SessionInv, SessionTypes, FormsKept, CsrfToken
  <2>1. forms' \subseteq Minted' \X (Minted' \X Nat)
    <3> SUFFICES ASSUME NEW f \in forms' PROVE f \in Minted' \X (Minted' \X Nat) OBVIOUS
    <3>1. CASE f \in forms BY <2>0, <3>1
    <3>2. CASE \E id \in Minted : f = <<id, <<id, start>>>> BY <2>0, <3>2
    <3> QED BY <2>0, <3>1, <3>2
  <2>2. ASSUME NEW id \in Minted', NEW of \in Minted', NEW key \in Nat, <<id, <<of, key>>>> \in forms'
        PROVE  of = id /\ (id \notin ended' => key = start')
    <3>1. CASE <<id, <<of, key>>>> \in forms
      <4>1. id \in Minted /\ of \in Minted BY <2>0, <3>1
      <4> QED BY <2>0, <3>1, <4>1 DEF SessionInv, FormsKept
    <3>2. CASE \E x \in Minted : <<id, <<of, key>>>> = <<x, <<x, start>>>> BY <2>0, <3>2
    <3> QED BY <2>0, <2>2, <3>1, <3>2
  <2>3. ASSUME NEW p \in Reqs, req'[p].csrf # <<0, 0>>
        PROVE  <<req'[p].csrf[1], req'[p].csrf>> \in forms'
    <3>1. req'[p] = IF p = r THEN q ELSE req[p] BY <1>1
    <3> QED BY <2>3, <3>1 DEF SessionInv, FormsKept, MayChange
  <2> QED BY <2>1, <2>2, <2>3 DEF FormsKept
<1> QED BY <1>2, <1>3, <1>4 DEF SessionInv, MayChange

\* Most steps of a request touch neither the ids nor the table nor the forms.
LEMMA NothingChanges ==
  ASSUME SessionInv, UNCHANGED <<now, start, sessions, born, forms, rows, ended>>
  PROVE  MayChange /\ TableKept'
BY DEF SessionInv, SessionTypes, TableKept, MayChange, Minted

\* A request is answered, whatever the answer.
LEMMA ReplyKeeps ==
  ASSUME SessionInv, NEW r \in Reqs, Reply(r), MayChange, TableKept'
  PROVE  SessionInv'
<1>1. PICK q \in RequestType : q = Idle BY IdleType
<1>2. q.pc = "idle" /\ q.cookie = 0 /\ q.csrf = <<0, 0>> BY <1>1, IdleType
<1>3. Visit(q)' BY <1>2 DEF Visit, Inside
<1>4. req' = [req EXCEPT ![r] = q] BY <1>1 DEF Reply
<1> QED BY <1>2, <1>3, <1>4, RequestGoesOn

\* A request arrives.
LEMMA ArriveKeeps ==
  ASSUME SessionInv, NEW r \in Reqs, NEW op \in Ops, NEW cookie, NEW csrf, Arrive(r, op, cookie, csrf)
  PROVE  SessionInv'
<1>0. csrf \in {f[2] : f \in forms} \union {<<0, 0>>} BY DEF Arrive
<1>1. cookie \in Minted \union {0} /\ Minted \subseteq Nat /\ cookie \in Nat
  BY DEF Arrive, SessionInv, SessionTypes
<1>2. csrf \in Nat \X Nat /\ (csrf # <<0, 0>> => <<csrf[1], csrf>> \in forms)
  <2>1. CASE csrf = <<0, 0>> BY <2>1
  <2>2. CASE csrf # <<0, 0>>
    <3>1. PICK f \in forms : csrf = f[2] BY <1>0, <2>2
    <3>2. PICK id \in Minted, of \in Minted, key \in Nat : f = <<id, <<of, key>>>>
      BY DEF SessionInv, FormsKept
    <3>3. of = id BY <3>2 DEF SessionInv, FormsKept
    <3>4. csrf = <<id, key>> BY <3>1, <3>2, <3>3
    <3> QED BY <1>1, <3>2, <3>3, <3>4
  <2> QED BY <2>1, <2>2
<1>3. PICK live \in BOOLEAN : live = (cookie \in Minted \ ended)
  <2>1. (cookie \in Minted \ ended) \in BOOLEAN OBVIOUS
  <2> QED BY <2>1
<1>4. PICK q \in RequestType :
        /\ q.pc = "arrived" /\ q.op = op /\ q.cookie = cookie /\ q.csrf = csrf /\ q.arrivedLive = live
        /\ req' = [req EXCEPT ![r] = q]
  <2>1. PICK idle \in RequestType : idle = Idle BY IdleType
  <2> DEFINE i == [idle EXCEPT !.pc = "arrived", !.op = op, !.cookie = cookie, !.csrf = csrf, !.arrivedLive = live]
  <2>2. i \in RequestType /\ i.pc = "arrived" /\ i.op = op /\ i.cookie = cookie /\ i.csrf = csrf /\ i.arrivedLive = live
    <3>1. i \in RequestType BY <1>1, <1>2 DEF RequestType
    <3>2. i.pc = "arrived" /\ i.op = op /\ i.cookie = cookie /\ i.csrf = csrf /\ i.arrivedLive = live
      BY <1>1, <1>2 DEF RequestType
    <3> QED BY <3>1, <3>2
  <2>3. req' = [req EXCEPT ![r] = i] BY <1>3, <2>1 DEF Arrive
  <2> HIDE DEF i
  <2> QED BY <2>2, <2>3
<1>5. UNCHANGED <<now, start, sessions, born, forms, rows, ended>> BY DEF Arrive
<1>6. Visit(q)' BY <1>1, <1>3, <1>4, <1>5 DEF Visit, Minted, Inside
<1> QED BY <1>2, <1>4, <1>5, <1>6, NothingChanges, RequestGoesOn

\* handleLoginGet: ids are never used twice.
LEMMA LoginKeeps ==
  ASSUME SessionInv, NEW r \in Reqs, HandleLoginGet(r)
  PROVE  SessionInv'
<1>0. now \in Nat /\ TTL \in Nat /\ UNCHANGED <<now, start, forms, rows, ended>>
  BY ClockAssumption DEF ClockAssumption, SessionInv, SessionTypes, HandleLoginGet
<1>1. CASE UNCHANGED <<sessions, born>>
  BY <1>0, <1>1, NothingChanges, ReplyKeeps DEF HandleLoginGet
<1>2. CASE ~UNCHANGED <<sessions, born>>
  <2>1. PICK n \in Nat : Minted = 1..n BY DEF SessionInv, SessionTypes
  <2>2. Cardinality(Minted) = n BY <2>1, FS_Interval
  <2> DEFINE id == Cardinality(Minted) + 1
  <2>3. /\ sessions' = [s \in DOMAIN sessions \union {id} |-> IF s = id THEN now + TTL ELSE sessions[s]]
        /\ born' = [s \in Minted \union {id} |-> IF s = id THEN now ELSE born[s]]
    BY <1>2 DEF HandleLoginGet
  <2>4. id = n + 1 /\ id \notin Minted /\ Minted \union {id} = 1..(n + 1) BY <2>1, <2>2
  <2>5. Minted' = Minted \union {id} /\ DOMAIN sessions' = DOMAIN sessions \union {id}
    BY <2>3 DEF Minted
  <2>6. MayChange
    BY <1>0, <2>3, <2>4, <2>5 DEF MayChange, SessionInv, SessionTypes
  <2>7. TableKept'
    <3> HIDE DEF id
    <3>1. TableKept BY DEF SessionInv
    <3>2. \A s \in DOMAIN sessions' : sessions'[s] = born'[s] + TTL
      BY <2>3, <2>4, <2>5, <3>1 DEF TableKept
    <3> QED BY <1>0, <2>4, <2>5, <3>1, <3>2 DEF TableKept
  <2> QED BY <2>6, <2>7, ReplyKeeps DEF HandleLoginGet
<1> QED BY <1>1, <1>2

\* sessionTable.valid: what is found in the table has not ended, and a request
\* that is let in has found its session unexpired, though the table may change
\* between the two halves.
LEMMA ValidKeeps ==
  ASSUME SessionInv, NEW r \in Reqs, Lookup(r) \/ Compare(r)
  PROVE  SessionInv'
<1>0. /\ req[r] \in RequestType /\ req \in [Reqs -> RequestType] /\ Visit(req[r]) /\ TableKept
      /\ now \in Nat /\ TTL \in Nat /\ (\A id \in Minted : born[id] \in Nat)
      /\ req[r].csrf # <<0, 0>> => <<req[r].csrf[1], req[r].csrf>> \in forms
  BY ClockAssumption DEF ClockAssumption, SessionInv, SessionTypes, FormsKept
<1>1. CASE Lookup(r) /\ Reply(r)
  BY <1>1, NothingChanges, ReplyKeeps DEF Lookup
<1>2. CASE Lookup(r) /\ req[r].cookie \in DOMAIN sessions
  <2>1. /\ req[r].pc = "arrived" /\ UNCHANGED <<now, start, sessions, born, forms, rows, ended>>
        /\ req' = [req EXCEPT ![r] = [req[r] EXCEPT !.pc = "compare", !.expiresAt = sessions[req[r].cookie]]]
    BY <1>0, <1>2 DEF Lookup
  <2>2. sessions[req[r].cookie] = born[req[r].cookie] + TTL /\ sessions[req[r].cookie] \in Nat
    BY <1>0, <1>2 DEF TableKept
  <2>3. PICK q \in RequestType :
          /\ q = [req[r] EXCEPT !.pc = "compare", !.expiresAt = sessions[req[r].cookie]]
          /\ q.pc = "compare" /\ q.expiresAt = sessions[req[r].cookie] /\ q.cookie = req[r].cookie
          /\ q.csrf = req[r].csrf /\ q.arrivedLive = req[r].arrivedLive
    <3> DEFINE i == [req[r] EXCEPT !.pc = "compare", !.expiresAt = sessions[req[r].cookie]]
    <3>1. /\ i \in RequestType /\ i.pc = "compare" /\ i.expiresAt = sessions[req[r].cookie]
          /\ i.cookie = req[r].cookie /\ i.csrf = req[r].csrf /\ i.arrivedLive = req[r].arrivedLive
      BY <1>0, <2>2 DEF RequestType
    <3> HIDE DEF i
    <3> QED BY <3>1 DEF i
  <2>4. q.cookie \in Minted \ ended BY <1>0, <1>2, <2>3 DEF TableKept
  <2>5. Visit(q)' BY <1>0, <2>1, <2>2, <2>3, <2>4 DEF Visit, Minted, Inside
  <2> QED BY <1>0, <2>1, <2>3, <2>5, NothingChanges, RequestGoesOn
<1>3. ASSUME Compare(r) PROVE SessionInv'
  <2> DEFINE id == req[r].cookie
             next == IF req[r].op \in Pages THEN "first" ELSE "handle"
  <2>1. /\ req[r].pc = "compare" /\ UNCHANGED <<now, start, born, forms, rows, ended>>
        /\ id \in Minted /\ req[r].arrivedLive /\ req[r].expiresAt = born[id] + TTL
    BY <1>0, <1>3 DEF Compare, Visit
  <2>2. CASE now > req[r].expiresAt
    <3>1. Reply(r) /\ sessions' = [s \in DOMAIN sessions \ {id} |-> sessions[s]]
      BY <1>3, <2>2 DEF Compare
    <3>2. MayChange BY <2>1 DEF SessionInv, SessionTypes, MayChange, Minted
    <3>3. TableKept' BY <1>0, <2>1, <3>1 DEF TableKept, Minted
    <3> QED BY <3>1, <3>2, <3>3, ReplyKeeps
  <2>3. CASE ~(now > req[r].expiresAt)
    <3>1. /\ req' = [req EXCEPT ![r] = [req[r] EXCEPT !.pc = next, !.since = now - RecentWindow,
                                                      !.unexpired = now <= born[id] + TTL]]
          /\ UNCHANGED sessions
      BY <1>0, <1>3, <2>3 DEF Compare
    <3>2. now <= born[id] + TTL BY <1>0, <2>1, <2>3
    <3>3. PICK q \in RequestType :
            /\ q = [req[r] EXCEPT !.pc = next, !.since = now - RecentWindow, !.unexpired = TRUE]
            /\ q.pc \in {"first", "handle"} /\ q.unexpired /\ q.cookie = id
            /\ q.csrf = req[r].csrf /\ q.arrivedLive = req[r].arrivedLive
      <4> DEFINE i == [req[r] EXCEPT !.pc = next, !.since = now - RecentWindow, !.unexpired = TRUE]
      <4>0. now - RecentWindow \in Int BY <1>0, ClockAssumption DEF ClockAssumption
      <4>1. /\ i \in RequestType /\ i.pc \in {"first", "handle"} /\ i.unexpired
            /\ i.cookie = req[r].cookie /\ i.csrf = req[r].csrf /\ i.arrivedLive = req[r].arrivedLive
        BY <1>0, <4>0 DEF RequestType, Inside
      <4> HIDE DEF i
      <4> QED BY <4>1 DEF i
    <3>4. Visit(q)' BY <1>0, <2>1, <3>3 DEF Visit, Minted, Inside
    <3>5. req' = [req EXCEPT ![r] = q] BY <3>1, <3>2, <3>3
    <3> QED BY <1>0, <2>1, <3>1, <3>3, <3>4, <3>5, NothingChanges, RequestGoesOn
  <2> QED BY <2>2, <2>3
<1> QED BY <1>1, <1>2, <1>3 DEF Lookup

\* The handlers behind the check: a form refused or accepted, a page rendered
\* or given up.
LEMMA HandledKeeps ==
  ASSUME SessionInv, NEW r \in Reqs,
         Forbidden(r) \/ HandleLogout(r) \/ HandleDecisionsPost(r) \/ Render(r) \/ PageFails(r)
  PROVE  SessionInv'
<1>0. /\ req[r].pc \in Inside => req[r].cookie \in Minted
      /\ TableKept /\ SessionTypes
  BY DEF SessionInv, Visit
<1>1. CASE Forbidden(r) \/ HandleDecisionsPost(r) \/ PageFails(r)
  BY <1>1, NothingChanges, ReplyKeeps DEF Forbidden, HandleDecisionsPost, PageFails
<1>2. CASE HandleLogout(r)
  <2>1. /\ req[r].cookie \in Minted /\ Reply(r)
        /\ sessions' = [s \in DOMAIN sessions \ {req[r].cookie} |-> sessions[s]]
        /\ ended' = ended \union {req[r].cookie}
        /\ UNCHANGED <<now, start, born, forms, rows>>
    BY <1>0, <1>2 DEF HandleLogout, Inside
  <2>2. MayChange BY <1>0, <2>1 DEF SessionTypes, MayChange, Minted
  <2>3. TableKept' BY <1>0, <2>1 DEF TableKept, Minted
  <2> QED BY <2>1, <2>2, <2>3, ReplyKeeps
<1>3. CASE Render(r)
  <2>1. /\ req[r].cookie \in Minted /\ Reply(r)
        /\ forms' = forms \union {<<req[r].cookie, CsrfToken(req[r].cookie)>>}
        /\ UNCHANGED <<now, start, sessions, born, rows, ended>>
    BY <1>0, <1>3 DEF Render, Inside
  <2>2. MayChange BY <1>0, <2>1 DEF SessionTypes, MayChange, Minted
  <2>3. TableKept' BY <1>0, <2>1 DEF TableKept, Minted
  <2> QED BY <2>1, <2>2, <2>3, ReplyKeeps
<1> QED BY <1>1, <1>2, <1>3

\* A page reads a node; the session is not looked at again.
LEMMA ReadKeeps ==
  ASSUME SessionInv, NEW r \in Reqs, NEW node, NEW pc \in {"first", "second"}, NEW next \in {"second", "rest"},
         ReadNode(r, pc, next, node)
  PROVE  SessionInv'
<1>0. /\ req[r] \in RequestType /\ req \in [Reqs -> RequestType] /\ Visit(req[r])
      /\ req[r].csrf # <<0, 0>> => <<req[r].csrf[1], req[r].csrf>> \in forms
      /\ rows \in [Items -> Row]
  BY DEF SessionInv, SessionTypes, FormsKept
<1>1. /\ req[r].pc = pc /\ UNCHANGED <<now, start, sessions, born, forms, rows, ended>>
  BY DEF ReadNode
<1>2. PICK S \in SUBSET Items, A \in SUBSET Items, E \in SUBSET (Items \X Row) :
        req' = [req EXCEPT ![r] = [req[r] EXCEPT !.pc = next, !.shown = S, !.always = A, !.ever = E]]
  <2> DEFINE matching == {i \in Items : NodeOf[i] = node /\ Lists(req[r].op, req[r].since, i)}
  <2>1. PICK listed \in IF req[r].op = "history" THEN Newest(matching) ELSE {matching} :
          req' = [req EXCEPT ![r].pc = next,
                             ![r].shown = @ \union listed,
                             ![r].always = IF pc = "first" THEN Fitting(req[r], rows) ELSE @,
                             ![r].ever = IF pc = "first" THEN Present(rows) ELSE @]
    BY DEF ReadNode
  <2>2. listed \in SUBSET Items
    <3>1. listed \subseteq matching BY <2>1 DEF Newest
    <3> QED BY <3>1
  <2>3. Present(rows) \in SUBSET (Items \X Row) /\ Fitting(req[r], rows) \in SUBSET Items
    BY <1>0 DEF Present, Fitting
  <2> HIDE DEF matching
  <2> DEFINE S == req[r].shown \union listed
             A == IF pc = "first" THEN Fitting(req[r], rows) ELSE req[r].always
             E == IF pc = "first" THEN Present(rows) ELSE req[r].ever
  <2>4. S \in SUBSET Items /\ A \in SUBSET Items /\ E \in SUBSET (Items \X Row)
    BY <1>0, <2>2, <2>3 DEF RequestType
  <2>5. req' = [req EXCEPT ![r] = [req[r] EXCEPT !.pc = next, !.shown = S, !.always = A, !.ever = E]]
    BY <1>0, <2>1
  <2> HIDE DEF S, A, E
  <2> QED BY <2>4, <2>5
<1>3. PICK q \in RequestType :
        /\ q = [req[r] EXCEPT !.pc = next, !.shown = S, !.always = A, !.ever = E]
        /\ q.pc = next /\ q.cookie = req[r].cookie /\ q.csrf = req[r].csrf
        /\ q.arrivedLive = req[r].arrivedLive /\ q.unexpired = req[r].unexpired
  <2> DEFINE i == [req[r] EXCEPT !.pc = next, !.shown = S, !.always = A, !.ever = E]
  <2>1. i \in RequestType BY <1>0, <1>2 DEF RequestType, Inside
  <2>2. /\ i.pc = next /\ i.cookie = req[r].cookie /\ i.csrf = req[r].csrf
        /\ i.arrivedLive = req[r].arrivedLive /\ i.unexpired = req[r].unexpired
    BY <1>0, <1>2 DEF RequestType
  <2> HIDE DEF i
  <2> QED BY <2>1, <2>2 DEF i
<1>4. Visit(q)' BY <1>0, <1>1, <1>3 DEF Visit, Minted, Inside
<1> QED BY <1>0, <1>1, <1>2, <1>3, <1>4, NothingChanges, RequestGoesOn

\* A report, a keep or a resolution turns a row into another.
LEMMA RowChanges ==
  ASSUME SessionTypes, NEW i \in Items,
         \/ \E at \in 0..now : Reported(i, at)
         \/ SnoozeEntity(i) \/ ResolveMissingFinding(i)
  PROVE  \E row \in Row : RowBecomes(i, row)
<1>0. now \in Nat /\ rows[i] \in Row BY DEF SessionTypes
<1>1. ASSUME NEW at \in 0..now, Reported(i, at) PROVE \E row \in Row : RowBecomes(i, row)
  <2>1. PICK status \in {"open", "snoozed"} : RowBecomes(i, [status |-> status, seen |-> at])
    BY <1>1 DEF Reported
  <2>2. [status |-> status, seen |-> at] \in Row BY <1>0 DEF Row, Statuses
  <2> QED BY <2>1, <2>2
<1>2. CASE SnoozeEntity(i)
  <2>1. RowBecomes(i, [rows[i] EXCEPT !.status = "snoozed"]) BY <1>2 DEF SnoozeEntity
  <2>2. [rows[i] EXCEPT !.status = "snoozed"] \in Row BY <1>0 DEF Row, Statuses
  <2> QED BY <2>1, <2>2
<1>3. CASE ResolveMissingFinding(i)
  <2>1. RowBecomes(i, [rows[i] EXCEPT !.status = "resolved"]) BY <1>3 DEF ResolveMissingFinding
  <2>2. [rows[i] EXCEPT !.status = "resolved"] \in Row BY <1>0 DEF Row, Statuses
  <2> QED BY <2>1, <2>2
<1> QED BY <1>1, <1>2, <1>3

\* Outside the requests: a row changes, time passes.
LEMMA OutsideKeeps ==
  ASSUME SessionInv, Tick \/ (\E i \in Items, row \in Row : RowBecomes(i, row)) \/ UNCHANGED vars
  PROVE  SessionInv'
<1>1. /\ UNCHANGED <<start, sessions, born, forms, ended>>
      /\ now' = now \/ now' = now + 1
  <2>1. CASE Tick BY <2>1 DEF Tick
  <2>2. CASE \E i \in Items, row \in Row : RowBecomes(i, row) BY <2>2 DEF RowBecomes
  <2>3. CASE UNCHANGED vars BY <2>3 DEF vars
  <2> QED BY <2>1, <2>2, <2>3
<1> DEFINE Same(r) == /\ req'[r].pc = req[r].pc /\ req'[r].cookie = req[r].cookie /\ req'[r].csrf = req[r].csrf
                      /\ req'[r].arrivedLive = req[r].arrivedLive /\ req'[r].unexpired = req[r].unexpired
                      /\ req'[r].expiresAt = req[r].expiresAt
<1>2. /\ req' \in [Reqs -> RequestType] /\ rows' \in [Items -> Row]
      /\ \A r \in Reqs : Same(r)
  <2>1. req \in [Reqs -> RequestType] /\ rows \in [Items -> Row] BY DEF SessionInv, SessionTypes
  <2>2. CASE Tick \/ UNCHANGED vars BY <2>1, <2>2 DEF Tick, vars
  <2>3. CASE \E i \in Items, row \in Row : RowBecomes(i, row)
    <3>0. PICK i \in Items, row \in Row : RowBecomes(i, row) BY <2>3
    <3>1. rows' \in [Items -> Row] BY <2>1, <3>0 DEF RowBecomes
    <3>2. PICK P \in SUBSET (Items \X Row) : P = Present(rows')
      <4>1. \A j \in Items : <<j, rows'[j]>> \in Items \X Row BY <3>1
      <4>2. Present(rows') \in SUBSET (Items \X Row) BY <4>1 DEF Present
      <4> QED BY <4>2
    <3>3. ASSUME NEW r \in Reqs PROVE req'[r] \in RequestType /\ Same(r)
      <4>0. req[r] \in RequestType BY <2>1
      <4>1. CASE req[r].pc \in {"second", "rest"}
        <5>1. req'[r] = [req[r] EXCEPT !.always = @ \intersect Fitting(req[r], rows'), !.ever = @ \union P]
          BY <3>0, <3>2, <4>1 DEF RowBecomes
        <5>2. PICK A \in SUBSET Items, E \in SUBSET (Items \X Row) :
                A = req[r].always \intersect Fitting(req[r], rows') /\ E = req[r].ever \union P
          BY <3>2, <4>0 DEF RequestType
        <5>3. req'[r] = [req[r] EXCEPT !.always = A, !.ever = E] BY <5>1, <5>2
        <5> QED BY <4>0, <5>3 DEF RequestType
      <4>2. CASE req[r].pc \notin {"second", "rest"} BY <3>0, <4>0, <4>2 DEF RowBecomes
      <4> QED BY <4>1, <4>2
    <3>4. DOMAIN req' = Reqs /\ req' = [r \in Reqs |-> req'[r]] BY <3>0 DEF RowBecomes
    <3> HIDE DEF Same
    <3> QED BY <3>1, <3>3, <3>4
  <2> QED BY <2>2, <2>3
<1>3. SessionTypes'
  <2>1. now' \in Nat BY <1>1 DEF SessionInv, SessionTypes
  <2> QED BY <1>1, <1>2, <2>1 DEF SessionInv, SessionTypes, Minted
<1>4. TableKept' BY <1>1 DEF SessionInv, TableKept, Minted
<1>5. \A r \in Reqs : Visit(req[r])' BY <1>1, <1>2 DEF SessionInv, Visit, Minted
<1>6. FormsKept' BY <1>1, <1>2 DEF SessionInv, FormsKept, Minted
<1> QED BY <1>3, <1>4, <1>5, <1>6 DEF SessionInv

\* A restart ends every session there has been and makes every form useless.
LEMMA RestartKeeps == SessionInv /\ Restart => SessionInv'
<1> SUFFICES ASSUME SessionInv, Restart PROVE SessionInv' OBVIOUS
<1>1. /\ ended' = Minted /\ DOMAIN sessions' = {} /\ UNCHANGED <<now, born, forms, rows>>
      /\ start' = start + 1 /\ req' = [r \in Reqs |-> Idle]
  BY DEF Restart
<1>2. SessionTypes' BY <1>1, IdleType DEF SessionInv, SessionTypes, Minted
<1>3. TableKept' BY <1>1 DEF TableKept, Minted
<1>4. \A r \in Reqs : Visit(req[r])' BY <1>1, IdleType DEF Visit, Inside
<1>5. FormsKept' BY <1>1, IdleType DEF SessionInv, FormsKept, Minted
<1> QED BY <1>2, <1>3, <1>4, <1>5 DEF SessionInv

\* The session table, the forms and what every request knows of them hold
\* together throughout.
THEOREM SessionInvariant == Spec => []SessionInv
<1>1. ASSUME SessionInv, [Next]_vars PROVE SessionInv'
  <2>1. ASSUME NEW r \in Reqs, ReadFirst(r) PROVE SessionInv'
    BY <1>1, <2>1, ReadKeeps DEF ReadFirst
  <2>2. ASSUME NEW r \in Reqs, ReadSecond(r) PROVE SessionInv'
    BY <1>1, <2>2, ReadKeeps DEF ReadSecond
  <2>3. CASE \E i \in Items : \/ \E at \in 0..now : Reported(i, at)
                             \/ SnoozeEntity(i) \/ ResolveMissingFinding(i)
    <3>1. SessionTypes BY <1>1 DEF SessionInv
    <3>2. \E i \in Items, row \in Row : RowBecomes(i, row) BY <2>3, <3>1, RowChanges
    <3> QED BY <1>1, <3>2, OutsideKeeps
  <2> QED BY <1>1, <2>1, <2>2, <2>3, ArriveKeeps, LoginKeeps, ValidKeeps, HandledKeeps, OutsideKeeps, RestartKeeps
          DEF Next
<1> QED BY <1>1, InitSessions, PTL DEF Spec

\* requireSession lets a request in only with a session that had not been
\* logged out when the request arrived and was not expired when looked at, and
\* an ended session is never in the table again.
THEOREM AdmittedHolds == Spec => []Admitted
<1>1. SessionInv => Admitted BY DEF SessionInv, TableKept, Visit, Admitted
<1> QED BY <1>1, SessionInvariant, PTL

\* validCSRF accepts a token exactly when a page of this process carried it for
\* this session.
THEOREM FormsJudgedHolds == Spec => []FormsJudged
<1>1. ASSUME SessionInv PROVE FormsJudged
  <2>1. ASSUME NEW r \in Reqs, ValidCSRF(r)
        PROVE  <<req[r].cookie, req[r].csrf>> \in forms /\ req[r].csrf[2] = start
    BY <1>1, <2>1 DEF SessionInv, SessionTypes, FormsKept, ValidCSRF, CsrfToken
  <2>2. ASSUME NEW f \in forms, f[1] \notin ended PROVE f[2] = CsrfToken(f[1])
    BY <1>1, <2>2 DEF SessionInv, FormsKept, CsrfToken
  <2> QED BY <2>1, <2>2 DEF FormsJudged
<1> QED BY <1>1, SessionInvariant, PTL

-----------------------------------------------------------------------------
(* Pages. *)

\* As long as no row changes, a page stays as true as it is.
LEMMA PageStays ==
  ASSUME UNCHANGED rows, NEW q, Reading(q)
  PROVE  Reading(q)'
<1>1. Present(rows)' = Present(rows) BY DEF Present
<1>2. Fitting(q, rows)' = Fitting(q, rows) BY DEF Fitting, Fits
<1>3. \A i : HasRead(q, i)' <=> HasRead(q, i) BY DEF HasRead
<1>4. \A i : Crowded(q, i)' <=> Crowded(q, i) BY DEF Crowded
<1>5. \A i, row : Fits(q, i, row)' <=> Fits(q, i, row) BY DEF Fits
<1> QED BY <1>1, <1>2, <1>3, <1>4, <1>5 DEF Reading

\* The other pages, when a request goes on.
LEMMA PageGoesOn ==
  ASSUME SessionTypes, PagesRead, UNCHANGED rows, NEW r \in Reqs, NEW q,
         req' = [req EXCEPT ![r] = q], Reading(q)'
  PROVE  PagesRead'
<1>1. req \in [Reqs -> RequestType] BY DEF SessionTypes
<1> SUFFICES ASSUME NEW p \in Reqs PROVE Reading(req[p])' BY DEF PagesRead
<1>2. CASE p = r
  <2>1. req'[p] = q BY <1>1, <1>2
  <2> QED BY <2>1
<1>3. CASE p # r
  <2>1. req'[p] = req[p] BY <1>1, <1>3
  <2>2. PICK s : s = req[p] OBVIOUS
  <2>3. Reading(s) BY <2>2 DEF PagesRead
  <2>4. Reading(s)' BY <2>3, PageStays
  <2> QED BY <2>1, <2>2, <2>4
<1> QED BY <1>2, <1>3

\* The steps of a request before and after it reads.
LEMMA NotReadingSteps ==
  ASSUME SessionTypes, PagesRead, NEW r \in Reqs,
         \/ Reply(r) /\ UNCHANGED rows
         \/ \E op \in Ops, cookie \in Ids \union {0} : \E csrf : Arrive(r, op, cookie, csrf)
         \/ Lookup(r) \/ Compare(r)
  PROVE  PagesRead'
<1>0. req[r] \in RequestType /\ Reading(req[r]) BY DEF SessionTypes, PagesRead
<1>1. CASE Reply(r) /\ UNCHANGED rows
  <2>1. PICK q : q = Idle OBVIOUS
  <2>2. Reading(q)' BY <2>1 DEF Idle, Reading, HasRead
  <2> QED BY <1>1, <2>1, <2>2, PageGoesOn DEF Reply
<1>2. CASE \E op \in Ops, cookie \in Ids \union {0} : \E csrf : Arrive(r, op, cookie, csrf)
  <2>0. PICK op \in Ops, cookie \in Ids \union {0} : \E csrf : Arrive(r, op, cookie, csrf) BY <1>2
  <2>1. PICK csrf : Arrive(r, op, cookie, csrf) BY <2>0
  <2>2. PICK q : q = [Idle EXCEPT !.pc = "arrived", !.op = op, !.cookie = cookie, !.csrf = csrf,
                                  !.arrivedLive = cookie \in Minted \ ended]
    OBVIOUS
  <2>3. q.pc = "arrived" /\ q.shown = {} BY <2>2 DEF Idle
  <2>4. Reading(q)' BY <2>3 DEF Reading, HasRead
  <2>5. UNCHANGED rows /\ req' = [req EXCEPT ![r] = q] BY <2>1, <2>2 DEF Arrive
  <2> QED BY <2>4, <2>5, PageGoesOn
<1>3. CASE Lookup(r) /\ ~Reply(r)
  <2>1. /\ req[r].pc = "arrived" /\ UNCHANGED rows
        /\ req' = [req EXCEPT ![r].pc = "compare", ![r].expiresAt = sessions[req[r].cookie]]
    BY <1>3 DEF Lookup
  <2>2. PICK q : q = [req[r] EXCEPT !.pc = "compare", !.expiresAt = sessions[req[r].cookie]] OBVIOUS
  <2>3. q.pc = "compare" /\ q.shown = {} BY <1>0, <2>1, <2>2 DEF RequestType, Reading
  <2>4. Reading(q)' BY <2>3 DEF Reading, HasRead
  <2>5. req' = [req EXCEPT ![r] = q] BY <2>1, <2>2 DEF SessionTypes
  <2> QED BY <2>1, <2>4, <2>5, PageGoesOn
<1>4. CASE Compare(r) /\ ~Reply(r)
  <2> DEFINE next == IF req[r].op \in Pages THEN "first" ELSE "handle"
  <2>1. PICK b : b = (now <= born[req[r].cookie] + TTL) OBVIOUS
  <2>2. /\ req[r].pc = "compare" /\ UNCHANGED rows
        /\ req' = [req EXCEPT ![r].pc = next, ![r].since = now - RecentWindow, ![r].unexpired = b]
    BY <1>4, <2>1 DEF Compare
  <2>3. PICK q : q = [req[r] EXCEPT !.pc = next, !.since = now - RecentWindow, !.unexpired = b] OBVIOUS
  <2>4. q.pc = next /\ q.shown = {} /\ q.op = req[r].op BY <1>0, <2>2, <2>3 DEF RequestType, Reading
  <2>5. Reading(q)' BY <2>4 DEF Reading, HasRead
  <2>6. req' = [req EXCEPT ![r] = q] BY <2>2, <2>3 DEF SessionTypes
  <2> QED BY <2>2, <2>5, <2>6, PageGoesOn
<1>5. CASE (Lookup(r) \/ Compare(r)) /\ Reply(r)
  BY <1>1, <1>5 DEF Lookup, Compare
<1> QED BY <1>1, <1>2, <1>3, <1>4, <1>5

\* S is what a statement may return of the node to request q, and E holds every
\* row as it is.
Returned(q, node, S, E) ==
  LET matching == {i \in Items : NodeOf[i] = node /\ Lists(q.op, q.since, i)} IN
  /\ q.op \in Pages /\ Present(rows) \subseteq E
  /\ S \in IF q.op = "history" THEN Newest(matching) ELSE {matching}

\* Such a list is true, and leaves out nothing unless it is full.
Complete(q, node, S, E) ==
  /\ \A i \in S : i \in Items /\ NodeOf[i] = node /\ \E e \in E : e[1] = i /\ Fits(q, i, e[2])
  /\ \A i \in Fitting(q, rows) \ S :
       NodeOf[i] = node =>
         /\ q.op = "history" /\ Cardinality(S) = HistoryLimit
         /\ \A j \in S : \E e, f \in E : e[1] = j /\ f[1] = i /\ e[2].seen >= f[2].seen

\* What a statement returns is there now, and it leaves out nothing that fits
\* unless the history page is full.
LEMMA NodeRead ==
  ASSUME SessionTypes, NEW q, NEW node, NEW S, NEW E, Returned(q, node, S, E)
  PROVE  Complete(q, node, S, E)
<1> DEFINE matching == {i \in Items : NodeOf[i] = node /\ Lists(q.op, q.since, i)}
<1>a. q.op \in Pages /\ Present(rows) \subseteq E /\ S \in IF q.op = "history" THEN Newest(matching) ELSE {matching}
  BY DEF Returned
<1>0. /\ rows \in [Items -> Row] /\ S \subseteq matching
      /\ \A i \in Items : <<i, rows[i]>> \in E
  BY <1>a DEF SessionTypes, Present, Newest
<1>1. \A i \in Items : Lists(q.op, q.since, i) <=> Fits(q, i, rows[i]) BY <1>a DEF Lists, OnDashboard, StalenessCandidate, InHistory, Fits, Pages
<1>2. ASSUME NEW i \in S PROVE i \in Items /\ NodeOf[i] = node /\ \E e \in E : e[1] = i /\ Fits(q, i, e[2])
  <2>1. i \in Items /\ NodeOf[i] = node /\ Fits(q, i, rows[i]) BY <1>0, <1>1
  <2>2. <<i, rows[i]>>[1] = i /\ <<i, rows[i]>>[2] = rows[i] OBVIOUS
  <2> QED BY <1>0, <2>1, <2>2
<1>3. ASSUME NEW i \in Fitting(q, rows) \ S, NodeOf[i] = node
      PROVE  /\ q.op = "history" /\ Cardinality(S) = HistoryLimit
             /\ \A j \in S : \E e, f \in E : e[1] = j /\ f[1] = i /\ e[2].seen >= f[2].seen
  <2>1. i \in Items /\ i \in matching /\ i \notin S BY <1>1, <1>3 DEF Fitting
  <2>2. q.op = "history" /\ S \in Newest(matching) BY <1>a, <2>1
  <2>3. Cardinality(S) = HistoryLimit /\ \A j \in S : rows[i].seen <= rows[j].seen BY <2>1, <2>2 DEF Newest
  <2>4. ASSUME NEW j \in S PROVE \E e, f \in E : e[1] = j /\ f[1] = i /\ e[2].seen >= f[2].seen
    <3>1. j \in Items /\ rows[i] \in Row /\ rows[j] \in Row BY <1>0, <1>2, <2>1
    <3>2. rows[j].seen >= rows[i].seen BY <2>3, <3>1 DEF Row
    <3>3. PICK e \in E, f \in E : e = <<j, rows[j]>> /\ f = <<i, rows[i]>> BY <1>0, <2>1, <3>1
    <3>4. e[1] = j /\ f[1] = i /\ e[2] = rows[j] /\ f[2] = rows[i] BY <3>3
    <3> QED BY <3>2, <3>4
  <2> QED BY <2>2, <2>3, <2>4
<1> QED BY <1>2, <1>3 DEF Complete

\* Rows S of one node leave no room for row i.
LEMMA CrowdedBy ==
  ASSUME NEW q, NEW i, NEW S, {j \in q.shown : NodeOf[j] = NodeOf[i]} = S,
         q.op = "history", Cardinality(S) = HistoryLimit,
         \A j \in S : \E e, f \in q.ever : e[1] = j /\ f[1] = i /\ e[2].seen >= f[2].seen
  PROVE  Crowded(q, i)
<1> DEFINE L == {j \in q.shown : NodeOf[j] = NodeOf[i]}
<1>1. L = S OBVIOUS
<1>2. Cardinality(L) = HistoryLimit BY <1>1
<1>3. \A j \in L : \E e, f \in q.ever : e[1] = j /\ f[1] = i /\ e[2].seen >= f[2].seen BY <1>1
<1> QED BY <1>2, <1>3 DEF Crowded

\* The first node is read: what it lists is present now.
LEMMA FirstRead ==
  ASSUME SessionTypes, PagesRead, NEW r \in Reqs, ReadFirst(r)
  PROVE  PagesRead'
<1>0. /\ req[r] \in RequestType /\ Reading(req[r]) /\ req[r].pc = "first" /\ UNCHANGED rows
      /\ rows \in [Items -> Row]
  BY DEF SessionTypes, PagesRead, ReadFirst, ReadNode
<1>1. PICK matching : matching = {i \in Items : NodeOf[i] = First /\ Lists(req[r].op, req[r].since, i)} OBVIOUS
<1>2. PICK P, A : P = Present(rows) /\ A = Fitting(req[r], rows) OBVIOUS
<1>3. req[r].shown = {} /\ req[r].op \in Pages BY <1>0 DEF Reading
<1>4. PICK S \in IF req[r].op = "history" THEN Newest(matching) ELSE {matching} :
        req' = [req EXCEPT ![r].pc = "second", ![r].shown = @ \union S, ![r].always = A, ![r].ever = P]
  BY <1>1, <1>2 DEF ReadFirst, ReadNode
<1>5. PICK q : q = [req[r] EXCEPT !.pc = "second", !.shown = S, !.always = A, !.ever = P] OBVIOUS
<1>6. /\ q.pc = "second" /\ q.shown = S /\ q.op = req[r].op /\ q.since = req[r].since
      /\ q.always = A /\ q.ever = P
  BY <1>0, <1>5 DEF RequestType
<1>7. req' = [req EXCEPT ![r] = q]
  <2>1. req[r].shown \union S = S BY <1>3
  <2> QED BY <1>4, <1>5, <2>1 DEF SessionTypes
<1>8. Reading(q)'
  <2>1. Present(rows') = P /\ Fitting(q, rows') = A
    BY <1>0, <1>2, <1>6 DEF Present, Fitting, Fits
  <2>2. /\ \A i \in S : i \in Items /\ NodeOf[i] = First /\ \E e \in P : e[1] = i /\ Fits(req[r], i, e[2])
        /\ \A i \in A \ S :
             NodeOf[i] = First =>
               /\ req[r].op = "history" /\ Cardinality(S) = HistoryLimit
               /\ \A j \in S : \E e, f \in P : e[1] = j /\ f[1] = i /\ e[2].seen >= f[2].seen
    <3>1. Returned(req[r], First, S, P) BY <1>1, <1>2, <1>3 DEF Returned
    <3>2. Complete(req[r], First, S, P) BY <3>1, NodeRead
    <3> QED BY <1>2, <3>2 DEF Complete
  <2>3. \A i \in S : HasRead(q, i) /\ \E e \in P : e[1] = i /\ Fits(q, i, e[2])
    <3>1. \A i, row : Fits(q, i, row) <=> Fits(req[r], i, row) BY <1>6 DEF Fits
    <3> QED BY <1>6, <2>2, <3>1 DEF HasRead
  <2>4. ASSUME NEW i \in A \ S, HasRead(q, i) PROVE Crowded(q, i)
    <3>1. NodeOf[i] = First BY <1>6, <2>4 DEF HasRead
    <3>2. {j \in q.shown : NodeOf[j] = NodeOf[i]} = S BY <1>6, <2>2, <3>1
    <3>3. /\ q.op = "history" /\ Cardinality(S) = HistoryLimit
          /\ \A j \in S : \E e, f \in q.ever : e[1] = j /\ f[1] = i /\ e[2].seen >= f[2].seen
      <4>1. i \in A \ S BY <2>4
      <4> QED BY <1>6, <2>2, <3>1, <4>1
    <3> QED BY <3>2, <3>3, CrowdedBy
  <2>5. \A i \in q.shown : HasRead(q, i)' /\ \E e \in q.ever : e[1] = i /\ Fits(q, i, e[2])'
    BY <1>6, <2>3 DEF HasRead, Fits
  <2>6. \A i \in q.always \ q.shown : HasRead(q, i)' => Crowded(q, i)' BY <1>6, <2>4 DEF HasRead, Crowded
  <2> QED BY <1>3, <1>6, <2>1, <2>5, <2>6 DEF Reading
<1> QED BY <1>0, <1>7, <1>8, PageGoesOn

\* The other node is read: all are, and what was listed from the first stays.
LEMMA SecondRead ==
  ASSUME SessionTypes, PagesRead, NEW r \in Reqs, ReadSecond(r)
  PROVE  PagesRead'
<1>0. /\ req[r] \in RequestType /\ Reading(req[r]) /\ req[r].pc = "second" /\ UNCHANGED rows
      /\ rows \in [Items -> Row]
  BY DEF SessionTypes, PagesRead, ReadSecond, ReadNode
<1>1. PICK n \in Nodes \ {First} : ReadNode(r, "second", "rest", n) BY DEF ReadSecond
<1>2. \A i \in Items : NodeOf[i] = First \/ NodeOf[i] = n
  BY NodesAssumption DEF NodesAssumption
<1>3. PICK matching : matching = {i \in Items : NodeOf[i] = n /\ Lists(req[r].op, req[r].since, i)} OBVIOUS
<1>4. PICK S \in IF req[r].op = "history" THEN Newest(matching) ELSE {matching} :
        req' = [req EXCEPT ![r].pc = "rest", ![r].shown = @ \union S, ![r].always = @, ![r].ever = @]
  BY <1>1, <1>3 DEF ReadNode
<1>5. PICK Old, All : Old = req[r].shown /\ All = Old \union S OBVIOUS
<1>6. PICK q : q = [req[r] EXCEPT !.pc = "rest", !.shown = All] OBVIOUS
<1>7. /\ q.pc = "rest" /\ q.shown = All /\ q.op = req[r].op /\ q.since = req[r].since
      /\ q.always = req[r].always /\ q.ever = req[r].ever /\ q.op \in Pages
  BY <1>0, <1>6 DEF RequestType, Reading
<1>8. req' = [req EXCEPT ![r] = q]
  <2>1. req' = [req EXCEPT ![r] = [req[r] EXCEPT !.pc = "rest", !.shown = All,
                                                 !.always = req[r].always, !.ever = req[r].ever]]
    BY <1>4, <1>5 DEF SessionTypes
  <2>2. [req[r] EXCEPT !.pc = "rest", !.shown = All, !.always = req[r].always, !.ever = req[r].ever] = q
    BY <1>0, <1>6 DEF RequestType
  <2> QED BY <2>1, <2>2
<1>9. Reading(q)'
  <2>1. Present(rows') = Present(rows) /\ Fitting(q, rows') = Fitting(req[r], rows)
    BY <1>0, <1>7 DEF Present, Fitting, Fits
  <2>2. /\ Present(rows) \subseteq q.ever /\ q.always \subseteq Fitting(req[r], rows) /\ q.always \subseteq Items
        /\ \A i \in Old : NodeOf[i] = First /\ \E e \in q.ever : e[1] = i /\ Fits(req[r], i, e[2])
        /\ \A i \in q.always \ Old : NodeOf[i] = First => Crowded(req[r], i)
    BY <1>0, <1>5, <1>7 DEF Reading, HasRead, RequestType
  <2>3. /\ \A i \in S : i \in Items /\ NodeOf[i] = n /\ \E e \in q.ever : e[1] = i /\ Fits(req[r], i, e[2])
        /\ \A i \in Fitting(req[r], rows) \ S :
             NodeOf[i] = n =>
               /\ req[r].op = "history" /\ Cardinality(S) = HistoryLimit
               /\ \A j \in S : \E e, f \in q.ever : e[1] = j /\ f[1] = i /\ e[2].seen >= f[2].seen
    <3>1. Returned(req[r], n, S, q.ever) BY <1>3, <1>7, <2>2 DEF Returned
    <3>2. Complete(req[r], n, S, q.ever) BY <3>1, NodeRead
    <3> QED BY <3>2 DEF Complete
  <2>4. \A i \in All : HasRead(q, i)' /\ \E e \in q.ever : e[1] = i /\ Fits(q, i, e[2])'
    <3>1. \A i \in All : \E e \in q.ever : e[1] = i /\ Fits(req[r], i, e[2]) BY <1>5, <2>2, <2>3
    <3> QED BY <1>7, <3>1 DEF HasRead, Fits
  <2>5. ASSUME NEW i \in q.always \ All PROVE Crowded(q, i)
    <3>0. i \in Items /\ i \notin Old /\ i \notin S BY <1>5, <2>2
    <3>1. CASE NodeOf[i] = First
      <4>1. Crowded(req[r], i) BY <2>2, <3>0, <3>1
      <4>2. {j \in All : NodeOf[j] = NodeOf[i]} = {j \in Old : NodeOf[j] = NodeOf[i]}
        BY <1>1, <1>5, <2>3, <3>1
      <4> QED BY <1>5, <1>7, <4>1, <4>2 DEF Crowded
    <3>2. CASE NodeOf[i] = n
      <4>1. {j \in All : NodeOf[j] = NodeOf[i]} = S BY <1>1, <1>5, <2>2, <2>3, <3>2
      <4>2. i \in Fitting(req[r], rows) \ S BY <2>2, <3>0
      <4> QED BY <1>7, <2>3, <3>2, <4>1, <4>2 DEF Crowded
    <3> QED BY <1>2, <3>0, <3>1, <3>2
  <2>6. \A i \in q.always \ q.shown : HasRead(q, i)' => Crowded(q, i)' BY <1>7, <2>5 DEF Crowded
  <2> QED BY <1>7, <2>1, <2>2, <2>4, <2>6 DEF Reading
<1> QED BY <1>0, <1>8, <1>9, PageGoesOn

\* A row changes while pages are being read.
LEMMA PagesSeeChange ==
  ASSUME SessionTypes, PagesRead, NEW i \in Items, NEW row \in Row, RowBecomes(i, row)
  PROVE  PagesRead'
<1> SUFFICES ASSUME NEW r \in Reqs PROVE Reading(req[r])' BY DEF PagesRead
<1>0. req[r] \in RequestType /\ Reading(req[r]) BY DEF SessionTypes, PagesRead
<1>1. PICK q : q = req'[r] OBVIOUS
<1>2. CASE req[r].pc \in {"second", "rest"}
  <2>1. q = [req[r] EXCEPT !.always = @ \intersect Fitting(req[r], rows'), !.ever = @ \union Present(rows')]
    BY <1>1, <1>2 DEF RowBecomes
  <2>2. /\ q.pc = req[r].pc /\ q.op = req[r].op /\ q.since = req[r].since /\ q.shown = req[r].shown
        /\ q.always = req[r].always \intersect Fitting(req[r], rows') /\ q.ever = req[r].ever \union Present(rows')
    BY <1>0, <2>1 DEF RequestType
  <2>3. req[r].op \in Pages /\ req[r].pc \notin {"arrived", "compare", "first"} BY <1>0, <1>2 DEF Reading
  <2>4. /\ \A j \in req[r].shown : HasRead(req[r], j) /\ \E e \in req[r].ever : e[1] = j /\ Fits(req[r], j, e[2])
        /\ \A j \in req[r].always \ req[r].shown : HasRead(req[r], j) => Crowded(req[r], j)
    BY <1>0, <1>2 DEF Reading
  <2>5. Fitting(q, rows') = Fitting(req[r], rows') BY <2>2 DEF Fitting, Fits
  <2>6. \A j \in q.shown : HasRead(q, j)' /\ \E e \in q.ever : e[1] = j /\ Fits(q, j, e[2])'
    <3>1. \A j, row2 : Fits(q, j, row2) <=> Fits(req[r], j, row2) BY <2>2 DEF Fits
    <3>2. \A j : HasRead(q, j) <=> HasRead(req[r], j) BY <2>2 DEF HasRead
    <3>3. \A j \in q.shown : HasRead(q, j) /\ \E e \in q.ever : e[1] = j /\ Fits(q, j, e[2])
      <4>1. ASSUME NEW j \in q.shown PROVE HasRead(q, j) /\ \E e \in q.ever : e[1] = j /\ Fits(q, j, e[2])
        <5>1. j \in req[r].shown BY <2>2
        <5>2. PICK e \in req[r].ever : e[1] = j /\ Fits(req[r], j, e[2]) BY <2>4, <5>1
        <5>3. e \in q.ever BY <2>2, <5>2
        <5>4. Fits(q, j, e[2]) BY <3>1, <5>2
        <5>5. HasRead(q, j) BY <2>4, <3>2, <5>1
        <5> QED BY <5>2, <5>3, <5>4, <5>5
      <4> QED BY <4>1
    <3>4. \A j, row2 : Fits(q, j, row2)' <=> Fits(q, j, row2) BY DEF Fits
    <3>5. \A j : HasRead(q, j)' <=> HasRead(q, j) BY DEF HasRead
    <3> QED BY <3>3, <3>4, <3>5
  <2>7. ASSUME NEW j \in q.always \ q.shown, HasRead(q, j)' PROVE Crowded(q, j)'
    <3>1. Crowded(req[r], j) BY <2>2, <2>4, <2>7 DEF HasRead
    <3> QED BY <2>2, <3>1 DEF Crowded
  <2>8. Present(rows)' \subseteq q.ever /\ q.always \subseteq Fitting(q, rows)' BY <2>2, <2>5 DEF Present, Fitting, Fits
  <2>9. Reading(q)' BY <2>2, <2>3, <2>6, <2>7, <2>8 DEF Reading
  <2> QED BY <1>1, <2>9
<1>3. CASE req[r].pc \notin {"second", "rest"}
  <2>1. req'[r] = req[r] BY <1>3 DEF RowBecomes
  <2> QED BY <1>0, <1>3, <2>1 DEF Reading
<1> QED BY <1>2, <1>3

\* What a page lists was so at some time while it was read, and what was so all
\* the while is listed, unless the history page is full of rows seen as late:
\* buildNodeView, stalenessCandidates and FindingHistory read one node after
\* the other, for any rows, window and limit.
THEOREM PageTruthfulHolds == Spec => []PageTruthful
<1>1. Init => PagesRead BY DEF Init, PagesRead, Reading, HasRead, Idle
<1>2. ASSUME SessionInv, PagesRead, [Next]_vars PROVE PagesRead'
  <2>1. SessionTypes BY <1>2 DEF SessionInv
  <2>2. ASSUME NEW r \in Reqs,
               \/ HandleLoginGet(r) \/ Forbidden(r) \/ HandleLogout(r)
               \/ HandleDecisionsPost(r) \/ Render(r) \/ PageFails(r)
        PROVE  PagesRead'
    <3>1. Reply(r) /\ UNCHANGED rows
      BY <2>2 DEF HandleLoginGet, Forbidden, HandleLogout, HandleDecisionsPost, Render, PageFails
    <3> QED BY <1>2, <2>1, <3>1, NotReadingSteps
  <2>3. ASSUME NEW r \in Reqs, ReadFirst(r) \/ ReadSecond(r) PROVE PagesRead'
    BY <1>2, <2>1, <2>3, FirstRead, SecondRead
  <2>4. ASSUME NEW r \in Reqs,
               \/ \E op \in Ops, cookie \in Ids \union {0}, csrf \in (Ids \X (1..MaxStarts)) \union {<<0, 0>>} :
                    Arrive(r, op, cookie, csrf)
               \/ Lookup(r) \/ Compare(r)
        PROVE  PagesRead'
    BY <1>2, <2>1, <2>4, NotReadingSteps
  <2>5. CASE Restart
    BY <2>5 DEF Restart, PagesRead, Reading, HasRead, Idle
  <2>6. CASE Tick \/ UNCHANGED vars
    <3>1. UNCHANGED <<rows, req>> BY <2>6 DEF Tick, vars
    <3>2. ASSUME NEW r \in Reqs PROVE Reading(req[r])'
      <4>1. PICK s : s = req[r] OBVIOUS
      <4>2. Reading(s) BY <1>2, <4>1 DEF PagesRead
      <4>3. Reading(s)' BY <3>1, <4>2, PageStays
      <4> QED BY <3>1, <4>1, <4>3
    <3> QED BY <3>2 DEF PagesRead
  <2>7. CASE \E i \in Items : \/ \E at \in 0..now : Reported(i, at)
                             \/ SnoozeEntity(i) \/ ResolveMissingFinding(i)
    <3>1. \E i \in Items, row \in Row : RowBecomes(i, row) BY <2>1, <2>7, RowChanges
    <3> QED BY <1>2, <2>1, <3>1, PagesSeeChange
  <2> QED BY <1>2, <2>2, <2>3, <2>4, <2>5, <2>6, <2>7 DEF Next
<1>3. PagesRead => PageTruthful
  BY DEF PagesRead, Reading, HasRead, PageTruthful
<1> QED BY <1>1, <1>2, <1>3, SessionInvariant, PTL DEF Spec

=============================================================================
