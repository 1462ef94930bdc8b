-------------------------- MODULE PeerChannelProofs --------------------------
(***************************************************************************)
(* What PeerChannel guarantees for any number of messages, retries, lost   *)
(* attempts, failing statements, restarts and cancellations.               *)
(*                                                                         *)
(* What a handler's step says about its message (HandlerKnows) makes the   *)
(* acknowledgements and the refusals true; it needs that a message does    *)
(* not change once it is sent, so nothing is in flight before (Quiet).     *)
(* That the log is never behind the actions is a matter of counting: every *)
(* handler that may still act stands on a row nobody has used (Backed).    *)
(***************************************************************************)
EXTENDS PeerChannel, FiniteSetTheorems, TLAPS

\* Before a message is sent nothing knows of it.
Quiet ==
  \A m \in Msgs : call[m].pc = "new" =>
    /\ call[m].result = "none" /\ call[m].attempt = 0
    /\ saved[m] = 0 /\ recorded[m] = 0 /\ acted[m] = 0 /\ noted[m] = 0
    /\ \A a \in 0..Retries : req[<<m, a>>] = At("none")

\* Only a call with retries left waits for the next one, and a result is there
\* only when the call has returned.
Calling ==
  \A m \in Msgs :
    /\ call[m].pc = "backoff" => call[m].attempt < Retries
    /\ call[m].pc \in {"await", "backoff"} => call[m].result = "none"

\* A message that the server turns away.
TurnedAway(m) == flaw[m] \in {"token", "body"}

Stored(m) == recorded[m] >= 1 /\ (kind[m] = "report" => saved[m] >= 1)

\* What the step r of a handler tells of its message.
Knows(m, r) ==
  /\ r.reply # "none" => r.pc = "reply"
  /\ r.pc = "record" /\ kind[m] = "report" => saved[m] >= 1
  /\ r.pc \in {"act", "note", "hung"} => kind[m] = "decision" /\ recorded[m] >= 1
  /\ r.reply = "2xx" => Stored(m)
  /\ r.reply = "401" => flaw[m] = "token"
  /\ r.reply = "4xx" => flaw[m] = "body"
  /\ TurnedAway(m) => r.pc \in {"none", "sent", "reply", "closed"} /\ r.reply # "2xx"

HandlerKnows == \A m \in Msgs, a \in 0..Retries : Knows(m, req[<<m, a>>])

\* What the result of a call tells of its message.
CallerKnows ==
  \A m \in Msgs :
    /\ call[m].result = "ok" => Stored(m)
    /\ call[m].result \in {"unauthorized", "refused"} => TurnedAway(m)
    /\ TurnedAway(m) => saved[m] = 0 /\ recorded[m] = 0 /\ acted[m] = 0

\* The attempts of m that are at one of the steps.
AttemptsAt(m, steps) == {a \in 0..Retries : req[<<m, a>>].pc \in steps}

Backed ==
  \A m \in Msgs :
    /\ acted[m] + Cardinality(AttemptsAt(m, {"act"})) <= recorded[m]
    /\ noted[m] + Cardinality(AttemptsAt(m, {"act", "note"})) <= recorded[m]

KnowledgeInv == TypeOK /\ Quiet /\ Calling /\ HandlerKnows /\ CallerKnows

-----------------------------------------------------------------------------

\* Nothing has been sent.
LEMMA InitKnowledge == Init => KnowledgeInv
<1> SUFFICES ASSUME Init PROVE KnowledgeInv OBVIOUS
<1>1. TypeOK
  BY ChannelAssumption
     DEF ChannelAssumption, Init, TypeOK, At, CallType, Kinds, Flaws, Steps, Replies, Results
<1>2. \A m \in Msgs, a \in 0..Retries : req[<<m, a>>] = At("none")
  BY DEF Init, Requests
<1>3. Quiet BY <1>2 DEF Init, Quiet
<1>4. HandlerKnows
  <2> SUFFICES ASSUME NEW m \in Msgs, NEW a \in 0..Retries PROVE Knows(m, req[<<m, a>>])
    BY DEF HandlerKnows
  <2>1. req[<<m, a>>] = [pc |-> "none", reply |-> "none"] BY <1>2 DEF At
  <2> QED BY <2>1 DEF Knows
<1>5. Calling /\ CallerKnows BY DEF Init, Calling, CallerKnows, TurnedAway
<1> QED BY <1>1, <1>3, <1>4, <1>5 DEF KnowledgeInv

\* The two ways doWithRetry goes on after a failed attempt.
LEMMA AfterFailureCases ==
  ASSUME TypeOK, NEW m \in Msgs
  PROVE  /\ AfterFailure(m) \in CallType
         /\ AfterFailure(m).attempt = call[m].attempt
         /\ \/ /\ AfterFailure(m).pc = "backoff" /\ call[m].attempt < Retries
               /\ AfterFailure(m).result = call[m].result
            \/ /\ AfterFailure(m).pc = "returned"
               /\ AfterFailure(m).result \in {"cancelled", "unavailable"}
<1>1. call[m] \in CallType BY DEF TypeOK
<1> QED BY <1>1 DEF AfterFailure, Returns, CallType, Results

\* What it makes of an answer.
LEMMA AnsweredCases ==
  ASSUME TypeOK, NEW m \in Msgs, NEW code \in Replies, code # "none"
  PROVE  /\ Answered(m, code) \in CallType
         /\ Answered(m, code).attempt = call[m].attempt
         /\ \/ /\ Answered(m, code).pc = "backoff" /\ call[m].attempt < Retries
               /\ Answered(m, code).result = call[m].result
            \/ /\ Answered(m, code).pc = "returned"
               /\ \/ Answered(m, code).result \in {"cancelled", "unavailable"}
                  \/ Answered(m, code).result = "ok" /\ code = "2xx"
                  \/ Answered(m, code).result = "unauthorized" /\ code = "401"
                  \/ Answered(m, code).result = "refused" /\ code = "4xx"
<1>1. call[m] \in CallType BY DEF TypeOK
<1>2. CASE code = "2xx" \/ (code \in {"401", "4xx"} /\ m \notin ctxDone)
  BY <1>1, <1>2 DEF Answered, Returns, CallType, Results
<1>3. CASE ~(code = "2xx" \/ (code \in {"401", "4xx"} /\ m \notin ctxDone))
  <2>1. Answered(m, code) = AfterFailure(m) BY <1>3 DEF Answered
  <2> QED BY <2>1, AfterFailureCases
<1> QED BY <1>2, <1>3

\* A call that goes on to c, when the handlers stay as they are: nothing is
\* known but what c's result says.
LEMMA CallGoesOn ==
  ASSUME KnowledgeInv, NEW m \in Msgs, call[m].pc # "new", NEW c \in CallType,
         call' = [call EXCEPT ![m] = c], UNCHANGED <<kind, flaw, saved, recorded, acted, noted>>,
         c.pc # "new", c.pc = "backoff" => c.attempt < Retries,
         c.pc \in {"await", "backoff"} => c.result = "none",
         c.result = "ok" => Stored(m),
         c.result \in {"unauthorized", "refused"} => TurnedAway(m),
         \A p \in Msgs, a \in 0..Retries : req'[<<p, a>>] = req[<<p, a>>] \/ (p = m /\ req'[<<p, a>>] \in {At("closed"), At("sent")})
  PROVE  Quiet' /\ Calling' /\ HandlerKnows' /\ CallerKnows' /\ call' \in [Msgs -> CallType]
<1>0. call \in [Msgs -> CallType] BY DEF KnowledgeInv, TypeOK
<1>1. call' \in [Msgs -> CallType] /\ \A p \in Msgs : call'[p] = IF p = m THEN c ELSE call[p]
  BY <1>0
<1>2. Quiet' BY <1>1 DEF KnowledgeInv, Quiet
<1>3. Calling' BY <1>1 DEF KnowledgeInv, Calling
<1>4. HandlerKnows'
  <2> SUFFICES ASSUME NEW p \in Msgs, NEW a \in 0..Retries PROVE Knows(p, req[<<p, a>>])'
    BY DEF HandlerKnows
  <2>1. CASE req'[<<p, a>>] = req[<<p, a>>]
    BY <2>1 DEF KnowledgeInv, HandlerKnows, Knows, Stored, TurnedAway
  <2>2. CASE req'[<<p, a>>] \in {At("closed"), At("sent")}
    BY <2>2 DEF Knows, At
  <2> QED BY <2>1, <2>2
<1>5. CallerKnows' BY <1>1 DEF KnowledgeInv, CallerKnows, Stored, TurnedAway
<1> QED BY <1>1, <1>2, <1>3, <1>4, <1>5

\* A step of the client.
LEMMA ClientKeepsKnowledge ==
  ASSUME KnowledgeInv, NEW m \in Msgs, ClientStep(m)
  PROVE  KnowledgeInv'
<1>0. /\ call[m] \in CallType /\ call \in [Msgs -> CallType]
      /\ req \in [Requests -> [pc : Steps, reply : Replies]]
      /\ TypeOK /\ Now(m) \in Requests
  BY DEF KnowledgeInv, TypeOK, Now, Requests, CallType
<1>1. CASE Send(m)
  <2>1. TypeOK' BY <1>0, <1>1 DEF Send, TypeOK, CallType, Steps, Replies, At, server, bounds
  <2>2. Quiet' BY <1>0, <1>1 DEF Send, KnowledgeInv, Quiet, server, Now, Requests
  <2>3. Calling' BY <1>0, <1>1 DEF Send, KnowledgeInv, Quiet, Calling, CallType
  <2>4. HandlerKnows'
    <3> SUFFICES ASSUME NEW p \in Msgs, NEW a \in 0..Retries PROVE Knows(p, req[<<p, a>>])'
      BY DEF HandlerKnows
    <3>1. CASE p = m
      <4>1. req'[<<p, a>>] \in {At("none"), At("sent")}
        BY <1>0, <1>1, <3>1 DEF Send, KnowledgeInv, Quiet, Requests
      <4> QED BY <4>1 DEF Knows, At
    <3>2. CASE p # m
      <4>1. req'[<<p, a>>] = req[<<p, a>>]
        BY <1>0, <1>1, <3>2 DEF Send, Now, Requests
      <4>2. kind'[p] = kind[p] /\ flaw'[p] = flaw[p]
        BY <1>0, <1>1, <3>2 DEF Send, TypeOK
      <4> QED BY <1>1, <4>1, <4>2 DEF Send, server, KnowledgeInv, HandlerKnows, Knows, Stored, TurnedAway
    <3> QED BY <3>1, <3>2
  <2>5. CallerKnows'
    <3> SUFFICES ASSUME NEW p \in Msgs
                 PROVE  /\ call'[p].result = "ok" => Stored(p)'
                        /\ call'[p].result \in {"unauthorized", "refused"} => TurnedAway(p)'
                        /\ TurnedAway(p)' => saved'[p] = 0 /\ recorded'[p] = 0 /\ acted'[p] = 0
      BY DEF CallerKnows
    <3>1. CASE p = m BY <1>0, <1>1, <3>1 DEF Send, server, KnowledgeInv, Quiet, CallType
    <3>2. CASE p # m
      <4>1. kind'[p] = kind[p] /\ flaw'[p] = flaw[p] /\ call'[p] = call[p]
        BY <1>0, <1>1, <3>2 DEF Send, TypeOK
      <4> QED BY <1>1, <4>1 DEF Send, server, KnowledgeInv, CallerKnows, Stored, TurnedAway
    <3> QED BY <3>1, <3>2
  <2> QED BY <2>1, <2>2, <2>3, <2>4, <2>5 DEF KnowledgeInv
<1>2. CASE Receive(m)
  <2> DEFINE code == req[Now(m)].reply
             c == Answered(m, code)
  <2>1. code \in Replies /\ code # "none" /\ call[m].pc = "await" BY <1>0, <1>2 DEF Receive
  <2>2. Knows(m, req[Now(m)]) BY <1>0 DEF KnowledgeInv, HandlerKnows, Now, CallType
  <2>3. call[m].result = "none" BY <2>1 DEF KnowledgeInv, Calling
  <2>4. /\ c \in CallType /\ c.pc \in {"backoff", "returned"} /\ (c.pc = "backoff" => c.attempt < Retries)
        /\ (c.pc = "backoff" => c.result = "none")
        /\ (c.result = "ok" => code = "2xx") /\ (c.result = "unauthorized" => code = "401")
        /\ (c.result = "refused" => code = "4xx")
    BY <1>0, <2>1, <2>3, AnsweredCases
  <2>5. c.result = "ok" => Stored(m) BY <2>2, <2>4 DEF Knows
  <2>6. c.result \in {"unauthorized", "refused"} => TurnedAway(m) BY <2>2, <2>4 DEF Knows, TurnedAway
  <2>7. /\ call' = [call EXCEPT ![m] = c] /\ UNCHANGED <<kind, flaw, saved, recorded, acted, noted>>
        /\ req' = [req EXCEPT ![Now(m)] = At("closed")]
    BY <1>2 DEF Receive, input, server
  <2>8. \A p \in Msgs, a \in 0..Retries : req'[<<p, a>>] = req[<<p, a>>] \/ (p = m /\ req'[<<p, a>>] \in {At("closed"), At("sent")})
    BY <1>0, <2>7 DEF Now, Requests
  <2>9. Quiet' /\ Calling' /\ HandlerKnows' /\ CallerKnows' /\ call' \in [Msgs -> CallType]
    <3> HIDE DEF c, code
    <3> QED BY <2>1, <2>4, <2>5, <2>6, <2>7, <2>8, CallGoesOn
  <2>10. TypeOK' BY <1>0, <1>2, <2>7, <2>9 DEF Receive, TypeOK, At, Steps, Replies, input, server, bounds
  <2> QED BY <2>9, <2>10 DEF KnowledgeInv
<1>3. CASE AttemptFails(m)
  <2> DEFINE c == AfterFailure(m)
  <2>1. call[m].pc = "await" /\ call[m].result = "none"
    BY <1>3 DEF AttemptFails, KnowledgeInv, Calling
  <2>2. /\ c \in CallType /\ c.pc \in {"backoff", "returned"} /\ (c.pc = "backoff" => c.attempt < Retries)
        /\ (c.pc = "backoff" => c.result = "none")
        /\ c.result \notin {"ok", "unauthorized", "refused"}
    BY <1>0, <2>1, AfterFailureCases
  <2>3. /\ call' = [call EXCEPT ![m] = c] /\ UNCHANGED <<kind, flaw, saved, recorded, acted, noted>>
        /\ UNCHANGED req
    BY <1>3 DEF AttemptFails, input, server
  <2>4. Quiet' /\ Calling' /\ HandlerKnows' /\ CallerKnows' /\ call' \in [Msgs -> CallType]
    <3> HIDE DEF c
    <3> QED BY <2>1, <2>2, <2>3, CallGoesOn
  <2>5. TypeOK'
    <3>1. netFaults' \in Nat BY <1>0, <1>3 DEF AttemptFails, TypeOK
    <3> QED BY <1>0, <1>3, <2>3, <2>4, <3>1 DEF AttemptFails, TypeOK, input, server
  <2> QED BY <2>4, <2>5 DEF KnowledgeInv
<1>4. CASE Retry(m)
  <2> DEFINE c == [call[m] EXCEPT !.pc = "await", !.attempt = call[m].attempt + 1]
             q == <<m, call[m].attempt + 1>>
  <2>1. call[m].pc = "backoff" /\ call[m].attempt < Retries /\ call[m].result = "none"
    BY <1>4 DEF Retry, KnowledgeInv, Calling
  <2>2. c \in CallType /\ c.pc = "await" /\ c.result = "none"
    <3>1. call[m].attempt + 1 \in 0..Retries BY <1>0, <2>1, ChannelAssumption DEF CallType, ChannelAssumption
    <3> QED BY <1>0, <2>1, <3>1 DEF CallType
  <2>3. q \in Requests BY <1>0, <2>1, ChannelAssumption DEF Requests, CallType, ChannelAssumption
  <2>4. /\ call' = [call EXCEPT ![m] = c] /\ UNCHANGED <<kind, flaw, saved, recorded, acted, noted>>
        /\ req' = [req EXCEPT ![q] = At("sent")]
    BY <1>0, <1>4 DEF Retry, input, server, CallType
  <2>5. \A p \in Msgs, a \in 0..Retries : req'[<<p, a>>] = req[<<p, a>>] \/ (p = m /\ req'[<<p, a>>] \in {At("closed"), At("sent")})
    BY <1>0, <2>3, <2>4 DEF Requests
  <2>6. Quiet' /\ Calling' /\ HandlerKnows' /\ CallerKnows' /\ call' \in [Msgs -> CallType]
    <3> HIDE DEF c, q
    <3> QED BY <2>1, <2>2, <2>4, <2>5, CallGoesOn
  <2>7. TypeOK' BY <1>0, <1>4, <2>3, <2>4, <2>6 DEF Retry, TypeOK, At, Steps, Replies, input, server, bounds
  <2> QED BY <2>6, <2>7 DEF KnowledgeInv
<1>5. CASE StopWaiting(m)
  <2> DEFINE c == Returns(m, "cancelled")
  <2>1. call[m].pc = "backoff" BY <1>5 DEF StopWaiting
  <2>2. c \in CallType /\ c.pc = "returned" /\ c.result = "cancelled"
    BY <1>0 DEF Returns, CallType, Results
  <2>3. /\ call' = [call EXCEPT ![m] = c] /\ UNCHANGED <<kind, flaw, saved, recorded, acted, noted>>
        /\ UNCHANGED req
    BY <1>5 DEF StopWaiting, input, server
  <2>4. Quiet' /\ Calling' /\ HandlerKnows' /\ CallerKnows' /\ call' \in [Msgs -> CallType]
    <3> HIDE DEF c
    <3> QED BY <2>1, <2>2, <2>3, CallGoesOn
  <2>5. TypeOK' BY <1>0, <1>5, <2>3, <2>4 DEF StopWaiting, TypeOK, input, server, bounds
  <2> QED BY <2>4, <2>5 DEF KnowledgeInv
<1>6. CASE Logged(m)
  <2> DEFINE c == [call[m] EXCEPT !.pc = "end"]
  <2>1. call[m].pc = "returned" BY <1>6 DEF Logged
  <2>2. c \in CallType /\ c.pc = "end" /\ c.result = call[m].result
    BY <1>0 DEF CallType
  <2>3. /\ call' = [call EXCEPT ![m] = c] /\ UNCHANGED <<kind, flaw, saved, recorded, acted, noted>>
        /\ UNCHANGED req
    BY <1>6 DEF Logged, input, server
  <2>4. /\ call[m].result = "ok" => Stored(m)
        /\ call[m].result \in {"unauthorized", "refused"} => TurnedAway(m)
    BY DEF KnowledgeInv, CallerKnows
  <2>5. Quiet' /\ Calling' /\ HandlerKnows' /\ CallerKnows' /\ call' \in [Msgs -> CallType]
    <3> HIDE DEF c
    <3> QED BY <2>1, <2>2, <2>3, <2>4, CallGoesOn
  <2>6. TypeOK'
    <3>1. logged' \in [Msgs -> Nat] /\ storeFaults' \in Nat BY
      <1>6 DEF Logged, LogReport, LogHeartbeat, LogNothing, SaveOutbound, KnowledgeInv, TypeOK
    <3> QED BY <1>0, <1>6, <2>3, <2>5, <3>1 DEF Logged, TypeOK, input, server
  <2> QED BY <2>5, <2>6 DEF KnowledgeInv
<1> QED BY <1>1, <1>2, <1>3, <1>4, <1>5, <1>6 DEF ClientStep

\* What is stored of m only grows, and of the other messages stays; a message
\* that is turned away leaves nothing.
Grows(m) ==
  /\ \A p \in Msgs : /\ saved'[p] \in Nat /\ saved'[p] >= saved[p]
                     /\ recorded'[p] \in Nat /\ recorded'[p] >= recorded[p]
  /\ \A p \in Msgs \ {m} : acted'[p] = acted[p] /\ noted'[p] = noted[p]
                           /\ saved'[p] = saved[p] /\ recorded'[p] = recorded[p]
  /\ TurnedAway(m) => saved'[m] = saved[m] /\ recorded'[m] = recorded[m] /\ acted'[m] = acted[m]

\* A handler that goes on to step r of its own message, while what is
\* stored only grows: what the other handlers and the callers know stays true.
LEMMA HandlerGoesOn ==
  ASSUME KnowledgeInv, NEW m \in Msgs, NEW a \in 0..Retries, NEW r,
         req[<<m, a>>].pc # "none",
         req' = [req EXCEPT ![<<m, a>>] = r], UNCHANGED <<kind, flaw, call>>,
         Grows(m),
         Knows(m, r)'
  PROVE  Quiet' /\ Calling' /\ HandlerKnows' /\ CallerKnows'
<1>0. /\ req \in [Requests -> [pc : Steps, reply : Replies]]
      /\ saved \in [Msgs -> Nat] /\ recorded \in [Msgs -> Nat]
  BY DEF KnowledgeInv, TypeOK
<1>1. \A p \in Msgs, b \in 0..Retries : req'[<<p, b>>] = IF p = m /\ b = a THEN r ELSE req[<<p, b>>]
  BY <1>0 DEF Requests
<1>2. call[m].pc # "new"
  BY DEF KnowledgeInv, Quiet, At
<1>3. Quiet' BY <1>1, <1>2 DEF KnowledgeInv, Quiet, Grows
<1>4. Calling' BY DEF KnowledgeInv, Calling
<1>5. \A p \in Msgs : saved'[p] >= saved[p] /\ recorded'[p] >= recorded[p]
  BY DEF Grows
<1>6. \A p \in Msgs : Stored(p) => Stored(p)'
  BY <1>0, <1>5 DEF Stored, Grows
<1>7. HandlerKnows'
  <2> SUFFICES ASSUME NEW p \in Msgs, NEW b \in 0..Retries PROVE Knows(p, req[<<p, b>>])'
    BY DEF HandlerKnows
  <2>1. CASE p = m /\ b = a BY <1>1, <2>1
  <2>2. CASE ~(p = m /\ b = a)
    <3>1. req'[<<p, b>>] = req[<<p, b>>] BY <1>1, <2>2
    <3>2. Knows(p, req[<<p, b>>]) BY DEF KnowledgeInv, HandlerKnows
    <3>3. saved'[p] >= saved[p] /\ recorded'[p] >= recorded[p] /\ saved[p] \in Nat /\ recorded[p] \in Nat
          /\ saved'[p] \in Nat /\ recorded'[p] \in Nat
      BY <1>0 DEF Grows
    <3> QED BY <1>6, <3>1, <3>2, <3>3 DEF Knows, TurnedAway
  <2> QED BY <2>1, <2>2
<1>8. CallerKnows'
  <2> SUFFICES ASSUME NEW p \in Msgs
               PROVE  /\ call'[p].result = "ok" => Stored(p)'
                      /\ call'[p].result \in {"unauthorized", "refused"} => TurnedAway(p)'
                      /\ TurnedAway(p)' => saved'[p] = 0 /\ recorded'[p] = 0 /\ acted'[p] = 0
    BY DEF CallerKnows
  <2> QED BY <1>6 DEF KnowledgeInv, CallerKnows, TurnedAway, Grows
<1> QED BY <1>3, <1>4, <1>7, <1>8

\* A handler's steps and answers are what they are called.
LEMMA StepsAndReplies ==
  /\ \A s \in Steps : At(s) \in [pc : Steps, reply : Replies] /\ At(s).pc = s /\ At(s).reply = "none"
  /\ \A c \in Replies : /\ Replying(c) \in [pc : Steps, reply : Replies]
                        /\ Replying(c).pc = "reply" /\ Replying(c).reply = c
BY DEF At, Replying, Steps, Replies

\* A step of a handler.
LEMMA HandlerKeepsKnowledge ==
  ASSUME KnowledgeInv, NEW m \in Msgs, NEW a \in 0..Retries,
         Handler(<<m, a>>) \/ HangInDelete(<<m, a>>) \/ StoreFails(<<m, a>>)
  PROVE  KnowledgeInv'
<1> DEFINE q == <<m, a>>
<1>0. /\ q \in Requests /\ TypeOK /\ Knows(m, req[q])
      /\ req \in [Requests -> [pc : Steps, reply : Replies]]
      /\ saved \in [Msgs -> Nat] /\ recorded \in [Msgs -> Nat]
      /\ acted \in [Msgs -> Nat] /\ noted \in [Msgs -> Nat] /\ logged \in [Msgs -> Nat]
      /\ kind[m] \in Kinds /\ flaw[m] \in Flaws
  BY DEF KnowledgeInv, TypeOK, HandlerKnows, Requests
<1>1. CASE Handle(q)
  <2>1. PICK r \in [pc : Steps, reply : Replies] : r = Routed(m) /\ Knows(m, r)
    BY <1>0, StepsAndReplies DEF Routed, Knows, TurnedAway, Steps, Replies, Kinds, Flaws
  <2>2. /\ req[q].pc = "sent" /\ req' = [req EXCEPT ![q] = r]
        /\ UNCHANGED <<input, call, ctxDone, server, logged, bounds>>
    BY <1>1, <2>1 DEF Handle
  <2>3. Knows(m, r)' BY <2>1, <2>2 DEF Knows, TurnedAway, Stored, server, input
  <2>4. TypeOK' BY <1>0, <2>2 DEF TypeOK, server, input, bounds
  <2>5. Quiet' /\ Calling' /\ HandlerKnows' /\ CallerKnows'
    <3>1. Grows(m) BY <1>0, <2>2 DEF Grows, server
    <3> QED BY <2>2, <2>3, <3>1, HandlerGoesOn DEF input
  <2> QED BY <2>4, <2>5 DEF KnowledgeInv
<1>2. CASE SaveReport(q)
  <2>1. PICK r \in [pc : Steps, reply : Replies] : r = At("record")
    BY StepsAndReplies DEF Steps
  <2>2. /\ req[q].pc = "save" /\ req' = [req EXCEPT ![q] = r]
        /\ saved' = [saved EXCEPT ![m] = @ + 1]
        /\ UNCHANGED <<input, call, ctxDone, recorded, acted, noted, logged, bounds>>
    BY <1>2, <2>1 DEF SaveReport
  <2>3. saved' \in [Msgs -> Nat] /\ saved'[m] = saved[m] + 1 /\ ~TurnedAway(m)
        /\ \A p \in Msgs \ {m} : saved'[p] = saved[p]
    BY <1>0, <2>2 DEF Knows
  <2>4. Knows(m, r)' BY <1>0, <2>1, <2>2, <2>3 DEF Knows, At, TurnedAway, input
  <2>5. TypeOK' BY <1>0, <2>2, <2>3 DEF TypeOK, input, bounds
  <2>6. Quiet' /\ Calling' /\ HandlerKnows' /\ CallerKnows'
    <3>1. Grows(m) BY <1>0, <2>2, <2>3 DEF Grows
    <3> QED BY <2>2, <2>4, <3>1, HandlerGoesOn DEF input
  <2> QED BY <2>5, <2>6 DEF KnowledgeInv
<1>3. CASE RecordInbound(q)
  <2>1. PICK r \in [pc : Steps, reply : Replies] : r = AfterRecord(m)
    BY StepsAndReplies DEF AfterRecord, Steps, Replies
  <2>2. /\ req[q].pc = "record" /\ req' = [req EXCEPT ![q] = r]
        /\ recorded' = [recorded EXCEPT ![m] = @ + 1]
        /\ UNCHANGED <<input, call, ctxDone, saved, acted, noted, logged, bounds>>
    BY <1>3, <2>1 DEF RecordInbound
  <2>3. recorded' \in [Msgs -> Nat] /\ recorded'[m] = recorded[m] + 1 /\ ~TurnedAway(m)
        /\ \A p \in Msgs \ {m} : recorded'[p] = recorded[p]
    BY <1>0, <2>2 DEF Knows
  <2>4. Knows(m, r)'
    <3>1. kind[m] = "report" => saved[m] >= 1 BY <1>0, <2>2 DEF Knows
    <3>2. CASE kind[m] = "decision"
      BY <1>0, <2>1, <2>2, <2>3, <3>2 DEF Knows, AfterRecord, At, TurnedAway, Stored, input
    <3>3. CASE kind[m] # "decision"
      BY <1>0, <2>1, <2>2, <2>3, <3>1, <3>3 DEF Knows, AfterRecord, Replying, TurnedAway, Stored, input
    <3> QED BY <3>2, <3>3
  <2>5. TypeOK' BY <1>0, <2>2, <2>3 DEF TypeOK, input, bounds
  <2>6. Quiet' /\ Calling' /\ HandlerKnows' /\ CallerKnows'
    <3>1. Grows(m) BY <1>0, <2>2, <2>3 DEF Grows
    <3> QED BY <2>2, <2>4, <3>1, HandlerGoesOn DEF input
  <2> QED BY <2>5, <2>6 DEF KnowledgeInv
<1>4. CASE DeleteTorrents(q)
  <2>1. PICK r \in [pc : Steps, reply : Replies] : r = At("note")
    BY StepsAndReplies DEF Steps
  <2>2. /\ req[q].pc = "act" /\ req' = [req EXCEPT ![q] = r]
        /\ acted' = [acted EXCEPT ![m] = @ + 1]
        /\ UNCHANGED <<input, call, ctxDone, saved, recorded, noted, logged, bounds>>
    BY <1>4, <2>1 DEF DeleteTorrents
  <2>3. acted' \in [Msgs -> Nat] /\ ~TurnedAway(m) /\ \A p \in Msgs \ {m} : acted'[p] = acted[p]
    BY <1>0, <2>2 DEF Knows
  <2>4. Knows(m, r)' BY <1>0, <2>1, <2>2, <2>3 DEF Knows, At, TurnedAway, input
  <2>5. TypeOK' BY <1>0, <2>2, <2>3 DEF TypeOK, input, bounds
  <2>6. Quiet' /\ Calling' /\ HandlerKnows' /\ CallerKnows'
    <3>1. Grows(m) BY <1>0, <2>2, <2>3 DEF Grows
    <3> QED BY <2>2, <2>4, <3>1, HandlerGoesOn DEF input
  <2> QED BY <2>5, <2>6 DEF KnowledgeInv
<1>5. CASE HangInDelete(q)
  <2>1. PICK r \in [pc : Steps, reply : Replies] : r = At("hung")
    BY StepsAndReplies DEF Steps
  <2>2. /\ req[q].pc = "act" /\ req' = [req EXCEPT ![q] = r]
        /\ acted' = [acted EXCEPT ![m] = @ + 1]
        /\ UNCHANGED <<input, call, ctxDone, saved, recorded, noted, logged, bounds>>
    BY <1>5, <2>1 DEF HangInDelete
  <2>3. acted' \in [Msgs -> Nat] /\ ~TurnedAway(m) /\ \A p \in Msgs \ {m} : acted'[p] = acted[p]
    BY <1>0, <2>2 DEF Knows
  <2>4. Knows(m, r)' BY <1>0, <2>1, <2>2, <2>3 DEF Knows, At, TurnedAway, input
  <2>5. TypeOK' BY <1>0, <2>2, <2>3 DEF TypeOK, input, bounds
  <2>6. Quiet' /\ Calling' /\ HandlerKnows' /\ CallerKnows'
    <3>1. Grows(m) BY <1>0, <2>2, <2>3 DEF Grows
    <3> QED BY <2>2, <2>4, <3>1, HandlerGoesOn DEF input
  <2> QED BY <2>5, <2>6 DEF KnowledgeInv
<1>6. CASE SkipDelete(q)
  <2>1. PICK r \in [pc : Steps, reply : Replies] : r = At("note")
    BY StepsAndReplies DEF Steps
  <2>2. /\ req[q].pc = "act" /\ req' = [req EXCEPT ![q] = r]
        /\ UNCHANGED <<input, call, ctxDone, server, logged, bounds>>
    BY <1>6, <2>1 DEF SkipDelete
  <2>3. Knows(m, r)' BY <1>0, <2>1, <2>2 DEF Knows, At, TurnedAway, server, input
  <2>4. TypeOK' BY <1>0, <2>2 DEF TypeOK, server, input, bounds
  <2>5. Quiet' /\ Calling' /\ HandlerKnows' /\ CallerKnows'
    <3>1. Grows(m) BY <1>0, <2>2 DEF Grows, server
    <3> QED BY <2>2, <2>3, <3>1, HandlerGoesOn DEF input
  <2> QED BY <2>4, <2>5 DEF KnowledgeInv
<1>7. CASE RecordRemediation(q)
  <2>1. PICK r \in [pc : Steps, reply : Replies] : r = Replying("2xx")
    BY StepsAndReplies DEF Replies
  <2>2. /\ req[q].pc = "note" /\ req' = [req EXCEPT ![q] = r]
        /\ noted' = [noted EXCEPT ![m] = @ + 1]
        /\ UNCHANGED <<input, call, ctxDone, saved, recorded, acted, logged, bounds>>
    BY <1>7, <2>1 DEF RecordRemediation
  <2>3. noted' \in [Msgs -> Nat] /\ ~TurnedAway(m) /\ \A p \in Msgs \ {m} : noted'[p] = noted[p]
    BY <1>0, <2>2 DEF Knows
  <2>4. Knows(m, r)' BY <1>0, <2>1, <2>2, <2>3 DEF Knows, Replying, Stored, TurnedAway, input
  <2>5. TypeOK' BY <1>0, <2>2, <2>3 DEF TypeOK, input, bounds
  <2>6. Quiet' /\ Calling' /\ HandlerKnows' /\ CallerKnows'
    <3>1. Grows(m) BY <1>0, <2>2, <2>3 DEF Grows
    <3> QED BY <2>2, <2>4, <3>1, HandlerGoesOn DEF input
  <2> QED BY <2>5, <2>6 DEF KnowledgeInv
<1>8. CASE StoreFails(q)
  <2>1. PICK r \in [pc : Steps, reply : Replies] : r = AfterStoreFault(q)
    BY StepsAndReplies DEF AfterStoreFault, Replies
  <2>2. /\ req[q].pc \in {"save", "record", "note"} /\ req' = [req EXCEPT ![q] = r]
        /\ UNCHANGED <<input, call, ctxDone, server, logged>>
    BY <1>8, <2>1 DEF StoreFails
  <2>3. Knows(m, r)'
    <3>1. /\ r.pc = "reply" /\ r.reply \in {"5xx", "2xx"}
          /\ r.reply = "2xx" => req[q].pc = "note"
      BY StepsAndReplies, <2>1, <2>2 DEF AfterStoreFault, Replies
    <3> QED BY <1>0, <2>2, <3>1 DEF Knows, TurnedAway, Stored, server, input
  <2>4. TypeOK'
    <3>1. netFaults' \in Nat /\ storeFaults' \in Nat /\ crashes' \in Nat /\ cancels' \in Nat
      BY <1>0, <1>8 DEF StoreFails, TypeOK
    <3> QED BY <1>0, <2>2, <3>1 DEF TypeOK, server, input
  <2>5. Quiet' /\ Calling' /\ HandlerKnows' /\ CallerKnows'
    <3>1. Grows(m) BY <1>0, <2>2 DEF Grows, server
    <3> QED BY <2>2, <2>3, <3>1, HandlerGoesOn DEF input
  <2> QED BY <2>4, <2>5 DEF KnowledgeInv
<1> QED BY <1>1, <1>2, <1>3, <1>4, <1>5, <1>6, <1>7, <1>8 DEF Handler

\* The other steps: a caller gives up, or the receiving daemon restarts.
LEMMA OutsideKeepsKnowledge ==
  ASSUME KnowledgeInv, Crash \/ \E m \in Msgs : Cancel(m)
  PROVE  KnowledgeInv'
<1>1. CASE Crash
  <2>1. /\ UNCHANGED <<input, call, ctxDone, server, logged>>
        /\ \A m \in Msgs, a \in 0..Retries : req'[<<m, a>>] = req[<<m, a>>] \/ req'[<<m, a>>] = At("closed")
        /\ \A m \in Msgs, a \in 0..Retries : req[<<m, a>>] = At("none") => req'[<<m, a>>] = At("none")
    BY <1>1 DEF Crash, Requests, At
  <2>2. TypeOK'
    <3>1. req' \in [Requests -> [pc : Steps, reply : Replies]]
      BY <1>1 DEF Crash, KnowledgeInv, TypeOK, At, Steps, Replies
    <3>2. netFaults' \in Nat /\ storeFaults' \in Nat /\ crashes' \in Nat /\ cancels' \in Nat
      BY <1>1 DEF Crash, KnowledgeInv, TypeOK
    <3> QED BY <2>1, <3>1, <3>2 DEF KnowledgeInv, TypeOK, server, input
  <2>3. Quiet' BY <2>1 DEF KnowledgeInv, Quiet, server
  <2>4. Calling' /\ CallerKnows'
    BY <2>1 DEF KnowledgeInv, Calling, CallerKnows, Stored, TurnedAway, input, server
  <2>5. HandlerKnows'
    <3> SUFFICES ASSUME NEW m \in Msgs, NEW a \in 0..Retries PROVE Knows(m, req[<<m, a>>])'
      BY DEF HandlerKnows
    <3>1. CASE req'[<<m, a>>] = req[<<m, a>>]
      BY <2>1, <3>1 DEF KnowledgeInv, HandlerKnows, Knows, Stored, TurnedAway, input, server
    <3>2. CASE req'[<<m, a>>] = At("closed")
      BY <3>2 DEF Knows, At
    <3> QED BY <2>1, <3>1, <3>2
  <2> QED BY <2>2, <2>3, <2>4, <2>5 DEF KnowledgeInv
<1>2. ASSUME NEW m \in Msgs, Cancel(m) PROVE KnowledgeInv'
  <2>1. UNCHANGED <<input, call, req, server, logged>> BY <1>2 DEF Cancel
  <2>2. TypeOK'
    <3>1. ctxDone' \in SUBSET Msgs BY <1>2 DEF Cancel, KnowledgeInv, TypeOK
    <3>2. netFaults' \in Nat /\ storeFaults' \in Nat /\ crashes' \in Nat /\ cancels' \in Nat
      BY <1>2 DEF Cancel, KnowledgeInv, TypeOK
    <3> QED BY <2>1, <3>1, <3>2 DEF KnowledgeInv, TypeOK, server, input
  <2>3. Quiet' /\ Calling' /\ HandlerKnows' /\ CallerKnows'
    BY <2>1 DEF KnowledgeInv, Quiet, Calling, HandlerKnows, CallerKnows, Knows, Stored, TurnedAway, server, input
  <2> QED BY <2>2, <2>3 DEF KnowledgeInv
<1> QED BY <1>1, <1>2

\* Nothing happens.
LEMMA StutterKeepsKnowledge == KnowledgeInv /\ UNCHANGED vars => KnowledgeInv'
BY DEF KnowledgeInv, TypeOK, Quiet, Calling, HandlerKnows, CallerKnows, Knows, Stored, TurnedAway,
       vars, server, input, bounds

\* What callers and handlers know of a message is true throughout.
THEOREM KnowledgeInvariant == Spec => []KnowledgeInv
<1>1. ASSUME KnowledgeInv, [Next]_vars PROVE KnowledgeInv'
  <2>1. CASE \E m \in Msgs : ClientStep(m) BY <1>1, <2>1, ClientKeepsKnowledge
  <2>2. CASE \E q \in Requests : Handler(q) \/ HangInDelete(q) \/ StoreFails(q)
    <3>1. PICK q \in Requests : Handler(q) \/ HangInDelete(q) \/ StoreFails(q) BY <2>2
    <3>2. PICK m \in Msgs, a \in 0..Retries : q = <<m, a>> BY DEF Requests
    <3> QED BY <1>1, <3>1, <3>2, HandlerKeepsKnowledge
  <2>3. CASE Crash \/ \E m \in Msgs : Cancel(m) BY <1>1, <2>3, OutsideKeepsKnowledge
  <2>4. CASE UNCHANGED vars BY <1>1, <2>4, StutterKeepsKnowledge
  <2> QED BY <1>1, <2>1, <2>2, <2>3, <2>4 DEF Next
<1> QED BY <1>1, InitKnowledge, PTL DEF Spec

\* An acknowledgement is never given in advance: when PushReport, SendDecision
\* or Heartbeat returns without an error, the message has been recorded, and a
\* report has been saved.
THEOREM AckMeansStoredHolds == Spec => []AckMeansStored
<1>1. KnowledgeInv => AckMeansStored BY DEF KnowledgeInv, CallerKnows, Stored, AckMeansStored
<1> QED BY <1>1, KnowledgeInvariant, PTL

\* A message that is answered with a 401 or another 4xx, which doWithRetry
\* gives up on, has left nothing on the node that answered.
THEOREM RefusedLeavesNothingHolds == Spec => []RefusedLeavesNothing
<1>1. KnowledgeInv => RefusedLeavesNothing BY DEF KnowledgeInv, CallerKnows, RefusedLeavesNothing
<1> QED BY <1>1, KnowledgeInvariant, PTL

-----------------------------------------------------------------------------
(* The log is never behind the actions. *)

\* The attempts of a message are finitely many, so they can be counted.
LEMMA AttemptsCounted ==
  ASSUME NEW m \in Msgs, NEW S
  PROVE  IsFiniteSet(AttemptsAt(m, S)) /\ Cardinality(AttemptsAt(m, S)) \in Nat
<1>1. IsFiniteSet(0..Retries) BY ChannelAssumption, FS_Interval DEF ChannelAssumption
<1>2. AttemptsAt(m, S) \in SUBSET (0..Retries) BY DEF AttemptsAt
<1>3. IsFiniteSet(AttemptsAt(m, S)) BY <1>1, <1>2, FS_Subset
<1> QED BY <1>3, FS_CardinalityType

\* Before the first message nothing has been done.
LEMMA InitBacked == Init => Backed
<1> SUFFICES ASSUME Init, NEW m \in Msgs
             PROVE  /\ acted[m] + Cardinality(AttemptsAt(m, {"act"})) <= recorded[m]
                    /\ noted[m] + Cardinality(AttemptsAt(m, {"act", "note"})) <= recorded[m]
  BY DEF Backed
<1>1. \A a \in 0..Retries : req[<<m, a>>].pc = "none" BY DEF Init, At, Requests
<1>2. AttemptsAt(m, {"act"}) = {} /\ AttemptsAt(m, {"act", "note"}) = {} BY <1>1 DEF AttemptsAt
<1>3. acted[m] = 0 /\ noted[m] = 0 /\ recorded[m] = 0 BY DEF Init
<1> QED BY <1>2, <1>3, FS_EmptySet

\* A step that records and does nothing, and brings no handler nearer to
\* doing it.
LEMMA Backs ==
  ASSUME KnowledgeInv, Backed, UNCHANGED <<recorded, acted, noted>>,
         \A m \in Msgs, a \in 0..Retries :
           /\ req'[<<m, a>>].pc = "act" => req[<<m, a>>].pc = "act"
           /\ req'[<<m, a>>].pc = "note" => req[<<m, a>>].pc \in {"act", "note"}
  PROVE  Backed'
<1> SUFFICES ASSUME NEW m \in Msgs
             PROVE  /\ acted'[m] + Cardinality(AttemptsAt(m, {"act"})') <= recorded'[m]
                    /\ noted'[m] + Cardinality(AttemptsAt(m, {"act", "note"})') <= recorded'[m]
  BY DEF Backed
<1>1. /\ AttemptsAt(m, {"act"})' \in SUBSET AttemptsAt(m, {"act"})
      /\ AttemptsAt(m, {"act", "note"})' \in SUBSET AttemptsAt(m, {"act", "note"})
  BY DEF AttemptsAt
<1>2. /\ Cardinality(AttemptsAt(m, {"act"})') <= Cardinality(AttemptsAt(m, {"act"}))
      /\ Cardinality(AttemptsAt(m, {"act", "note"})') <= Cardinality(AttemptsAt(m, {"act", "note"}))
  BY <1>1, AttemptsCounted, FS_Subset
<1>3. /\ Cardinality(AttemptsAt(m, {"act"})) \in Nat /\ Cardinality(AttemptsAt(m, {"act", "note"})) \in Nat
      /\ IsFiniteSet(AttemptsAt(m, {"act"})') /\ IsFiniteSet(AttemptsAt(m, {"act", "note"})')
  BY <1>1, AttemptsCounted, FS_Subset
<1>4. Cardinality(AttemptsAt(m, {"act"})') \in Nat /\ Cardinality(AttemptsAt(m, {"act", "note"})') \in Nat
  BY <1>3, FS_CardinalityType
<1>5. acted[m] \in Nat /\ noted[m] \in Nat /\ recorded[m] \in Nat BY DEF KnowledgeInv, TypeOK
<1>6. /\ acted[m] + Cardinality(AttemptsAt(m, {"act"})) <= recorded[m]
      /\ noted[m] + Cardinality(AttemptsAt(m, {"act", "note"})) <= recorded[m]
  BY DEF Backed
<1> QED BY <1>2, <1>3, <1>4, <1>5, <1>6

\* What one attempt at pc counts for.
One(pc, S) == IF pc \in S THEN 1 ELSE 0

\* How the count of the attempts at S changes when one attempt goes on to r.
LEMMA Moves ==
  ASSUME KnowledgeInv, NEW m \in Msgs, NEW a \in 0..Retries,
         NEW r \in [pc : Steps, reply : Replies], NEW S, req' = [req EXCEPT ![<<m, a>>] = r]
  PROVE  /\ \A p \in Msgs \ {m} : AttemptsAt(p, S)' = AttemptsAt(p, S)
         /\ Cardinality(AttemptsAt(m, S)') \in Nat
         /\ Cardinality(AttemptsAt(m, S)') + One(req[<<m, a>>].pc, S) = Cardinality(AttemptsAt(m, S)) + One(r.pc, S)
<1>1. \A p \in Msgs, b \in 0..Retries : req'[<<p, b>>] = IF p = m /\ b = a THEN r ELSE req[<<p, b>>]
  BY DEF KnowledgeInv, TypeOK, Requests
<1>2. \A p \in Msgs \ {m} : AttemptsAt(p, S)' = AttemptsAt(p, S) BY <1>1 DEF AttemptsAt
<1>3. r.pc \in S => AttemptsAt(m, S)' = AttemptsAt(m, S) \cup {a} BY <1>1 DEF AttemptsAt
<1>4. r.pc \notin S => AttemptsAt(m, S)' = AttemptsAt(m, S) \ {a} BY <1>1 DEF AttemptsAt
<1>5. a \in AttemptsAt(m, S) <=> req[<<m, a>>].pc \in S BY DEF AttemptsAt
<1>6. IsFiniteSet(AttemptsAt(m, S)) BY AttemptsCounted
<1>7. Cardinality(AttemptsAt(m, S)') + One(req[<<m, a>>].pc, S) = Cardinality(AttemptsAt(m, S)) + One(r.pc, S)
  <2>1. Cardinality(AttemptsAt(m, S)) \in Nat BY AttemptsCounted
  <2>2. CASE r.pc \in S
    <3>1. Cardinality(AttemptsAt(m, S) \cup {a}) =
            IF a \in AttemptsAt(m, S) THEN Cardinality(AttemptsAt(m, S)) ELSE Cardinality(AttemptsAt(m, S)) + 1
      BY <1>6, FS_AddElement
    <3>2. Cardinality(AttemptsAt(m, S)') = Cardinality(AttemptsAt(m, S) \cup {a}) BY <1>3, <2>2
    <3>3. One(r.pc, S) = 1 BY <2>2 DEF One
    <3>4. CASE a \in AttemptsAt(m, S)
      <4>1. One(req[<<m, a>>].pc, S) = 1 BY <1>5, <3>4 DEF One
      <4> QED BY <2>1, <3>1, <3>2, <3>3, <3>4, <4>1
    <3>5. CASE a \notin AttemptsAt(m, S)
      <4>1. One(req[<<m, a>>].pc, S) = 0 BY <1>5, <3>5 DEF One
      <4> QED BY <2>1, <3>1, <3>2, <3>3, <3>5, <4>1
    <3> QED BY <3>4, <3>5
  <2>3. CASE r.pc \notin S
    <3>1. Cardinality(AttemptsAt(m, S) \ {a}) =
            IF a \in AttemptsAt(m, S) THEN Cardinality(AttemptsAt(m, S)) - 1 ELSE Cardinality(AttemptsAt(m, S))
      BY <1>6, FS_RemoveElement
    <3>2. Cardinality(AttemptsAt(m, S)') = Cardinality(AttemptsAt(m, S) \ {a}) BY <1>4, <2>3
    <3>3. One(r.pc, S) = 0 BY <2>3 DEF One
    <3>4. CASE a \in AttemptsAt(m, S)
      <4>1. One(req[<<m, a>>].pc, S) = 1 BY <1>5, <3>4 DEF One
      <4> QED BY <2>1, <3>1, <3>2, <3>3, <3>4, <4>1
    <3>5. CASE a \notin AttemptsAt(m, S)
      <4>1. One(req[<<m, a>>].pc, S) = 0 BY <1>5, <3>5 DEF One
      <4> QED BY <2>1, <3>1, <3>2, <3>3, <3>5, <4>1
    <3> QED BY <3>4, <3>5
  <2> QED BY <2>2, <2>3
<1>8. IsFiniteSet(AttemptsAt(m, S)')
  BY <1>3, <1>4, <1>6, FS_AddElement, FS_RemoveElement
<1>9. Cardinality(AttemptsAt(m, S)') \in Nat BY <1>8, FS_CardinalityType
<1> QED BY <1>2, <1>7, <1>9

\* A step of a handler that records, acts or notes.
LEMMA HandlerBacks ==
  ASSUME KnowledgeInv, Backed, NEW m \in Msgs, NEW a \in 0..Retries,
         \/ RecordInbound(<<m, a>>) \/ DeleteTorrents(<<m, a>>)
         \/ HangInDelete(<<m, a>>) \/ RecordRemediation(<<m, a>>)
  PROVE  Backed'
<1> DEFINE q == <<m, a>>
           acts == AttemptsAt(m, {"act"})
           notes == AttemptsAt(m, {"act", "note"})
<1>0. /\ recorded \in [Msgs -> Nat] /\ acted \in [Msgs -> Nat] /\ noted \in [Msgs -> Nat]
      /\ Cardinality(acts) \in Nat /\ Cardinality(notes) \in Nat
      /\ acted[m] + Cardinality(acts) <= recorded[m] /\ noted[m] + Cardinality(notes) <= recorded[m]
  BY AttemptsCounted DEF KnowledgeInv, TypeOK, Backed
<1>1. PICK r \in [pc : Steps, reply : Replies] : req' = [req EXCEPT ![q] = r] /\
        \/ /\ req[q].pc = "record" /\ recorded' = [recorded EXCEPT ![m] = @ + 1] /\ UNCHANGED <<acted, noted>>
        \/ /\ req[q].pc = "act" /\ r.pc \in {"note", "hung"}
           /\ acted' = [acted EXCEPT ![m] = @ + 1] /\ UNCHANGED <<recorded, noted>>
        \/ /\ req[q].pc = "note" /\ r.pc = "reply"
           /\ noted' = [noted EXCEPT ![m] = @ + 1] /\ UNCHANGED <<recorded, acted>>
  <2>1. CASE RecordInbound(q)
    <3>1. PICK r \in [pc : Steps, reply : Replies] : r = AfterRecord(m)
      BY StepsAndReplies DEF AfterRecord, Steps, Replies
    <3> QED BY <2>1, <3>1 DEF RecordInbound
  <2>2. CASE DeleteTorrents(q)
    <3>1. PICK r \in [pc : Steps, reply : Replies] : r = At("note") /\ r.pc = "note"
      BY StepsAndReplies DEF Steps
    <3> QED BY <2>2, <3>1 DEF DeleteTorrents
  <2>3. CASE HangInDelete(q)
    <3>1. PICK r \in [pc : Steps, reply : Replies] : r = At("hung") /\ r.pc = "hung"
      BY StepsAndReplies DEF Steps
    <3> QED BY <2>3, <3>1 DEF HangInDelete
  <2>4. CASE RecordRemediation(q)
    <3>1. PICK r \in [pc : Steps, reply : Replies] : r = Replying("2xx") /\ r.pc = "reply"
      BY StepsAndReplies DEF Replies
    <3> QED BY <2>4, <3>1 DEF RecordRemediation
  <2> QED BY <2>1, <2>2, <2>3, <2>4
<1>2. \A p \in Msgs \ {m}, S \in {{"act"}, {"act", "note"}} : AttemptsAt(p, S)' = AttemptsAt(p, S)
  BY <1>1, Moves
<1>3. ASSUME NEW S
      PROVE  /\ Cardinality(AttemptsAt(m, S)') \in Nat
             /\ Cardinality(AttemptsAt(m, S)') + One(req[q].pc, S) = Cardinality(AttemptsAt(m, S)) + One(r.pc, S)
  <2>1. req' = [req EXCEPT ![<<m, a>>] = r] BY <1>1
  <2>2. Cardinality(AttemptsAt(m, S)') \in Nat BY <2>1, Moves
  <2>3. Cardinality(AttemptsAt(m, S)') + One(req[<<m, a>>].pc, S) = Cardinality(AttemptsAt(m, S)) + One(r.pc, S)
    BY <2>1, Moves
  <2> QED BY <2>2, <2>3
<1>4. /\ Cardinality(acts') \in Nat /\ Cardinality(notes') \in Nat
      /\ Cardinality(acts') + One(req[q].pc, {"act"}) = Cardinality(acts) + One(r.pc, {"act"})
      /\ Cardinality(notes') + One(req[q].pc, {"act", "note"}) = Cardinality(notes) + One(r.pc, {"act", "note"})
  BY <1>3
<1>5. acted'[m] + Cardinality(acts') <= recorded'[m] /\ noted'[m] + Cardinality(notes') <= recorded'[m]
  <2> HIDE DEF acts, notes, q
  <2> QED BY <1>0, <1>1, <1>4 DEF One
<1>6. ASSUME NEW p \in Msgs \ {m}
      PROVE  /\ acted'[p] + Cardinality(AttemptsAt(p, {"act"})') <= recorded'[p]
             /\ noted'[p] + Cardinality(AttemptsAt(p, {"act", "note"})') <= recorded'[p]
  <2>1. acted'[p] = acted[p] /\ noted'[p] = noted[p] /\ recorded'[p] = recorded[p] BY <1>0, <1>1
  <2>2. AttemptsAt(p, {"act"})' = AttemptsAt(p, {"act"}) /\ AttemptsAt(p, {"act", "note"})' = AttemptsAt(p, {"act", "note"})
    BY <1>2
  <2> QED BY <2>1, <2>2 DEF Backed
<1> QED BY <1>5, <1>6 DEF Backed

\* Every other step leaves the rows and the actions alone.
LEMMA OthersBack ==
  ASSUME KnowledgeInv, Backed, Next,
         ~ \E q \in Requests : \/ RecordInbound(q) \/ DeleteTorrents(q)
                             \/ HangInDelete(q) \/ RecordRemediation(q)
  PROVE  Backed'
<1>0. /\ req \in [Requests -> [pc : Steps, reply : Replies]] /\ kind \in [Msgs -> Kinds]
      /\ \A m \in Msgs, a \in 0..Retries : <<m, a>> \in Requests
  BY DEF KnowledgeInv, TypeOK, Requests
<1>1. ASSUME NEW m \in Msgs, ClientStep(m) \/ Cancel(m) PROVE Backed'
  <2>1. UNCHANGED <<recorded, acted, noted>>
    BY <1>1 DEF ClientStep, Cancel, Send, Receive, AttemptFails, Retry, StopWaiting, Logged, server
  <2>2. req' = req \/ \E q : req' = [req EXCEPT ![q] = At("sent")] \/ req' = [req EXCEPT ![q] = At("closed")]
    BY <1>1 DEF ClientStep, Cancel, Send, Receive, AttemptFails, Retry, StopWaiting, Logged
  <2>3. \A q \in Requests : req'[q].pc = req[q].pc \/ req'[q].pc \in {"sent", "closed"}
    BY <1>0, <2>2 DEF At
  <2> QED BY <1>0, <2>1, <2>3, Backs
<1>2. ASSUME NEW q \in Requests, Handle(q) \/ SaveReport(q) \/ SkipDelete(q) \/ StoreFails(q) PROVE Backed'
  <2>1. UNCHANGED <<recorded, acted, noted>>
    BY <1>2 DEF Handle, SaveReport, SkipDelete, StoreFails, server
  <2>2. PICK r \in [pc : Steps, reply : Replies] :
          /\ req' = [req EXCEPT ![q] = r]
          /\ r.pc \in {"save", "record", "reply"} \/ (r.pc = "note" /\ req[q].pc = "act")
    <3>1. CASE Handle(q)
      <4>1. PICK r \in [pc : Steps, reply : Replies] : r = Routed(q[1]) /\ r.pc \in {"save", "record", "reply"}
        BY StepsAndReplies DEF Routed, Steps, Replies
      <4> QED BY <3>1, <4>1 DEF Handle
    <3>2. CASE SaveReport(q)
      <4>1. PICK r \in [pc : Steps, reply : Replies] : r = At("record") /\ r.pc = "record"
        BY StepsAndReplies DEF Steps
      <4> QED BY <3>2, <4>1 DEF SaveReport
    <3>3. CASE SkipDelete(q)
      <4>1. PICK r \in [pc : Steps, reply : Replies] : r = At("note") /\ r.pc = "note"
        BY StepsAndReplies DEF Steps
      <4> QED BY <3>3, <4>1 DEF SkipDelete
    <3>4. CASE StoreFails(q)
      <4>1. PICK r \in [pc : Steps, reply : Replies] : r = AfterStoreFault(q) /\ r.pc = "reply"
        BY StepsAndReplies DEF AfterStoreFault, Replies
      <4> QED BY <3>4, <4>1 DEF StoreFails
    <3> QED BY <1>2, <3>1, <3>2, <3>3, <3>4
  <2>3. \A p \in Requests :
          \/ req'[p] = req[p] \/ req'[p].pc \in {"save", "record", "reply"}
          \/ req'[p].pc = "note" /\ req[p].pc = "act"
    BY <1>0, <2>2
  <2> QED BY <1>0, <2>1, <2>3, Backs
<1>3. CASE Crash
  <2>1. UNCHANGED <<recorded, acted, noted>> BY <1>3 DEF Crash, server
  <2>2. \A q \in Requests : req'[q] = req[q] \/ req'[q].pc = "closed" BY <1>3 DEF Crash, At
  <2> QED BY <1>0, <2>1, <2>2, Backs
<1> QED BY <1>1, <1>2, <1>3 DEF Next, Handler

\* A torrent delete and a remediation row always stand on a message of their
\* own attempt: ReceiveDecision records before executeQbitDelete acts.
THEOREM ActedIsRecordedHolds == Spec => []ActedIsRecorded
<1>1. ASSUME KnowledgeInv, Backed, [Next]_vars PROVE Backed'
  <2>1. CASE \E q \in Requests : \/ RecordInbound(q) \/ DeleteTorrents(q)
                               \/ HangInDelete(q) \/ RecordRemediation(q)
    <3>1. PICK m \in Msgs, a \in 0..Retries : \/ RecordInbound(<<m, a>>) \/ DeleteTorrents(<<m, a>>)
                                             \/ HangInDelete(<<m, a>>) \/ RecordRemediation(<<m, a>>)
      BY <2>1 DEF Requests
    <3> QED BY <1>1, <3>1, HandlerBacks
  <2>2. CASE UNCHANGED vars
    BY <1>1, <2>2 DEF Backed, AttemptsAt, vars, server
  <2> QED BY <1>1, <2>1, <2>2, OthersBack
<1>2. Spec => []Backed
  BY <1>1, InitBacked, KnowledgeInvariant, PTL DEF Spec
<1>3. KnowledgeInv /\ Backed => ActedIsRecorded
  <2> SUFFICES ASSUME KnowledgeInv, Backed, NEW m \in Msgs
               PROVE  acted[m] <= recorded[m] /\ noted[m] <= recorded[m]
    BY DEF ActedIsRecorded
  <2>1. /\ Cardinality(AttemptsAt(m, {"act"})) \in Nat
        /\ Cardinality(AttemptsAt(m, {"act", "note"})) \in Nat
    BY AttemptsCounted
  <2>2. /\ acted[m] + Cardinality(AttemptsAt(m, {"act"})) <= recorded[m]
        /\ noted[m] + Cardinality(AttemptsAt(m, {"act", "note"})) <= recorded[m]
    BY DEF Backed
  <2>3. acted[m] \in Nat /\ noted[m] \in Nat /\ recorded[m] \in Nat BY DEF KnowledgeInv, TypeOK
  <2> QED BY <2>1, <2>2, <2>3
<1> QED BY <1>2, <1>3, KnowledgeInvariant, PTL

=============================================================================
