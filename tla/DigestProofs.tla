---------------------------- MODULE DigestProofs ----------------------------
(***************************************************************************)
(* What Digest guarantees for any set of findings, plans and decisions,    *)
(* any thresholds and any number of mails, reports, failures and kills.    *)
(*                                                                         *)
(* The two processes use the file as StoreFile says (a refinement), whose  *)
(* invariant FileInv gives SchemaWhole.  The rest is an invariant for each *)
(* of the three things a digest depends on: the outbox (MailInv), what is  *)
(* known of the peer (PeerInv), and the items read so far (ViewInv).       *)
(***************************************************************************)
EXTENDS Digest, FiniteSetTheorems, SequenceTheorems, TLAPS

-----------------------------------------------------------------------------
(* The file: StoreFile. *)

\* What a process that migrates still applies are the migrations after some
\* version the file has had; the file never goes back.
FileInv ==
  /\ FileTypeOK
  /\ schema = 1..version
  /\ \A p \in Procs :
       /\ conn[p].st = "migrating" => \E k \in 0..version : conn[p].todo = (k + 1)..Last
       /\ conn[p].st = "open" => version = Last

\* A new file has no migration and nobody has opened it.
LEMMA FileInit_FileInv == FileInit => FileInv
BY LastAssumption DEF LastAssumption, FileInit, FileInv, FileTypeOK, Handle, Closed, Migrations

\* Whichever process takes a step, the others know no less than before.
LEMMA FileStep ==
  ASSUME FileInv, NEW p \in Procs, Ping(p) \/ OpenStep(p) \/ OpenFails(p) \/ Close(p)
  PROVE  FileInv'
<1>0. /\ Last \in Nat /\ version \in 0..Last /\ schema = 1..version /\ schema \subseteq Migrations
      /\ conn \in [Procs -> Handle] /\ conn[p] \in Handle
  BY LastAssumption DEF LastAssumption, FileInv, FileTypeOK
<1>1. ASSUME NEW h \in Handle, conn' = [conn EXCEPT ![p] = h], UNCHANGED <<schema, version>>,
             h.st = "open" => version = Last, h.st = "migrating" => h.todo = (version + 1)..Last
      PROVE  FileInv'
  <2>1. conn' \in [Procs -> Handle] /\ \A q \in Procs : conn'[q] = IF q = p THEN h ELSE conn[q]
    BY <1>0, <1>1
  <2>2. ASSUME NEW q \in Procs
        PROVE  /\ conn'[q].st = "migrating" => \E k \in 0..version : conn'[q].todo = (k + 1)..Last
               /\ conn'[q].st = "open" => version = Last
    <3>1. CASE q = p
      <4>1. version \in 0..version BY <1>0
      <4> QED BY <1>1, <2>1, <3>1, <4>1
    <3>2. CASE q # p BY <2>1, <3>2 DEF FileInv
    <3> QED BY <3>1, <3>2
  <2> QED BY <1>1, <2>1, <2>2 DEF FileInv, FileTypeOK
<1>2. CASE Ping(p) \/ ReadVersion(p) \/ OpenFails(p) \/ Close(p)
  <2>1. Closed \in Handle /\ Closed.st = "closed" BY DEF Closed, Handle
  <2>2. CASE Ping(p)
    <3> DEFINE h == [conn[p] EXCEPT !.st = "pinged"]
    <3>1. h \in Handle /\ h.st = "pinged" BY <1>0 DEF Handle
    <3>2. conn' = [conn EXCEPT ![p] = h] /\ UNCHANGED <<schema, version>> BY <2>2 DEF Ping
    <3> HIDE DEF h
    <3> QED BY <1>1, <3>1, <3>2
  <2>3. CASE ReadVersion(p)
    <3> DEFINE h == [st |-> "migrating", todo |-> {v \in Migrations : v > version}]
    <3>1. h \in Handle /\ h.st = "migrating" BY DEF Handle
    <3>2. h.todo = (version + 1)..Last BY <1>0 DEF Migrations
    <3>3. conn' = [conn EXCEPT ![p] = h] /\ UNCHANGED <<schema, version>> BY <2>3 DEF ReadVersion
    <3> HIDE DEF h
    <3> QED BY <1>1, <3>1, <3>2, <3>3
  <2>4. CASE OpenFails(p) \/ Close(p) BY <1>1, <2>1, <2>4 DEF OpenFails, Close
  <2> QED BY <1>2, <2>2, <2>3, <2>4
<1>3. CASE ApplyMigration(p)
  <2> DEFINE v == NextMigration(p)
  <2>1. conn[p].st = "migrating" /\ conn[p].todo # {} BY <1>3 DEF ApplyMigration
  <2>2. PICK k \in 0..version : conn[p].todo = (k + 1)..Last BY <2>1 DEF FileInv
  <2>3. v = k + 1 /\ k + 1 \in 1..Last
    <3>1. k + 1 \in conn[p].todo /\ \A w \in conn[p].todo : k + 1 <= w BY <1>0, <2>1, <2>2
    <3>2. v \in conn[p].todo /\ \A w \in conn[p].todo : v <= w BY <3>1 DEF NextMigration
    <3> HIDE DEF v
    <3>3. v \in (k + 1)..Last /\ v <= k + 1 /\ k + 1 \in (k + 1)..Last BY <2>2, <3>1, <3>2
    <3> QED BY <1>0, <3>3
  <2>4. CASE v \in schema
    <3>1. Closed \in Handle /\ Closed.st = "closed" BY DEF Closed, Handle
    <3>2. conn' = [conn EXCEPT ![p] = Closed] /\ UNCHANGED <<schema, version>>
      BY <1>3, <2>4 DEF ApplyMigration
    <3> QED BY <1>1, <3>1, <3>2
  <2>5. CASE v \notin schema
    <3>1. k = version BY <1>0, <2>3, <2>5
    <3>2. schema' = schema \union {version + 1} /\ version' = version + 1
      BY <1>3, <2>3, <2>5, <3>1 DEF ApplyMigration
    <3>3. conn' = [conn EXCEPT ![p] = [conn[p] EXCEPT !.todo = conn[p].todo \ {version + 1}]]
      BY <1>0, <1>3, <2>3, <2>5, <3>1 DEF ApplyMigration
    <3>4. schema' = 1..version' /\ version' \in 0..Last /\ schema' \subseteq Migrations
      BY <1>0, <2>3, <3>1, <3>2 DEF Migrations
    <3>5. conn' \in [Procs -> Handle]
      BY <1>0, <3>3 DEF Handle
    <3>6. conn'[p].st = "migrating" /\ conn'[p].todo = (version' + 1)..Last
      BY <1>0, <2>1, <2>2, <3>1, <3>2, <3>3 DEF Handle
    <3>7. \A q \in Procs : conn[q].st # "open" BY <1>0, <2>3, <3>1 DEF FileInv
    <3>8. \A q \in Procs \ {p} : conn'[q] = conn[q] BY <1>0, <3>3
    <3>9. ASSUME NEW q \in Procs
          PROVE  /\ conn'[q].st = "migrating" => \E j \in 0..version' : conn'[q].todo = (j + 1)..Last
                 /\ conn'[q].st = "open" => version' = Last
      <4>1. CASE q = p BY <1>0, <3>4, <3>6, <4>1
      <4>2. CASE q # p BY <1>0, <3>2, <3>7, <3>8, <4>2 DEF FileInv
      <4> QED BY <4>1, <4>2
    <3> QED BY <3>4, <3>5, <3>9 DEF FileInv, FileTypeOK
  <2> QED BY <2>4, <2>5
<1>4. CASE Opened(p)
  <2>1. /\ conn[p].st = "migrating" /\ conn[p].todo = {} /\ UNCHANGED <<schema, version>>
        /\ conn' = [conn EXCEPT ![p] = [conn[p] EXCEPT !.st = "open"]]
    BY <1>4 DEF Opened
  <2>2. version = Last
    <3>1. PICK k \in 0..version : conn[p].todo = (k + 1)..Last BY <2>1 DEF FileInv
    <3>2. ASSUME k + 1 <= Last PROVE FALSE
      <4>1. k + 1 \in (k + 1)..Last BY <1>0, <3>2
      <4> QED BY <2>1, <3>1, <4>1
    <3> QED BY <1>0, <3>1, <3>2
  <2> DEFINE h == [conn[p] EXCEPT !.st = "open"]
  <2>3. h \in Handle /\ h.st = "open" BY <1>0 DEF Handle
  <2> HIDE DEF h
  <2> QED BY <1>1, <2>1, <2>2, <2>3 DEF h
<1> QED BY <1>2, <1>3, <1>4 DEF OpenStep

\* Whatever processes open the file together and wherever Open fails, the file
\* holds exactly the migrations up to its version, and whoever has a store has
\* all of them.
THEOREM FileSchemaWhole == FileSpec => []SchemaWhole
<1>1. FileInv /\ [FileNext]_fileVars => FileInv'
  <2>1. FileInv /\ UNCHANGED fileVars => FileInv' BY DEF FileInv, FileTypeOK, fileVars
  <2> QED BY <2>1, FileStep DEF FileNext
<1>2. FileInv => SchemaWhole BY DEF FileInv, SchemaWhole
<1> QED BY <1>1, <1>2, FileInit_FileInv, PTL DEF FileSpec

\* Everything the daemon and `healarr notify test' do with the file is an
\* opening, a migration or a closing of StoreFile.
THEOREM DigestImplementsStoreFile == Spec => FileSpec
<1>1. Init => FileInit BY DEF Init
<1>2. [Next]_vars => [FileNext]_fileVars
  <2> SUFFICES ASSUME [Next]_vars PROVE [FileNext]_fileVars OBVIOUS
  <2>0. Daemon \in Procs /\ Tester \in Procs BY ProcsAssumption DEF ProcsAssumption
  <2>1. ASSUME NEW p \in Procs, OpenAgentStore(p) \/ OpenAgentStoreFails(p) \/ Kill(p)
        PROVE  [FileNext]_fileVars
    BY <2>1 DEF OpenAgentStore, OpenAgentStoreFails, Kill, FileNext
  <2>2. CASE CloseStore BY <2>0, <2>2 DEF CloseStore, FileNext
  <2>3. ASSUME NEW p \in Procs, MailStep(p) \/ MsmtpHangs(p) \/ HungMsmtpEnds(p) \/ MarkFails(p)
        PROVE  UNCHANGED fileVars
    BY <2>3 DEF MailStep, MsmtpHangs, HungMsmtpEnds, MarkFails, EnqueueEmail, Send, MsmtpEnds, MarkEmail
  <2>4. CASE StartDigest \/ DigestStep \/ DigestFails
    BY <2>4 DEF StartDigest, DigestStep, DigestFails, ReadOwn, ReadMessageAt, ReadPeerReport, ReadPeerFindings,
                ReadPlans, ReadDecisions, Read
  <2>5. CASE \/ RunNotifyTest \/ StartDaemon \/ EnqueueFails \/ ReceiveReport \/ RecordReport \/ ReceiveHeartbeat
             \/ PrunePeerMessages \/ Tick \/ UNCHANGED vars
    BY <2>5 DEF RunNotifyTest, StartDaemon, EnqueueFails, ReceiveReport, RecordReport, ReceiveHeartbeat,
                PrunePeerMessages, Tick, vars
  <2>6. CASE (\E sec \in {"own", "plans", "decisions"} : Refresh(sec)) \/ \E i \in Items : Snooze(i)
    BY <2>6 DEF Refresh, Snooze
  <2> QED BY <2>1, <2>2, <2>3, <2>4, <2>5, <2>6 DEF Next
<1> QED BY <1>1, <1>2, PTL DEF Spec, FileSpec

\* A store that the daemon or a test mail works with has the whole schema.
THEOREM SchemaWholeHolds == Spec => []SchemaWhole
BY DigestImplementsStoreFile, FileSchemaWhole, PTL

-----------------------------------------------------------------------------
(* The outbox. *)

Places == Reading \union {"off", "opening", "idle", "enqueue", "send", "hung", "sent", "failed", "close"}
Row == [by : Procs, status : {"pending", "sent", "failed"}]

\* A process that has a row is between EnqueueEmail and the mark, and the row is
\* pending and its own.
RowKept(p) ==
  row[p] # 0 =>
    /\ pc[p] \in {"send", "hung", "sent", "failed"}
    /\ outbox[row[p]].by = p /\ outbox[row[p]].status = "pending"
    /\ pc[p] \in {"send", "hung"} => delivered[row[p]] = 0
    /\ pc[p] = "sent" => delivered[row[p]] = 1
    /\ pc[p] = "failed" => row[p] \in refused

MailInv ==
  /\ outbox \in Seq(Row) /\ delivered \in [1..Len(outbox) -> Nat]
  /\ pc \in [Procs -> Places] /\ row \in [Procs -> 0..Len(outbox)]
  /\ \A p \in Procs : RowKept(p)
  /\ OutboxTells

\* No row before the first mail.
LEMMA InitMail == Init => MailInv
<1> SUFFICES ASSUME Init PROVE MailInv OBVIOUS
<1>1. outbox = <<>> /\ delivered = <<>> /\ row = [p \in Procs |-> 0] /\ pc = [p \in Procs |-> "off"] BY DEF Init
<1>2. outbox \in Seq(Row) /\ Len(outbox) = 0 /\ DOMAIN outbox = {} BY <1>1
<1>3. delivered \in [1..Len(outbox) -> Nat] BY <1>1, <1>2
<1> QED BY <1>1, <1>2, <1>3 DEF MailInv, RowKept, OutboxTells, Places

\* Nothing happens to the outbox, and only processes without a row move.
LEMMA MailUntouched ==
  ASSUME MailInv, UNCHANGED <<outbox, delivered, refused, row>>, pc' \in [Procs -> Places],
         \A p \in Procs : pc'[p] = pc[p] \/ row[p] = 0
  PROVE  MailInv'
BY DEF MailInv, RowKept, OutboxTells

\* A process lets go of its row: it is killed, or cannot write the mark.
LEMMA MailDropped ==
  ASSUME MailInv, NEW p \in Procs, NEW place \in Places, UNCHANGED <<outbox, delivered, refused>>,
         row' = [row EXCEPT ![p] = 0], pc' = [pc EXCEPT ![p] = place]
  PROVE  MailInv'
<1>1. /\ pc' \in [Procs -> Places] /\ row' \in [Procs -> 0..Len(outbox)] /\ row'[p] = 0
      /\ \A q \in Procs \ {p} : row'[q] = row[q] /\ pc'[q] = pc[q]
  BY DEF MailInv
<1> QED BY <1>1 DEF MailInv, RowKept, OutboxTells

LEMMA EnqueueKeepsMail ==
  ASSUME MailInv, NEW p \in Procs, EnqueueEmail(p)
  PROVE  MailInv'
<1> DEFINE n == Len(outbox)
           new == [by |-> p, status |-> "pending"]
<1>0. /\ outbox \in Seq(Row) /\ delivered \in [1..n -> Nat] /\ n \in Nat /\ DOMAIN outbox = 1..n
      /\ pc \in [Procs -> Places] /\ row \in [Procs -> 0..n] /\ row[p] = 0 /\ new \in Row
  <2>1. /\ outbox \in Seq(Row) /\ delivered \in [1..n -> Nat] /\ n \in Nat /\ DOMAIN outbox = 1..n
        /\ pc \in [Procs -> Places] /\ row \in [Procs -> 0..n]
    BY DEF MailInv
  <2>2. row[p] = 0 BY DEF MailInv, EnqueueEmail, RowKept
  <2>3. new \in Row BY DEF Row
  <2> QED BY <2>1, <2>2, <2>3
<1>s. delivered \in Seq(Nat) /\ Len(delivered) = n
  <2>1. delivered \in Seq(Nat) BY <1>0, SeqDef
  <2>2. DOMAIN delivered = 1..Len(delivered) /\ DOMAIN delivered = 1..n /\ Len(delivered) \in Nat BY <1>0, <2>1
  <2> QED BY <1>0, <2>2
<1>1. /\ outbox' = Append(outbox, new) /\ delivered' = Append(delivered, 0)
      /\ row' = [row EXCEPT ![p] = Len(outbox')] /\ pc' = [pc EXCEPT ![p] = "send"] /\ refused' = refused
  BY DEF EnqueueEmail, Goto
<1>2. /\ outbox' \in Seq(Row) /\ Len(outbox') = n + 1 /\ outbox'[n + 1] = new
      /\ \A r \in 1..n : outbox'[r] = outbox[r] /\ DOMAIN outbox' = 1..(n + 1)
  BY <1>0, <1>1
<1>3. /\ delivered' \in [1..(n + 1) -> Nat] /\ delivered'[n + 1] = 0
      /\ \A r \in 1..n : delivered'[r] = delivered[r]
  <2>1. delivered' \in Seq(Nat) /\ Len(delivered') = n + 1 /\ delivered'[n + 1] = 0
        /\ \A r \in 1..n : delivered'[r] = delivered[r]
    BY <1>0, <1>1, <1>s
  <2> QED BY <1>0, <2>1
<1>4. pc' \in [Procs -> Places] /\ row' \in [Procs -> 0..(n + 1)] BY <1>0, <1>1, <1>2 DEF Places
<1>5. ASSUME NEW q \in Procs PROVE RowKept(q)'
  <2>1. CASE q = p BY <1>0, <1>1, <1>2, <1>3, <2>1 DEF RowKept
  <2>2. CASE q # p /\ row[q] # 0
    <3>1. row'[q] = row[q] /\ pc'[q] = pc[q] /\ row[q] \in 1..n BY <1>0, <1>1, <2>2
    <3>2. RowKept(q) BY DEF MailInv
    <3> QED BY <1>1, <1>2, <1>3, <2>2, <3>1, <3>2 DEF RowKept
  <2>3. CASE q # p /\ row[q] = 0 BY <1>0, <1>1, <2>3 DEF RowKept
  <2> QED BY <2>1, <2>2, <2>3
<1>6. OutboxTells'
  <2> SUFFICES ASSUME NEW r \in 1..(n + 1)
               PROVE  /\ delivered'[r] <= 1
                      /\ outbox'[r].status = "sent" => delivered'[r] = 1
                      /\ outbox'[r].status = "failed" => r \in refused'
    BY <1>0, <1>2 DEF OutboxTells
  <2>1. CASE r = n + 1 BY <1>2, <1>3, <2>1
  <2>2. CASE r \in 1..n BY <1>0, <1>1, <1>2, <1>3, <2>2 DEF MailInv, OutboxTells
  <2> QED BY <1>0, <2>1, <2>2
<1> QED BY <1>2, <1>3, <1>4, <1>5, <1>6 DEF MailInv

\* A row belongs to one process.
LEMMA RowsApart ==
  ASSUME MailInv, NEW p \in Procs, NEW q \in Procs, p # q, row[p] # 0
  PROVE  row[q] # row[p]
BY DEF MailInv, RowKept

\* msmtp ends, at once or after it hung.
LEMMA SendKeepsMail ==
  ASSUME MailInv, NEW p \in Procs, pc[p] \in {"send", "hung"}, MsmtpEnds(p)
  PROVE  MailInv'
<1> DEFINE n == Len(outbox)
<1>0. /\ outbox \in Seq(Row) /\ delivered \in [1..n -> Nat] /\ n \in Nat /\ DOMAIN outbox = 1..n
      /\ pc \in [Procs -> Places] /\ row \in [Procs -> 0..n] /\ UNCHANGED <<outbox, row>>
  BY DEF MailInv, MsmtpEnds
<1>1. PICK k \in {0, 1}, place \in {"sent", "failed"} :
        /\ delivered' = [r \in DOMAIN delivered |-> delivered[r] + IF r = row[p] THEN k ELSE 0]
        /\ pc' = [pc EXCEPT ![p] = place] /\ refused \subseteq refused'
        /\ place = "sent" => k = 1
        /\ place = "failed" => refused' = refused \union ({row[p]} \ {0})
  BY DEF MsmtpEnds, Goto
<1>2. /\ delivered' \in [1..n -> Nat]
      /\ \A r \in 1..n : delivered'[r] = IF r = row[p] THEN delivered[r] + k ELSE delivered[r]
  <2>1. delivered' = [r \in 1..n |-> delivered[r] + IF r = row[p] THEN k ELSE 0] BY <1>0, <1>1
  <2>2. ASSUME NEW r \in 1..n
        PROVE  /\ delivered'[r] \in Nat
               /\ delivered'[r] = IF r = row[p] THEN delivered[r] + k ELSE delivered[r]
    <3>1. delivered[r] \in Nat /\ delivered'[r] = delivered[r] + (IF r = row[p] THEN k ELSE 0)
      BY <1>0, <2>1
    <3>2. CASE r = row[p] BY <1>1, <3>1, <3>2
    <3>3. CASE r # row[p] BY <3>1, <3>3
    <3> QED BY <3>2, <3>3
  <2> QED BY <2>1, <2>2
<1>3. pc' \in [Procs -> Places] /\ pc'[p] = place /\ \A q \in Procs \ {p} : pc'[q] = pc[q]
  BY <1>0, <1>1 DEF Places
<1>4. row[p] # 0 => row[p] \in 1..n /\ delivered[row[p]] = 0 /\ outbox[row[p]].status = "pending"
  BY <1>0 DEF MailInv, RowKept
<1>5. ASSUME NEW q \in Procs PROVE RowKept(q)'
  <2>1. CASE q = p /\ row[p] # 0
    <3>1. delivered'[row[p]] = k BY <1>2, <1>4, <2>1
    <3>2. outbox[row[p]].by = p BY <2>1 DEF MailInv, RowKept
    <3> QED BY <1>0, <1>1, <1>3, <1>4, <2>1, <3>1, <3>2 DEF RowKept
  <2>2. CASE q # p /\ row[q] # 0
    <3>1. row[q] \in 1..n /\ row[q] # row[p] BY <1>0, <2>2, RowsApart
    <3>2. delivered'[row[q]] = delivered[row[q]] /\ pc'[q] = pc[q] BY <1>2, <1>3, <2>2, <3>1
    <3>3. RowKept(q) BY DEF MailInv
    <3> QED BY <1>0, <1>1, <2>2, <3>2, <3>3 DEF RowKept
  <2>3. CASE row[q] = 0 BY <1>0, <2>3 DEF RowKept
  <2> QED BY <2>1, <2>2, <2>3
<1>6. OutboxTells'
  <2> SUFFICES ASSUME NEW r \in 1..n
               PROVE  /\ delivered'[r] <= 1
                      /\ outbox[r].status = "sent" => delivered'[r] = 1
                      /\ outbox[r].status = "failed" => r \in refused'
    BY <1>0 DEF OutboxTells
  <2>1. CASE r = row[p] BY <1>0, <1>1, <1>2, <1>4, <2>1
  <2>2. CASE r # row[p] BY <1>0, <1>1, <1>2, <2>2 DEF MailInv, OutboxTells
  <2> QED BY <2>1, <2>2
<1> QED BY <1>0, <1>2, <1>3, <1>5, <1>6 DEF MailInv

\* A mail that hangs has not been delivered.
LEMMA HangKeepsMail ==
  ASSUME MailInv, NEW p \in Procs, MsmtpHangs(p)
  PROVE  MailInv'
<1>1. /\ pc \in [Procs -> Places] /\ pc[p] = "send" /\ pc' = [pc EXCEPT ![p] = "hung"]
      /\ UNCHANGED <<outbox, delivered, refused, row>>
  BY DEF MailInv, MsmtpHangs, Goto, mailVars
<1>2. pc' \in [Procs -> Places] /\ pc'[p] = "hung" /\ \A q \in Procs \ {p} : pc'[q] = pc[q]
  BY <1>1 DEF Places
<1>3. \A q \in Procs : RowKept(q)' BY <1>1, <1>2 DEF MailInv, RowKept
<1> QED BY <1>1, <1>2, <1>3 DEF MailInv, OutboxTells

LEMMA MarkKeepsMail ==
  ASSUME MailInv, NEW p \in Procs, MarkEmail(p)
  PROVE  MailInv'
<1> DEFINE n == Len(outbox)
<1>0. /\ outbox \in Seq(Row) /\ delivered \in [1..n -> Nat] /\ n \in Nat /\ DOMAIN outbox = 1..n
      /\ pc \in [Procs -> Places] /\ row \in [Procs -> 0..n] /\ pc[p] \in {"sent", "failed"}
      /\ row' = [row EXCEPT ![p] = 0] /\ pc' = [pc EXCEPT ![p] = AfterMail(p)] /\ AfterMail(p) \in Places
      /\ UNCHANGED <<delivered, refused>> /\ outbox' = Marked(p, pc[p])
  BY DEF MailInv, MarkEmail, Goto, AfterMail, Places
<1>1. CASE row[p] = 0
  BY <1>0, <1>1, MailDropped DEF Marked
<1>2. CASE row[p] # 0
  <2>1. row[p] \in 1..n BY <1>0, <1>2
  <2>2. outbox[row[p]] \in Row BY <1>0, <2>1
  <2>3. PICK marked \in Row : marked = [outbox[row[p]] EXCEPT !.status = pc[p]]
                             /\ marked.status = pc[p] /\ marked.by = outbox[row[p]].by
    <3> DEFINE x == [outbox[row[p]] EXCEPT !.status = pc[p]]
    <3>1. x \in Row /\ x.status = pc[p] /\ x.by = outbox[row[p]].by BY <1>0, <2>2 DEF Row
    <3> HIDE DEF x
    <3> QED BY <3>1 DEF x
  <2>4. outbox' = [outbox EXCEPT ![row[p]] = marked] BY <1>0, <1>2, <2>3 DEF Marked
  <2>5. /\ outbox' \in Seq(Row) /\ Len(outbox') = n /\ DOMAIN outbox' = 1..n
        /\ \A r \in 1..n : outbox'[r] = IF r = row[p] THEN marked ELSE outbox[r]
    BY <1>0, <2>1, <2>4
  <2>6. ASSUME NEW q \in Procs PROVE RowKept(q)'
    <3>1. CASE q = p \/ row[q] = 0 BY <1>0, <3>1 DEF RowKept
    <3>2. CASE q # p /\ row[q] # 0
      <4>1. row[q] \in 1..n /\ row[q] # row[p] BY <1>0, <1>2, <3>2, RowsApart
      <4>2. row'[q] = row[q] /\ pc'[q] = pc[q] /\ outbox'[row[q]] = outbox[row[q]]
        BY <1>0, <2>5, <3>2, <4>1
      <4>3. RowKept(q) BY DEF MailInv
      <4> QED BY <1>0, <3>2, <4>2, <4>3 DEF RowKept
    <3> QED BY <3>1, <3>2
  <2>7. OutboxTells'
    <3> SUFFICES ASSUME NEW r \in 1..n
                 PROVE  /\ delivered[r] <= 1
                        /\ outbox'[r].status = "sent" => delivered[r] = 1
                        /\ outbox'[r].status = "failed" => r \in refused
      BY <1>0, <2>5 DEF OutboxTells
    <3>0. delivered[r] <= 1 BY <1>0 DEF MailInv, OutboxTells
    <3>1. CASE r = row[p]
      <4>1. RowKept(p) BY DEF MailInv
      <4> QED BY <1>0, <1>2, <2>3, <2>5, <3>0, <3>1, <4>1 DEF RowKept
    <3>2. CASE r # row[p] BY <1>0, <2>5, <3>2 DEF MailInv, OutboxTells
    <3> QED BY <3>1, <3>2
  <2>8. pc' \in [Procs -> Places] /\ row' \in [Procs -> 0..n] BY <1>0
  <2> QED BY <1>0, <2>5, <2>6, <2>7, <2>8 DEF MailInv
<1> QED BY <1>1, <1>2

\* Only the processes without a row move in the steps that are not a mail's.
LEMMA OthersKeepMail ==
  ASSUME MailInv,
         \/ StartDigest \/ DigestStep \/ DigestFails
         \/ \E p \in Procs : OpenAgentStore(p) \/ OpenAgentStoreFails(p)
         \/ RunNotifyTest \/ StartDaemon \/ EnqueueFails \/ CloseStore
         \/ \E sec \in {"own", "plans", "decisions"} : Refresh(sec)
         \/ \E i \in Items : Snooze(i)
         \/ ReceiveReport \/ RecordReport \/ ReceiveHeartbeat \/ PrunePeerMessages \/ Tick
         \/ UNCHANGED vars
  PROVE  MailInv'
<1>0. Daemon \in Procs /\ Tester \in Procs /\ pc \in [Procs -> Places] /\ \A p \in Procs : RowKept(p)
  BY ProcsAssumption DEF ProcsAssumption, MailInv
<1>1. ASSUME NEW p \in Procs, NEW place \in Places, UNCHANGED <<outbox, delivered, refused, row>>,
             pc[p] \notin {"send", "hung", "sent", "failed"}, pc' = [pc EXCEPT ![p] = place]
      PROVE  MailInv'
  BY <1>0, <1>1, MailUntouched DEF RowKept
<1>2. ASSUME UNCHANGED <<outbox, delivered, refused, row>>, UNCHANGED pc PROVE MailInv'
  BY <1>0, <1>2, MailUntouched
<1>3. CASE StartDigest \/ DigestFails
  BY <1>0, <1>1, <1>3 DEF StartDigest, DigestFails, Goto, mailVars, Reading, Places
<1>4. CASE DigestStep
  <2>1. \E place \in Reading, next \in Reading \union {"enqueue"} : \E v : Read(place, next, v)
    BY <1>4 DEF DigestStep, ReadOwn, ReadMessageAt, ReadPeerReport, ReadPeerFindings, ReadPlans, ReadDecisions, Reading
  <2>2. PICK place \in Reading, next \in Reading \union {"enqueue"} : \E v : Read(place, next, v) BY <2>1
  <2>3. PICK v : Read(place, next, v) BY <2>2
  <2> QED BY <1>0, <1>1, <2>3 DEF Read, Goto, mailVars, Reading, Places
<1>5. ASSUME NEW p \in Procs, OpenAgentStore(p) \/ OpenAgentStoreFails(p) PROVE MailInv'
  <2>1. pc[p] = "opening" /\ UNCHANGED <<outbox, delivered, refused, row>>
    BY <1>5 DEF OpenAgentStore, OpenAgentStoreFails, processVars, mailVars
  <2>2. UNCHANGED pc \/ \E place \in {"off", "idle", "enqueue"} : pc' = [pc EXCEPT ![p] = place]
    BY <1>5 DEF OpenAgentStore, OpenAgentStoreFails, Goto
  <2> QED BY <1>1, <1>2, <1>5, <2>1, <2>2 DEF Places
<1>6. CASE RunNotifyTest \/ StartDaemon \/ EnqueueFails \/ CloseStore
  <2>1. UNCHANGED <<outbox, delivered, refused, row>>
    BY <1>6 DEF RunNotifyTest, StartDaemon, EnqueueFails, CloseStore, processVars, mailVars
  <2>2. \E p \in Procs, place \in Places : pc[p] \notin {"send", "hung", "sent", "failed"} /\ pc' = [pc EXCEPT ![p] = place]
    <3>1. CASE RunNotifyTest BY <1>0, <3>1 DEF RunNotifyTest, Goto, Places
    <3>2. CASE StartDaemon BY <1>0, <3>2 DEF StartDaemon, Goto, Places
    <3>3. CASE EnqueueFails BY <1>0, <3>3 DEF EnqueueFails, Goto, Places
    <3>4. CASE CloseStore BY <1>0, <3>4 DEF CloseStore, Goto, Places
    <3> QED BY <1>6, <3>1, <3>2, <3>3, <3>4
  <2> QED BY <1>1, <2>1, <2>2
<1>7. CASE (\E sec \in {"own", "plans", "decisions"} : Refresh(sec)) \/ (\E i \in Items : Snooze(i))
  BY <1>2, <1>7 DEF Refresh, Snooze, mailVars
<1>8. CASE ReceiveReport \/ RecordReport \/ ReceiveHeartbeat \/ PrunePeerMessages \/ Tick \/ UNCHANGED vars
  BY <1>2, <1>8 DEF ReceiveReport, RecordReport, ReceiveHeartbeat, PrunePeerMessages, Tick, vars, mailVars
<1> QED BY <1>3, <1>4, <1>5, <1>6, <1>7, <1>8

\* The rows and the processes that work on them agree throughout.
THEOREM MailInvariant == Spec => []MailInv
<1>1. ASSUME MailInv, [Next]_vars PROVE MailInv'
  <2>1. ASSUME NEW p \in Procs, MailStep(p) PROVE MailInv'
    BY <1>1, <2>1, EnqueueKeepsMail, SendKeepsMail, MarkKeepsMail DEF MailStep, Send
  <2>2. ASSUME NEW p \in Procs, MarkFails(p) \/ Kill(p) PROVE MailInv'
    <3>1. AfterMail(p) \in Places /\ "off" \in Places BY DEF AfterMail, Places
    <3>2. /\ UNCHANGED <<outbox, delivered, refused>> /\ row' = [row EXCEPT ![p] = 0]
          /\ pc' = [pc EXCEPT ![p] = AfterMail(p)] \/ pc' = [pc EXCEPT ![p] = "off"]
      BY <2>2 DEF MarkFails, Kill, Goto
    <3> QED BY <1>1, <3>1, <3>2, MailDropped
  <2>3. ASSUME NEW p \in Procs, HungMsmtpEnds(p) PROVE MailInv'
    BY <1>1, <2>3, SendKeepsMail DEF HungMsmtpEnds
  <2>4. ASSUME NEW p \in Procs, MsmtpHangs(p) PROVE MailInv' BY <1>1, <2>4, HangKeepsMail
  <2> QED BY <1>1, <2>1, <2>2, <2>3, <2>4, OthersKeepMail DEF Next
<1> QED BY <1>1, InitMail, PTL DEF Spec

\* No mail is handed to msmtp without a row or twice, and a row that says sent
\* or failed says what msmtp said: EnqueueEmail, Send and the mark come in this
\* order whatever the other process does and whoever is killed.
THEOREM OutboxTellsHolds == Spec => []OutboxTells
<1>1. MailInv => OutboxTells BY DEF MailInv
<1> QED BY <1>1, MailInvariant, PTL

-----------------------------------------------------------------------------
(* The peer. *)

\* A report recorded at time h is still in peer_messages, or beyond retention.
Remembered(h) == h \in Nat /\ ([kind |-> "report", at |-> h] \in messages \/ now - h > Retention)

ViewType ==
  [shown : SUBSET Items, stale : SUBSET Items, peer : {"none", "unavailable", "stale", "fresh"},
   last : Int, report : Int, judged : Int, subject : Nat \X Nat]

\* What is said of the peer once its section has been built.
Judged ==
  /\ view.peer = "fresh" => view.judged - view.report <= PeerStaleAfter
  /\ view.peer \in {"fresh", "stale"} => view.report >= view.last
  /\ view.peer = "unavailable" => heardBefore = -1 \/ view.judged - heardBefore > Retention

\* Reports are saved before they are recorded, and the clock waits for both.
WorldInv ==
  /\ now \in Nat /\ peerReport \in Int /\ peerReport <= now
  /\ messages \subseteq [kind : {"report", "heartbeat"}, at : 0..now]
  /\ \A m \in messages : m.kind = "report" => m.at <= peerReport
  /\ inbound \in BOOLEAN /\ (inbound => peerReport = now)
  /\ heard = -1 \/ Remembered(heard)
  /\ heardBefore = -1 \/ Remembered(heardBefore)

Late == {"plans", "decisions", "enqueue", "send", "hung", "sent", "failed"}

\* What the digest has found out about the peer so far.
StageInv ==
  /\ view \in ViewType
  /\ pc[Daemon] = "report" => view.last <= peerReport
  /\ pc[Daemon] = "findings" => view.last <= view.report
  /\ pc[Daemon] \in Late => Judged

PeerInv == WorldInv /\ StageInv

\* A finite set of numbers has a greatest one, and Max names it.
LEMMA MaxOfFinite ==
  ASSUME NEW S \in SUBSET Int, IsFiniteSet(S), S # {}
  PROVE  Max(S) \in S /\ \A y \in S : y <= Max(S)
<1> DEFINE Above(x) == {y \in S : y > x}
           T == {Above(x) : x \in S}
<1>1. T \subseteq FiniteSubsetsOf(S) /\ T # {}
  <2>1. T \subseteq SUBSET S /\ T # {} OBVIOUS
  <2>2. FiniteSubsetsOf(S) = SUBSET S BY FS_FiniteSubsetsOfFinite
  <2> QED BY <2>1, <2>2
<1>2. IsWellFoundedOn(StrictSubsetOrdering(S), FiniteSubsetsOf(S)) BY FS_StrictSubsetOrderingWellFounded
<1>3. PICK A \in T : \A B \in T : ~(<<B, A>> \in StrictSubsetOrdering(S))
  <2> HIDE DEF T
  <2> QED BY <1>1, <1>2, WFMin
<1>4. PICK x \in S : A = Above(x) OBVIOUS
<1>5. ASSUME NEW y \in S, ~(y <= x) PROVE FALSE
  <2>0. x \in Int /\ y \in Int /\ y > x BY <1>5
  <2>1. Above(y) \subseteq Above(x) /\ y \in Above(x) /\ y \notin Above(y)
    <3>1. \A z \in S : z > y => z > x BY <2>0
    <3>2. ~(y > y) BY <2>0
    <3> QED BY <2>0, <3>1, <3>2
  <2>2. Above(y) \in SUBSET S /\ Above(x) \in SUBSET S /\ Above(y) # Above(x) BY <2>1
  <2>3. <<Above(y), Above(x)>> \in StrictSubsetOrdering(S)
    <3> HIDE DEF Above
    <3> QED BY <2>1, <2>2 DEF StrictSubsetOrdering
  <2>4. Above(y) \in T OBVIOUS
  <2> HIDE DEF Above, T
  <2> QED BY <1>3, <1>4, <2>3, <2>4
<1>6. \A y \in S : x >= y BY <1>5
<1>7. \E z \in S : \A y \in S : z >= y BY <1>6
<1>8. Max(S) \in S /\ \A y \in S : Max(S) >= y BY <1>7 DEF Max
<1> QED BY <1>8

\* LastPeerMessageAt is the newest report in peer_messages, or -1.
LEMMA LastIsNewest ==
  ASSUME WorldInv
  PROVE  /\ LastPeerMessageAt \in Int /\ LastPeerMessageAt >= -1
         /\ \A m \in messages : m.kind = "report" => m.at <= LastPeerMessageAt
         /\ LastPeerMessageAt = -1 \/ LastPeerMessageAt <= peerReport
<1> DEFINE S == {m.at : m \in {x \in messages : x.kind = "report"}} \union {-1}
<1>1. \A m \in messages : m.at \in 0..now BY DEF WorldInv
<1>2. now \in Nat BY DEF WorldInv
<1>3. S \subseteq (-1)..now BY <1>1, <1>2
<1>4. IsFiniteSet(S)
  <2>1. IsFiniteSet((-1)..now) BY <1>2, FS_Interval
  <2> HIDE DEF S
  <2> QED BY <1>3, <2>1, FS_Subset
<1>5. S \in SUBSET Int /\ -1 \in S BY <1>2, <1>3
<1>6. Max(S) \in S /\ \A y \in S : y <= Max(S)
  <2> HIDE DEF S
  <2> QED BY <1>4, <1>5, MaxOfFinite
<1>7. LastPeerMessageAt = Max(S) BY DEF LastPeerMessageAt
<1>8. \A m \in messages : m.kind = "report" => m.at \in S OBVIOUS
<1>9. Max(S) = -1 \/ \E m \in messages : m.kind = "report" /\ m.at = Max(S) BY <1>6
<1> HIDE DEF S
<1> QED BY <1>5, <1>6, <1>7, <1>8, <1>9 DEF WorldInv

\* Nothing is known of the peer.
LEMMA InitPeer == Init => PeerInv
<1> SUFFICES ASSUME Init PROVE PeerInv OBVIOUS
<1>1. WorldInv
  <2>1. now = 0 /\ peerReport = -1 /\ messages = {} /\ heard = -1 /\ heardBefore = -1 BY DEF Init
  <2>2. inbound = FALSE BY DEF Init
  <2>3. inbound \in BOOLEAN /\ (inbound => peerReport = now) BY <2>2
  <2>4. now \in Nat /\ peerReport \in Int /\ peerReport <= now BY <2>1
  <2> QED BY <2>1, <2>3, <2>4 DEF WorldInv
<1>2. view \in ViewType BY DEF Init, EmptyView, ViewType
<1>3. pc[Daemon] = "off" BY ProcsAssumption DEF ProcsAssumption, Init
<1> QED BY <1>1, <1>2, <1>3 DEF PeerInv, StageInv, Late

\* Steps that leave the clock, the reports and the messages alone.
LEMMA WorldStays ==
  ASSUME WorldInv, UNCHANGED <<now, peerReport, messages, heard>>, inbound' = inbound \/ inbound' = FALSE,
         heardBefore' \in {heardBefore, heard, -1}
  PROVE  WorldInv'
<1>1. heard' = -1 \/ Remembered(heard)' BY DEF WorldInv, Remembered
<1>2. heardBefore' = -1 \/ Remembered(heardBefore)' BY DEF WorldInv, Remembered
<1>3. inbound' \in BOOLEAN /\ (inbound' => peerReport' = now')
  <2>1. CASE inbound' = inbound BY <2>1, Zenon DEF WorldInv
  <2>2. CASE inbound' = FALSE BY <2>2
  <2> QED BY <2>1, <2>2
<1> QED BY <1>1, <1>2, <1>3 DEF WorldInv

\* What happens to reports, messages and the clock.
LEMMA WorldChanges ==
  ASSUME WorldInv, ReceiveReport \/ RecordReport \/ ReceiveHeartbeat \/ PrunePeerMessages \/ Tick
  PROVE  WorldInv' /\ peerReport' >= peerReport /\ heardBefore' = heardBefore
<1>0. /\ now \in Nat /\ peerReport \in Int /\ peerReport <= now /\ Retention \in Nat
      /\ messages \subseteq [kind : {"report", "heartbeat"}, at : 0..now]
  BY ClockAssumption DEF ClockAssumption, WorldInv
<1>1. CASE ReceiveReport
  <2>1. UNCHANGED <<now, messages, heard, heardBefore>> /\ peerReport' = now /\ inbound' = TRUE
    BY <1>1 DEF ReceiveReport, Change
  <2>2. \A m \in messages : m.at <= now BY <1>0
  <2> QED BY <1>0, <2>1, <2>2 DEF WorldInv, Remembered
<1>2. CASE RecordReport
  <2>1. UNCHANGED <<now, peerReport, heardBefore>> /\ inbound' = FALSE /\ peerReport = now
    BY <1>2 DEF RecordReport, historyVars, WorldInv
  <2>2. CASE UNCHANGED <<messages, heard>> BY <1>0, <2>1, <2>2, WorldStays
  <2>3. CASE messages' = messages \union {[kind |-> "report", at |-> now]} /\ heard' = now
    <3>1. messages' \subseteq [kind : {"report", "heartbeat"}, at : 0..now] BY <1>0, <2>3
    <3>2. \A m \in messages' : m.at <= now BY <1>0, <3>1
    <3>3. Remembered(heard)' BY <1>0, <2>1, <2>3 DEF Remembered
    <3>4. heardBefore' = -1 \/ Remembered(heardBefore)' BY <2>1, <2>3 DEF WorldInv, Remembered
    <3> QED BY <1>0, <2>1, <3>1, <3>2, <3>3, <3>4 DEF WorldInv
  <2> QED BY <1>2, <2>2, <2>3 DEF RecordReport
<1>3. CASE ReceiveHeartbeat
  <2>1. UNCHANGED <<now, peerReport, inbound, heard, heardBefore>>
    BY <1>3 DEF ReceiveHeartbeat, historyVars
  <2>2. messages' = messages \union {[kind |-> "heartbeat", at |-> now]} BY <1>3 DEF ReceiveHeartbeat
  <2>3. messages' \subseteq [kind : {"report", "heartbeat"}, at : 0..now] BY <1>0, <2>2
  <2>4. \A m \in messages' : m.kind = "report" => m.at <= peerReport BY <2>2 DEF WorldInv
  <2> QED BY <1>0, <2>1, <2>2, <2>3, <2>4 DEF WorldInv, Remembered
<1>4. CASE PrunePeerMessages
  <2>1. UNCHANGED <<now, peerReport, inbound, heard, heardBefore>> /\ messages' = Kept
    BY <1>4 DEF PrunePeerMessages, historyVars
  <2>2. messages' \subseteq messages BY <2>1 DEF Kept
  <2>3. ASSUME NEW h, Remembered(h) PROVE h \in Nat /\ ([kind |-> "report", at |-> h] \in messages' \/ now - h > Retention)
    BY <1>0, <2>1, <2>3 DEF Remembered, Kept
  <2> QED BY <1>0, <2>1, <2>2, <2>3 DEF WorldInv, Remembered
<1>5. CASE Tick
  <2>1. UNCHANGED <<peerReport, inbound, messages, heard, heardBefore>> /\ now' = now + 1 /\ ~inbound
    BY <1>5 DEF Tick, worldVars, historyVars
  <2>2. messages \subseteq [kind : {"report", "heartbeat"}, at : 0..now'] BY <1>0, <2>1
  <2>3. ASSUME NEW h, Remembered(h) PROVE h \in Nat /\ ([kind |-> "report", at |-> h] \in messages \/ now' - h > Retention)
    BY <1>0, <2>1, <2>3 DEF Remembered
  <2> QED BY <1>0, <2>1, <2>2, <2>3 DEF WorldInv, Remembered
<1> QED BY <1>1, <1>2, <1>3, <1>4, <1>5

\* A step of p moves the daemon only if p is the daemon.
LEMMA DaemonMoves ==
  ASSUME MailInv, NEW p \in Procs, NEW place, Goto(p, place)
  PROVE  pc'[Daemon] = IF p = Daemon THEN place ELSE pc[Daemon]
<1>1. pc \in [Procs -> Places] /\ Daemon \in Procs BY ProcsAssumption DEF ProcsAssumption, MailInv
<1> QED BY <1>1 DEF Goto

\* Steps that do not touch the digest in the making.
LEMMA StageStays ==
  ASSUME WorldInv, StageInv, UNCHANGED <<view, heardBefore>>, peerReport' \in Int, peerReport' >= peerReport,
         pc'[Daemon] = pc[Daemon] \/ (pc[Daemon] \in Late /\ pc'[Daemon] \in Late)
  PROVE  StageInv'
<1>1. view \in ViewType /\ view.last \in Int /\ peerReport \in Int BY DEF WorldInv, StageInv, ViewType
<1>2. pc'[Daemon] = "report" => view.last <= peerReport' BY <1>1 DEF StageInv, Late
<1>3. pc'[Daemon] = "findings" => view.last <= view.report BY DEF StageInv, Late
<1>4. Judged => Judged' BY DEF Judged
<1>5. pc'[Daemon] \in Late => Judged' BY <1>4 DEF StageInv
<1> QED BY <1>1, <1>2, <1>3, <1>5 DEF StageInv

\* Steps that lead to a place where nothing is known of the peer.
LEMMA StageOut ==
  ASSUME view' \in ViewType, pc'[Daemon] \in {"off", "opening", "idle", "own", "message"}
  PROVE  StageInv'
BY DEF StageInv, Late

LEMMA ForgetsStage ==
  ASSUME NEW p \in Procs, MailInv, PeerInv, Forget(p), UNCHANGED <<now, peerReport, messages, heard>>,
         inbound' = inbound \/ inbound' = FALSE, NEW place, Goto(p, place), p = Daemon => place \in {"idle", "off"}
  PROVE  PeerInv'
<1>0. EmptyView \in ViewType BY DEF EmptyView, ViewType
<1>1. WorldInv'
  <2>1. heardBefore' \in {heardBefore, heard, -1} BY DEF Forget, historyVars
  <2> QED BY <2>1, WorldStays DEF PeerInv
<1>2. pc'[Daemon] = IF p = Daemon THEN place ELSE pc[Daemon] BY DaemonMoves
<1>3. CASE p = Daemon
  <2>1. view' = EmptyView BY <1>3 DEF Forget
  <2> QED BY <1>0, <1>1, <1>2, <1>3, <2>1, StageOut DEF PeerInv
<1>4. CASE p # Daemon
  <2>1. UNCHANGED <<view, heardBefore>> BY <1>4 DEF Forget, historyVars
  <2>2. peerReport' \in Int /\ peerReport' >= peerReport BY DEF PeerInv, WorldInv
  <2> QED BY <1>1, <1>2, <1>4, <2>1, <2>2, StageStays DEF PeerInv
<1> QED BY <1>3, <1>4

\* The statements of the digest.
LEMMA DigestKeepsPeer ==
  ASSUME MailInv, PeerInv, DigestStep
  PROVE  PeerInv'
<1>0. /\ view \in ViewType /\ now \in Nat /\ peerReport \in Int /\ peerReport <= now
      /\ PeerStaleAfter \in Nat /\ Retention \in Nat /\ Daemon \in Procs
  BY ClockAssumption, ProcsAssumption DEF ClockAssumption, ProcsAssumption, PeerInv, WorldInv, StageInv
<1>1. ASSUME NEW place, NEW next, NEW newView, Read(place, next, newView)
      PROVE  /\ WorldInv' /\ pc[Daemon] = place /\ pc'[Daemon] = next /\ view' = newView
             /\ UNCHANGED <<now, peerReport, messages, heardBefore>>
  <2>1. /\ pc[Daemon] = place /\ Goto(Daemon, next) /\ view' = newView
        /\ UNCHANGED <<now, peerReport, messages, heard, heardBefore>> /\ inbound' = inbound
    BY <1>1 DEF Read, worldVars, historyVars
  <2>2. WorldInv' BY <2>1, WorldStays DEF PeerInv
  <2> QED BY <1>0, <2>1, <2>2, DaemonMoves
<1>2. ASSUME NEW v \in ViewType, NEW sec PROVE
        WithSection(v, sec) \in ViewType /\ \A f \in {"peer", "last", "report", "judged"} : WithSection(v, sec)[f] = v[f]
  <2>1. Listed(sec) \subseteq Items /\ OpenStaleness(sec) \subseteq Items BY DEF Listed, OpenStaleness
  <2> QED BY <1>2, <2>1 DEF WithSection, ViewType
<1>3. ASSUME NEW w \in ViewType, NEW word \in {"unavailable", "stale", "fresh"}, NEW v,
              v = [shown |-> w.shown, stale |-> w.stale, peer |-> word, last |-> w.last, report |-> w.report,
                   judged |-> now, subject |-> w.subject]
       PROVE  v \in ViewType /\ v.peer = word /\ v.judged = now /\ v.last = w.last /\ v.report = w.report
  <2>1. /\ w.shown \in SUBSET Items /\ w.stale \in SUBSET Items /\ w.last \in Int /\ w.report \in Int
        /\ w.subject \in Nat \X Nat
    BY DEF ViewType
  <2> QED BY <1>0, <1>3, <2>1 DEF ViewType
<1>4. CASE ReadOwn
  <2>1. WorldInv' /\ pc'[Daemon] = "message" /\ view' = WithSection(view, "own") BY <1>1, <1>4 DEF ReadOwn
  <2> QED BY <1>0, <1>2, <2>1, StageOut DEF PeerInv
<1>5. CASE ReadMessageAt
  <2>1. CASE LastPeerMessageAt = -1
    <3> DEFINE v == [view EXCEPT !.peer = "unavailable", !.judged = now]
    <3>1. /\ WorldInv' /\ pc'[Daemon] = "plans" /\ view' = v
          /\ UNCHANGED <<now, messages, heardBefore>>
      BY <1>1, <1>5, <2>1 DEF ReadMessageAt
    <3>2. v \in ViewType /\ v.peer = "unavailable" /\ v.judged = now
      <4>1. PICK w0 : w0 = view OBVIOUS
      <4>2. PICK v0 : v0 = [w0 EXCEPT !.peer = "unavailable", !.judged = now] OBVIOUS
      <4>3. v = v0 /\ w0 \in ViewType BY <1>0, <4>1, <4>2
      <4>4. v0 = [shown |-> w0.shown, stale |-> w0.stale, peer |-> "unavailable", last |-> w0.last,
                  report |-> w0.report, judged |-> now, subject |-> w0.subject]
        BY <4>2, <4>3 DEF ViewType
      <4>5. v0 \in ViewType /\ v0.peer = "unavailable" /\ v0.judged = now BY <1>3, <4>3, <4>4
      <4> HIDE DEF v
      <4> QED BY <4>3, <4>5
    <3>3. heardBefore = -1 \/ now - heardBefore > Retention
      <4>1. ASSUME Remembered(heardBefore), [kind |-> "report", at |-> heardBefore] \in messages PROVE FALSE
        <5>1. heardBefore <= LastPeerMessageAt /\ heardBefore \in Nat
          BY <4>1, LastIsNewest DEF PeerInv, Remembered
        <5> QED BY <2>1, <5>1
      <4> QED BY <4>1 DEF PeerInv, WorldInv, Remembered
    <3>4. Judged' BY <3>1, <3>2, <3>3 DEF Judged
    <3> QED BY <3>1, <3>2, <3>4 DEF PeerInv, StageInv
  <2>2. CASE LastPeerMessageAt # -1
    <3> DEFINE v == [view EXCEPT !.last = LastPeerMessageAt]
    <3>1. WorldInv' /\ pc'[Daemon] = "report" /\ view' = v /\ UNCHANGED peerReport
      BY <1>1, <1>5, <2>2 DEF ReadMessageAt
    <3>2. LastPeerMessageAt \in Int /\ LastPeerMessageAt <= peerReport BY <2>2, LastIsNewest DEF PeerInv
    <3>3. v \in ViewType /\ v.last = LastPeerMessageAt BY <1>0, <3>2 DEF ViewType
    <3> QED BY <3>1, <3>2, <3>3 DEF PeerInv, StageInv, Late
  <2> QED BY <2>1, <2>2
<1>6. CASE ReadPeerReport
  <2> DEFINE v == [view EXCEPT !.report = peerReport]
  <2>1. WorldInv' /\ pc[Daemon] = "report" /\ pc'[Daemon] = "findings" /\ view' = v BY <1>1, <1>6 DEF ReadPeerReport
  <2>2. v \in ViewType /\ v.last = view.last /\ v.report = peerReport BY <1>0 DEF ViewType
  <2>3. view.last <= peerReport BY <2>1 DEF PeerInv, StageInv
  <2> QED BY <2>1, <2>2, <2>3 DEF PeerInv, StageInv, Late
<1>7. CASE ReadPeerFindings
  <2> DEFINE w == WithSection(view, "peer")
             word == IF now - view.last > PeerStaleAfter THEN "stale" ELSE "fresh"
             v == [w EXCEPT !.judged = now, !.peer = word]
  <2>1. WorldInv' /\ pc[Daemon] = "findings" /\ pc'[Daemon] = "plans" /\ view' = v
    BY <1>1, <1>7 DEF ReadPeerFindings
  <2>2. w \in ViewType /\ w.last = view.last /\ w.report = view.report BY <1>0, <1>2
  <2>3. /\ v \in ViewType /\ v.peer = word /\ v.judged = now
        /\ v.last = view.last /\ v.report = view.report
    <3>1. word \in {"unavailable", "stale", "fresh"} OBVIOUS
    <3> HIDE DEF w, word
    <3>2. PICK w0 : w0 = w OBVIOUS
    <3>3. PICK word0 : word0 = word OBVIOUS
    <3>4. w0 \in ViewType /\ word0 \in {"unavailable", "stale", "fresh"} BY <2>2, <3>1, <3>2, <3>3
    <3>5. PICK v0 : v0 = [w0 EXCEPT !.judged = now, !.peer = word0] OBVIOUS
    <3>6. v = v0 BY <3>2, <3>3, <3>5
    <3>7. v0 = [shown |-> w0.shown, stale |-> w0.stale, peer |-> word0, last |-> w0.last, report |-> w0.report,
                judged |-> now, subject |-> w0.subject]
      BY <3>4, <3>5 DEF ViewType
    <3>8. v0 \in ViewType /\ v0.peer = word0 /\ v0.judged = now /\ v0.last = w0.last /\ v0.report = w0.report
      BY <1>3, <3>4, <3>7
    <3> HIDE DEF v
    <3> QED BY <2>2, <3>2, <3>3, <3>6, <3>8
  <2>4. view.last <= view.report /\ view.last \in Int /\ view.report \in Int
    BY <1>0, <2>1 DEF PeerInv, StageInv, ViewType
  <2>5. Judged'
    <3>1. word # "unavailable" OBVIOUS
    <3>2. word = "fresh" => now - view.report <= PeerStaleAfter BY <1>0, <2>4
    <3> HIDE DEF word, v, w
    <3> QED BY <2>1, <2>3, <2>4, <3>1, <3>2 DEF Judged
  <2> QED BY <2>1, <2>3, <2>5 DEF PeerInv, StageInv
<1>8. ASSUME NEW v \in ViewType, \A f \in {"peer", "last", "report", "judged"} : v[f] = view[f],
             view' = v, WorldInv', UNCHANGED heardBefore, pc[Daemon] \in Late, pc'[Daemon] \in Late
      PROVE  PeerInv'
  <2>1. Judged BY <1>8 DEF PeerInv, StageInv
  <2>2. v.peer = view.peer /\ v.last = view.last /\ v.report = view.report /\ v.judged = view.judged BY <1>8
  <2>3. Judged' BY <1>8, <2>1, <2>2 DEF Judged
  <2> QED BY <1>8, <2>3 DEF PeerInv, StageInv, Late
<1>9. CASE ReadPlans
  <2> DEFINE v == [view EXCEPT !.shown = @ \union Listed("plans")]
  <2>1. /\ WorldInv' /\ UNCHANGED heardBefore /\ view' = v
        /\ pc[Daemon] \in Late /\ pc'[Daemon] \in Late
    BY <1>1, <1>9 DEF ReadPlans, Late
  <2>2. v \in ViewType /\ \A f \in {"peer", "last", "report", "judged"} : v[f] = view[f]
    BY <1>0 DEF ViewType, Listed
  <2> QED BY <1>8, <2>1, <2>2
<1>10. CASE ReadDecisions
  <2> DEFINE w == [view EXCEPT !.shown = @ \union Listed("decisions")]
  <2>0. PICK lines \in StalenessLines(view.stale) : Read("decisions", "enqueue", Rendered(w, lines))
    BY <1>10 DEF ReadDecisions
  <2> DEFINE v == Rendered(w, lines)
  <2>1. /\ WorldInv' /\ UNCHANGED heardBefore /\ view' = v
        /\ pc[Daemon] \in Late /\ pc'[Daemon] \in Late
    BY <1>1, <2>0 DEF Late
  <2>2. w \in ViewType /\ \A f \in {"peer", "last", "report", "judged"} : w[f] = view[f]
    BY <1>0 DEF ViewType, Listed
  <2>3. v \in ViewType /\ \A f \in {"peer", "last", "report", "judged"} : v[f] = w[f]
    <3>1. Subject(w.shown) \in Nat \X Nat
      <4>1. ASSUME NEW sev PROVE CountSeverity(w.shown, sev) \in Nat
        <5>1. {i \in w.shown : Section[i] \in {"own", "peer"} /\ Severity[i] = sev} \subseteq Items
          BY <2>2 DEF ViewType
        <5> QED BY <5>1, ItemsAssumption, FS_Subset, FS_CardinalityType DEF ItemsAssumption, CountSeverity
      <4> QED BY <4>1 DEF Subject
    <3>2. lines \subseteq Items BY <1>0 DEF ViewType, StalenessLines
    <3> HIDE DEF w
    <3> QED BY <2>2, <3>1, <3>2 DEF Rendered, ViewType
  <2> QED BY <1>8, <2>1, <2>2, <2>3
<1> QED BY <1>4, <1>5, <1>6, <1>7, <1>9, <1>10 DEF DigestStep

\* Everything else a process does.
LEMMA ProcessKeepsPeer ==
  ASSUME MailInv, PeerInv, NEW p \in Procs,
         \/ MailStep(p) \/ MsmtpHangs(p) \/ HungMsmtpEnds(p) \/ MarkFails(p)
         \/ OpenAgentStore(p) \/ OpenAgentStoreFails(p) \/ Kill(p)
  PROVE  PeerInv'
<1>0. view \in ViewType /\ peerReport \in Int /\ Daemon \in Procs /\ pc \in [Procs -> Places]
  BY ProcsAssumption DEF ProcsAssumption, PeerInv, StageInv, WorldInv, MailInv
<1>1. CASE EnqueueEmail(p) \/ Send(p) \/ MsmtpHangs(p) \/ HungMsmtpEnds(p)
  <2>1. UNCHANGED <<now, peerReport, messages, heard, heardBefore, view>> /\ inbound' = inbound
    BY <1>1 DEF EnqueueEmail, Send, MsmtpHangs, HungMsmtpEnds, MsmtpEnds, worldVars, historyVars
  <2>2. pc[p] \in Late /\ (Goto(p, "send") \/ Goto(p, "hung") \/ Goto(p, "sent") \/ Goto(p, "failed"))
    BY <1>1 DEF EnqueueEmail, Send, MsmtpHangs, HungMsmtpEnds, MsmtpEnds, Late
  <2>3. pc'[Daemon] = pc[Daemon] \/ (pc[Daemon] \in Late /\ pc'[Daemon] \in Late)
    BY <2>2, DaemonMoves DEF Late
  <2> QED BY <1>0, <2>1, <2>3, WorldStays, StageStays DEF PeerInv
<1>2. CASE MarkEmail(p) \/ MarkFails(p) \/ Kill(p)
  <2>1. /\ UNCHANGED <<now, peerReport, messages, heard>> /\ Forget(p)
        /\ Goto(p, AfterMail(p)) \/ Goto(p, "off")
    BY <1>2 DEF MarkEmail, MarkFails, Kill, worldVars
  <2>2. inbound' = inbound \/ inbound' = FALSE BY <1>2 DEF MarkEmail, MarkFails, Kill, worldVars
  <2>3. p = Daemon => AfterMail(p) = "idle" BY DEF AfterMail
  <2> QED BY <2>1, <2>2, <2>3, ForgetsStage
<1>3. CASE OpenAgentStore(p) \/ OpenAgentStoreFails(p)
  <2>1. UNCHANGED <<now, peerReport, messages, heard, heardBefore, view>> /\ inbound' = inbound
    BY <1>3 DEF OpenAgentStore, OpenAgentStoreFails, processVars, worldVars, historyVars
  <2>2. WorldInv' BY <2>1, WorldStays DEF PeerInv
  <2>3. pc[p] = "opening" /\ (pc' = pc \/ Goto(p, "off") \/ Goto(p, IF p = Daemon THEN "idle" ELSE "enqueue"))
    BY <1>3 DEF OpenAgentStore, OpenAgentStoreFails, Goto
  <2>4. CASE p = Daemon
    <3>1. pc'[Daemon] \in {"opening", "off", "idle"} BY <2>3, <2>4, DaemonMoves
    <3> QED BY <1>0, <2>1, <2>2, <3>1, StageOut DEF PeerInv
  <2>5. CASE p # Daemon
    <3>1. pc'[Daemon] = pc[Daemon] BY <2>3, <2>5, DaemonMoves
    <3> QED BY <1>0, <2>1, <2>2, <3>1, StageStays DEF PeerInv
  <2> QED BY <2>4, <2>5
<1> QED BY <1>1, <1>2, <1>3 DEF MailStep

\* What is known of the peer stays true.
THEOREM PeerInvariant == Spec => []PeerInv
<1>1. ASSUME MailInv, PeerInv, [Next]_vars PROVE PeerInv'
  <2>0. /\ view \in ViewType /\ EmptyView \in ViewType /\ peerReport \in Int
        /\ Daemon \in Procs /\ Tester \in Procs /\ Daemon # Tester
    BY <1>1, ProcsAssumption DEF ProcsAssumption, PeerInv, StageInv, WorldInv, EmptyView, ViewType
  <2>1. ASSUME UNCHANGED <<now, peerReport, messages, heard, heardBefore, view>>, inbound' = inbound,
               pc'[Daemon] = pc[Daemon]
        PROVE  PeerInv'
    BY <1>1, <2>0, <2>1, WorldStays, StageStays DEF PeerInv
  <2>2. CASE StartDigest
    <3>1. /\ Goto(Daemon, "own") /\ view' = EmptyView /\ heardBefore' = heard
          /\ UNCHANGED <<now, peerReport, messages, heard>> /\ inbound' = inbound
      BY <2>2 DEF StartDigest, worldVars
    <3>2. WorldInv' BY <1>1, <3>1, WorldStays DEF PeerInv
    <3>3. pc'[Daemon] = "own" BY <1>1, <2>0, <3>1, DaemonMoves
    <3> QED BY <2>0, <3>1, <3>2, <3>3, StageOut DEF PeerInv
  <2>3. CASE DigestFails
    <3>1. /\ Goto(Daemon, "idle") /\ Forget(Daemon)
          /\ UNCHANGED <<now, peerReport, messages, heard>> /\ inbound' = inbound
      BY <2>3 DEF DigestFails, worldVars
    <3> QED BY <1>1, <2>0, <3>1, ForgetsStage
  <2>4. CASE RunNotifyTest \/ EnqueueFails \/ CloseStore
    <3>1. UNCHANGED <<now, peerReport, messages, heard, heardBefore, view>> /\ inbound' = inbound
      BY <2>4 DEF RunNotifyTest, EnqueueFails, CloseStore, processVars, worldVars, historyVars
    <3>2. \E place : Goto(Tester, place) BY <2>4 DEF RunNotifyTest, EnqueueFails, CloseStore
    <3>3. pc'[Daemon] = pc[Daemon] BY <1>1, <2>0, <3>2, DaemonMoves
    <3> QED BY <2>1, <3>1, <3>3
  <2>5. CASE StartDaemon
    <3>1. /\ UNCHANGED <<now, peerReport, messages, heard, heardBefore, view>> /\ inbound' = inbound
          /\ Goto(Daemon, "opening")
      BY <2>5 DEF StartDaemon, processVars, worldVars, historyVars
    <3>2. pc'[Daemon] = "opening" BY <1>1, <2>0, <3>1, DaemonMoves
    <3>3. WorldInv' BY <1>1, <3>1, WorldStays DEF PeerInv
    <3> QED BY <2>0, <3>1, <3>2, <3>3, StageOut DEF PeerInv
  <2>6. CASE (\E sec \in {"own", "plans", "decisions"} : Refresh(sec)) \/ (\E i \in Items : Snooze(i)) \/ UNCHANGED vars
    BY <2>1, <2>6 DEF Refresh, Snooze, Change, vars, worldVars, historyVars
  <2>7. CASE ReceiveReport \/ RecordReport \/ ReceiveHeartbeat \/ PrunePeerMessages \/ Tick
    <3>1. WorldInv' /\ peerReport' >= peerReport /\ heardBefore' = heardBefore
      BY <1>1, <2>7, WorldChanges DEF PeerInv
    <3>2. UNCHANGED <<pc, view>>
      BY <2>7 DEF ReceiveReport, RecordReport, ReceiveHeartbeat, PrunePeerMessages, Tick
    <3>3. peerReport' \in Int BY <3>1 DEF WorldInv
    <3> QED BY <1>1, <3>1, <3>2, <3>3, StageStays DEF PeerInv
  <2> QED BY <1>1, <2>2, <2>3, <2>4, <2>5, <2>6, <2>7, DigestKeepsPeer, ProcessKeepsPeer DEF Next
<1> QED BY <1>1, InitPeer, MailInvariant, PTL DEF Spec

\* A peer called fresh has a report that young, and one called unavailable has
\* had none within the retention time: the report is saved before its message
\* is recorded, and pruning takes only messages that are older.
THEOREM PeerSectionHonestHolds == Spec => []PeerSectionHonest
<1>1. PeerInv => PeerSectionHonest BY DEF PeerInv, StageInv, Judged, Late, PeerSectionHonest, Complete
<1> QED BY <1>1, PeerInvariant, PTL

-----------------------------------------------------------------------------
(* The items. *)

\* The sections the digest has read.
Covered ==
  CASE pc[Daemon] = "own" -> {}
    [] pc[Daemon] \in {"message", "report", "findings"} -> {"own"}
    [] pc[Daemon] = "plans" -> ShownSections
    [] pc[Daemon] = "decisions" -> ShownSections \union {"plans"}
    [] OTHER -> ShownSections \union {"plans", "decisions"}

\* What was there all the time is noted, and what is there was there at some time.
HistoryRight == always \subseteq NotedIn(status) /\ NotedIn(status) \subseteq ever

\* The digest lists what it should of the sections it has read, and nothing else.
ListingRight ==
  /\ view.shown \subseteq AtSomeTime("listed") /\ view.stale \subseteq AtSomeTime("open")
  /\ \A i \in Throughout("listed") : Section[i] \in Covered => i \in view.shown

\* Before the best candidates are chosen, all of them are at hand.
CandidatesThere ==
  \A i \in Throughout("open") \intersect Staleness : Section[i] \in Covered => i \in view.stale

\* What a digest that is complete says besides what it lists.
SubjectRight ==
  \A k \in 1..2 : Subject({i \in Throughout("listed") : Section[i] \in ShownSections})[k] <= view.subject[k]

CandidatesRight ==
  \A i \in Throughout("open") \intersect Staleness :
    (Section[i] \in ShownSections /\ i \notin view.stale) =>
      Cardinality({j \in view.stale : Score[j] >= Score[i]}) >= TopN

ViewInv ==
  /\ status \in [Items -> {"absent", "open", "snoozed"}]
  /\ Building => HistoryRight /\ ListingRight /\ CandidatesThere
  /\ Complete => ListingRight /\ SubjectRight /\ CandidatesRight

\* A candidate that is not among the lines has TopN there that it is not ahead of.
LEMMA BestAhead ==
  ASSUME NEW C \in SUBSET Items, NEW lines \in StalenessLines(C), NEW i \in C \ lines
  PROVE  Cardinality({j \in lines : Score[j] >= Score[i]}) >= TopN
<1>1. /\ lines \subseteq C /\ Cardinality(lines) = TopN
      /\ \A j \in lines : ~Ahead(i, j)
  BY DEF StalenessLines
<1>2. \A j \in lines : Score[j] >= Score[i]
  <2>1. \A j \in Items : Score[j] \in Int BY ItemsAssumption DEF ItemsAssumption
  <2> QED BY <1>1, <2>1 DEF Ahead
<1>3. {j \in lines : Score[j] >= Score[i]} = lines BY <1>2
<1>4. TopN \in Nat BY ItemsAssumption DEF ItemsAssumption
<1> QED BY <1>1, <1>3, <1>4

\* More items, no smaller a number in the subject.
LEMMA SubjectGrows ==
  ASSUME NEW A \in SUBSET Items, NEW B \in SUBSET Items, A \subseteq B
  PROVE  \A k \in 1..2 : Subject(A)[k] <= Subject(B)[k]
<1>1. ASSUME NEW sev PROVE CountSeverity(A, sev) <= CountSeverity(B, sev)
  <2> DEFINE In(X) == {i \in X : Section[i] \in {"own", "peer"} /\ Severity[i] = sev}
  <2>1. In(A) \subseteq In(B) /\ In(B) \subseteq Items OBVIOUS
  <2>2. IsFiniteSet(Items) BY ItemsAssumption DEF ItemsAssumption
  <2>3. CountSeverity(A, sev) = Cardinality(In(A)) /\ CountSeverity(B, sev) = Cardinality(In(B)) BY DEF CountSeverity
  <2> HIDE DEF In
  <2>4. IsFiniteSet(In(B)) BY <2>1, <2>2, FS_Subset
  <2>5. Cardinality(In(A)) <= Cardinality(In(B)) BY <2>1, <2>4, FS_Subset
  <2> QED BY <2>3, <2>5
<1>2. \A k \in 1..2 : k = 1 \/ k = 2 OBVIOUS
<1>3. Subject(A)[1] <= Subject(B)[1] /\ Subject(A)[2] <= Subject(B)[2] BY <1>1 DEF Subject
<1> QED BY <1>2, <1>3

\* What a section shows now was there at some time, and shows all that lasted.
LEMMA SectionRead ==
  ASSUME ViewInv, Building, NEW sec
  PROVE  /\ Listed(sec) \subseteq AtSomeTime("listed") /\ OpenStaleness(sec) \subseteq AtSomeTime("open")
         /\ \A i \in Throughout("listed") : Section[i] = sec => i \in Listed(sec)
         /\ \A i \in Throughout("open") \intersect Staleness : Section[i] = sec => i \in OpenStaleness(sec)
<1>0. HistoryRight /\ \A i \in Items : status[i] \in {"absent", "open", "snoozed"} BY DEF ViewInv
<1>1. \A i \in Items : /\ (<<i, "listed">> \in NotedIn(status)) <=> status[i] # "absent"
                       /\ (<<i, "open">> \in NotedIn(status)) <=> status[i] = "open"
  BY DEF NotedIn
<1>2. \A i \in Items, how \in {"listed", "open"} :
        /\ <<i, how>> \in always => <<i, how>> \in NotedIn(status)
        /\ <<i, how>> \in NotedIn(status) => <<i, how>> \in ever
  BY <1>0 DEF HistoryRight
<1>3. \A i \in Listed(sec) : i \in Items /\ status[i] # "absent" BY DEF Listed
<1>4. \A i \in OpenStaleness(sec) : i \in Items /\ status[i] = "open" BY <1>0 DEF OpenStaleness, Listed
<1>5. Listed(sec) \subseteq AtSomeTime("listed") BY <1>1, <1>2, <1>3 DEF AtSomeTime
<1>6. OpenStaleness(sec) \subseteq AtSomeTime("open") BY <1>1, <1>2, <1>4 DEF AtSomeTime
<1>7. \A i \in Throughout("listed") : i \in Items /\ status[i] # "absent" BY <1>1, <1>2 DEF Throughout
<1>8. \A i \in Throughout("open") : i \in Items /\ status[i] = "open" BY <1>1, <1>2 DEF Throughout
<1>9. \A i \in Throughout("listed") : Section[i] = sec => i \in Listed(sec) BY <1>7 DEF Listed
<1>10. \A i \in Throughout("open") \intersect Staleness : Section[i] = sec => i \in OpenStaleness(sec)
  BY <1>8 DEF Listed, OpenStaleness, Staleness
<1> QED BY <1>5, <1>6, <1>9, <1>10

\* Steps that change neither the items nor the digest.
LEMMA ViewStays ==
  ASSUME ViewInv, UNCHANGED <<status, view, always, ever>>,
         \/ pc'[Daemon] = pc[Daemon]
         \/ pc[Daemon] \in {"enqueue", "send", "hung"} /\ pc'[Daemon] \in {"send", "hung", "sent", "failed"}
  PROVE  ViewInv'
<1>1. (Building' => Building) /\ (Complete' => Complete) /\ (Building \/ Complete => Covered' = Covered)
  BY DEF Building, Complete, Reading, Covered, ShownSections
<1>2. HistoryRight => HistoryRight' BY DEF HistoryRight
<1>3. (Building \/ Complete) /\ ListingRight => ListingRight' BY <1>1 DEF ListingRight, AtSomeTime, Throughout
<1>4. Building /\ CandidatesThere => CandidatesThere' BY <1>1 DEF CandidatesThere, Throughout
<1>5. SubjectRight => SubjectRight' BY DEF SubjectRight, Throughout, ShownSections
<1>6. CandidatesRight => CandidatesRight' BY DEF CandidatesRight, Throughout, ShownSections
<1> QED BY <1>1, <1>2, <1>3, <1>4, <1>5, <1>6 DEF ViewInv

\* Steps after which there is no digest.
LEMMA ViewGone ==
  ASSUME ViewInv, UNCHANGED status, pc'[Daemon] \in {"off", "opening", "idle"}
  PROVE  ViewInv'
BY DEF ViewInv, Building, Complete, Reading

\* Items that change while the digest is read.
LEMMA ChangeKeepsView ==
  ASSUME ViewInv, NEW s \in [Items -> {"absent", "open", "snoozed"}], Change(s), UNCHANGED <<pc, view>>
  PROVE  ViewInv'
<1>0. /\ status' = s /\ status' \in [Items -> {"absent", "open", "snoozed"}]
      /\ (Building' <=> Building) /\ (Complete' <=> Complete) /\ Covered' = Covered /\ ShownSections' = ShownSections
  BY DEF Change, Building, Complete, Covered, ShownSections
<1>1. CASE Building
  <2>1. always' = always \intersect NotedIn(s) /\ ever' = ever \union NotedIn(s) BY <1>1 DEF Change
  <2>2. HistoryRight'
    <3>1. NotedIn(status)' = NotedIn(s) BY <1>0 DEF NotedIn
    <3> QED BY <2>1, <3>1 DEF HistoryRight
  <2>3. \A how \in {"listed", "open"} : Throughout(how)' \subseteq Throughout(how) /\ AtSomeTime(how) \subseteq AtSomeTime(how)'
    BY <2>1 DEF Throughout, AtSomeTime
  <2>4. ListingRight /\ CandidatesThere BY <1>1 DEF ViewInv
  <2>5. ListingRight' BY <1>0, <2>3, <2>4 DEF ListingRight
  <2>6. CandidatesThere' BY <1>0, <2>3, <2>4 DEF CandidatesThere
  <2>7. ~Complete BY <1>1 DEF Building, Complete, Reading
  <2> QED BY <1>0, <2>2, <2>5, <2>6, <2>7 DEF ViewInv
<1>2. CASE ~Building
  <2>1. UNCHANGED <<always, ever>> BY <1>2 DEF Change
  <2>2. \A how \in {"listed", "open"} : Throughout(how)' = Throughout(how) /\ AtSomeTime(how)' = AtSomeTime(how)
    BY <2>1 DEF Throughout, AtSomeTime
  <2>3. ListingRight => ListingRight' BY <1>0, <2>2 DEF ListingRight
  <2>4. SubjectRight => SubjectRight' BY <1>0, <2>2 DEF SubjectRight
  <2>5. CandidatesRight => CandidatesRight' BY <1>0, <2>2 DEF CandidatesRight
  <2> QED BY <1>0, <1>2, <2>3, <2>4, <2>5 DEF ViewInv
<1> QED BY <1>1, <1>2

\* A statement that adds what section sec shows; it covers sec at most.
LEMMA ReadKeepsView ==
  ASSUME ViewInv, NEW sec, UNCHANGED <<status, always, ever>>, Building, Building',
         view'.shown = view.shown \/ view'.shown = view.shown \union Listed(sec),
         view'.stale = view.stale \/ view'.stale = view.stale \union OpenStaleness(sec),
         Covered' \subseteq Covered \union {sec},
         sec \in Covered' => /\ view'.shown = view.shown \union Listed(sec)
                             /\ view'.stale = view.stale \union OpenStaleness(sec) \/ sec \notin {"own", "peer"}
  PROVE  ViewInv'
<1>0. HistoryRight /\ ListingRight /\ CandidatesThere BY DEF ViewInv
<1>1. /\ Listed(sec) \subseteq AtSomeTime("listed") /\ OpenStaleness(sec) \subseteq AtSomeTime("open")
      /\ \A i \in Throughout("listed") : Section[i] = sec => i \in Listed(sec)
      /\ \A i \in Throughout("open") \intersect Staleness : Section[i] = sec => i \in OpenStaleness(sec)
  BY SectionRead
<1>2. \A how \in {"listed", "open"} : Throughout(how)' = Throughout(how) /\ AtSomeTime(how)' = AtSomeTime(how)
  BY DEF Throughout, AtSomeTime
<1>3. ListingRight'
  <2>1. view'.shown \subseteq AtSomeTime("listed") /\ view'.stale \subseteq AtSomeTime("open")
    BY <1>0, <1>1 DEF ListingRight
  <2>2. ASSUME NEW i \in Throughout("listed"), Section[i] \in Covered' PROVE i \in view'.shown
    <3>1. CASE Section[i] = sec BY <1>1, <2>2, <3>1
    <3>2. CASE Section[i] # sec BY <1>0, <2>2, <3>2 DEF ListingRight
    <3> QED BY <3>1, <3>2
  <2> QED BY <1>2, <2>1, <2>2 DEF ListingRight
<1>4. CandidatesThere'
  <2>1. ASSUME NEW i \in Throughout("open") \intersect Staleness, Section[i] \in Covered' PROVE i \in view'.stale
    <3>0. Section[i] \in {"own", "peer"} BY DEF Staleness, Findings
    <3>1. CASE Section[i] = sec BY <1>1, <2>1, <3>0, <3>1
    <3>2. CASE Section[i] # sec BY <1>0, <2>1, <3>2 DEF CandidatesThere
    <3> QED BY <3>1, <3>2
  <2> QED BY <1>2, <2>1 DEF CandidatesThere
<1>5. ~Complete' /\ HistoryRight' BY <1>0 DEF Building, Complete, Reading, HistoryRight
<1> QED BY <1>3, <1>4, <1>5 DEF ViewInv

\* The statements of the digest.
LEMMA DigestKeepsView ==
  ASSUME MailInv, PeerInv, ViewInv, DigestStep
  PROVE  ViewInv'
<1>0. view \in ViewType /\ Daemon \in Procs /\ pc \in [Procs -> Places]
  BY ProcsAssumption DEF ProcsAssumption, PeerInv, StageInv, MailInv
<1>1. ASSUME NEW place, NEW next, NEW newView, Read(place, next, newView)
      PROVE  /\ pc[Daemon] = place /\ pc'[Daemon] = next /\ view' = newView
             /\ UNCHANGED <<status, always, ever>>
  <2>1. /\ pc[Daemon] = place /\ Goto(Daemon, next) /\ view' = newView /\ UNCHANGED <<status, always, ever>>
    BY <1>1 DEF Read, worldVars, historyVars
  <2> QED BY <1>0, <2>1, DaemonMoves
<1>2. ASSUME NEW v \in ViewType, NEW sec
      PROVE  /\ WithSection(v, sec) \in ViewType
             /\ WithSection(v, sec).shown = v.shown \union Listed(sec)
             /\ WithSection(v, sec).stale = v.stale \union OpenStaleness(sec)
  <2>1. Listed(sec) \subseteq Items /\ OpenStaleness(sec) \subseteq Items BY DEF Listed, OpenStaleness
  <2> QED BY <1>2, <2>1 DEF WithSection, ViewType
<1>3. CASE ReadOwn
  <2>1. /\ pc[Daemon] = "own" /\ pc'[Daemon] = "message" /\ view' = WithSection(view, "own")
        /\ UNCHANGED <<status, always, ever>>
    BY <1>1, <1>3 DEF ReadOwn
  <2>2. Building /\ Building' /\ Covered = {} /\ Covered' = {"own"} BY <2>1 DEF Building, Reading, Covered
  <2> QED BY <1>0, <1>2, <2>1, <2>2, ReadKeepsView
<1>4. CASE ReadMessageAt
  <2>1. /\ pc[Daemon] = "message" /\ pc'[Daemon] \in {"plans", "report"}
        /\ UNCHANGED <<status, always, ever>>
        /\ \/ view' = [view EXCEPT !.peer = "unavailable", !.judged = now] /\ pc'[Daemon] = "plans"
           \/ view' = [view EXCEPT !.last = LastPeerMessageAt] /\ pc'[Daemon] = "report"
    BY <1>1, <1>4 DEF ReadMessageAt
  <2>2. view'.shown = view.shown /\ view'.stale = view.stale /\ (pc'[Daemon] = "plans" => view'.peer = "unavailable")
    BY <1>0, <2>1 DEF ViewType
  <2>3. Building /\ Building' /\ Covered = {"own"} /\ Covered' = {"own"}
    BY <2>1, <2>2 DEF Building, Reading, Covered, ShownSections
  <2> QED BY <2>1, <2>2, <2>3, ReadKeepsView
<1>5. CASE ReadPeerReport
  <2>1. /\ pc[Daemon] = "report" /\ pc'[Daemon] = "findings" /\ view' = [view EXCEPT !.report = peerReport]
        /\ UNCHANGED <<status, always, ever>>
    BY <1>1, <1>5 DEF ReadPeerReport
  <2>2. view'.shown = view.shown /\ view'.stale = view.stale BY <1>0, <2>1 DEF ViewType
  <2>3. Building /\ Building' /\ Covered = {"own"} /\ Covered' = {"own"} BY <2>1 DEF Building, Reading, Covered
  <2> QED BY <2>1, <2>2, <2>3, ReadKeepsView
<1>6. CASE ReadPeerFindings
  <2> DEFINE w == WithSection(view, "peer")
             word == IF now - view.last > PeerStaleAfter THEN "stale" ELSE "fresh"
  <2>1. /\ pc[Daemon] = "findings" /\ pc'[Daemon] = "plans"
        /\ view' = [w EXCEPT !.judged = now, !.peer = word]
        /\ UNCHANGED <<status, always, ever>>
    BY <1>1, <1>6 DEF ReadPeerFindings
  <2>2. w \in ViewType /\ w.shown = view.shown \union Listed("peer") /\ w.stale = view.stale \union OpenStaleness("peer")
    BY <1>0, <1>2
  <2>3. word # "unavailable" OBVIOUS
  <2> HIDE DEF w, word
  <2>4. view'.shown = w.shown /\ view'.stale = w.stale /\ view'.peer = word BY <2>1, <2>2 DEF ViewType
  <2>5. Building /\ Building' /\ Covered = {"own"} /\ Covered' = {"own", "peer"}
    BY <2>1, <2>3, <2>4 DEF Building, Reading, Covered, ShownSections
  <2> QED BY <2>1, <2>2, <2>4, <2>5, ReadKeepsView
<1>7. CASE ReadPlans
  <2>1. /\ pc[Daemon] = "plans" /\ pc'[Daemon] = "decisions"
        /\ view' = [view EXCEPT !.shown = @ \union Listed("plans")]
        /\ UNCHANGED <<status, always, ever>>
    BY <1>1, <1>7 DEF ReadPlans
  <2>2. view'.shown = view.shown \union Listed("plans") /\ view'.stale = view.stale /\ view'.peer = view.peer
    BY <1>0, <2>1 DEF ViewType
  <2>3. Building /\ Building' /\ Covered' = Covered \union {"plans"}
    BY <2>1, <2>2 DEF Building, Reading, Covered, ShownSections
  <2> QED BY <2>1, <2>2, <2>3, ReadKeepsView
<1>8. CASE ReadDecisions
  <2> DEFINE w == [view EXCEPT !.shown = @ \union Listed("decisions")]
  <2>0. PICK lines \in StalenessLines(view.stale) : Read("decisions", "enqueue", Rendered(w, lines))
    BY <1>8 DEF ReadDecisions
  <2>1. /\ pc[Daemon] = "decisions" /\ pc'[Daemon] = "enqueue" /\ view' = Rendered(w, lines)
        /\ UNCHANGED <<status, always, ever>>
    BY <1>1, <2>0
  <2>2. /\ w \in ViewType /\ w.shown = view.shown \union Listed("decisions")
        /\ w.stale = view.stale /\ w.peer = view.peer
    BY <1>0 DEF ViewType, Listed
  <2> HIDE DEF w
  <2>3. /\ view'.shown = w.shown /\ view'.stale = lines
        /\ view'.peer = w.peer /\ view'.subject = Subject(w.shown)
    BY <2>1, <2>2 DEF Rendered, ViewType
  <2>4. /\ Building /\ ~Building' /\ Complete' /\ ShownSections' = ShownSections
        /\ Covered = ShownSections \union {"plans"} /\ Covered' = Covered \union {"decisions"}
    BY <2>1, <2>2, <2>3 DEF Building, Reading, Complete, Covered, ShownSections
  <2>5. ListingRight /\ CandidatesThere BY <2>4 DEF ViewInv
  <2>6. \A how \in {"listed", "open"} : Throughout(how)' = Throughout(how) /\ AtSomeTime(how)' = AtSomeTime(how)
    BY <2>1 DEF Throughout, AtSomeTime
  <2>7. ListingRight'
    <3>1. /\ Listed("decisions") \subseteq AtSomeTime("listed")
          /\ \A i \in Throughout("listed") : Section[i] = "decisions" => i \in Listed("decisions")
      BY <2>4, SectionRead
    <3>2. lines \subseteq w.stale BY <2>2 DEF StalenessLines
    <3>3. \A i \in Throughout("listed") : Section[i] \in Covered' => i \in view'.shown
      BY <2>2, <2>3, <2>4, <2>5, <3>1 DEF ListingRight
    <3>4. view'.shown \subseteq AtSomeTime("listed") /\ view'.stale \subseteq AtSomeTime("open")
      BY <2>2, <2>3, <2>5, <3>1, <3>2 DEF ListingRight
    <3> QED BY <2>6, <3>3, <3>4 DEF ListingRight
  <2>8. SubjectRight'
    <3> DEFINE A == {i \in Throughout("listed") : Section[i] \in ShownSections}
    <3>1. A \subseteq w.shown BY <2>2, <2>4, <2>5 DEF ListingRight
    <3>2. w.shown \in SUBSET Items /\ A \in SUBSET Items BY <2>2 DEF ViewType, Throughout
    <3>3. \A k \in 1..2 : Subject(A)[k] <= Subject(w.shown)[k]
      <4> HIDE DEF A
      <4> QED BY <3>1, <3>2, SubjectGrows
    <3>4. Subject({i \in Throughout("listed")' : Section[i] \in ShownSections'}) = Subject(A) BY <2>4, <2>6
    <3>5. SubjectRight' <=> \A k \in 1..2 : Subject({i \in Throughout("listed")' : Section[i] \in ShownSections'})[k] <= view'.subject[k]
      BY DEF SubjectRight, Subject, CountSeverity
    <3> HIDE DEF A
    <3> QED BY <2>3, <3>3, <3>4, <3>5
  <2>9. CandidatesRight'
    <3>1. ASSUME NEW i \in Throughout("open") \intersect Staleness, Section[i] \in ShownSections, i \notin view'.stale
          PROVE  Cardinality({j \in view'.stale : Score[j] >= Score[i]}) >= TopN
      <4>1. w.stale \in SUBSET Items BY <2>2 DEF ViewType
      <4>2. i \in w.stale BY <2>2, <2>4, <2>5, <3>1 DEF CandidatesThere
      <4>3. lines \in StalenessLines(w.stale) BY <2>2
      <4>4. i \in w.stale \ lines BY <2>3, <3>1, <4>2
      <4> QED BY <2>3, <4>1, <4>3, <4>4, BestAhead
    <3> QED BY <2>4, <2>6, <3>1 DEF CandidatesRight
  <2> QED BY <2>1, <2>4, <2>7, <2>8, <2>9 DEF ViewInv
<1> QED BY <1>3, <1>4, <1>5, <1>6, <1>7, <1>8 DEF DigestStep

\* The digest and the items it tells of agree, whatever changes meanwhile.
THEOREM ViewInvariant == Spec => []ViewInv
<1>1. Init => ViewInv
  <2>1. Init => pc[Daemon] = "off" BY ProcsAssumption DEF ProcsAssumption, Init
  <2>2. Init => status \in [Items -> {"absent", "open", "snoozed"}] BY DEF Init
  <2> QED BY <2>1, <2>2 DEF ViewInv, Building, Complete, Reading
<1>2. ASSUME MailInv, PeerInv, ViewInv, [Next]_vars PROVE ViewInv'
  <2>0. Daemon \in Procs /\ Tester \in Procs /\ Daemon # Tester BY ProcsAssumption DEF ProcsAssumption
  <2>1. CASE StartDigest
    <3>1. /\ Goto(Daemon, "own") /\ view' = EmptyView /\ UNCHANGED status
          /\ always' = NotedIn(status) /\ ever' = NotedIn(status)
      BY <2>1 DEF StartDigest, worldVars
    <3>2. pc'[Daemon] = "own" BY <1>2, <2>0, <3>1, DaemonMoves
    <3>3. Covered' = {} /\ ~Complete' BY <3>2 DEF Covered, Complete
    <3>4. HistoryRight' BY <3>1 DEF HistoryRight, NotedIn
    <3>5. view'.shown = {} /\ view'.stale = {} BY <3>1 DEF EmptyView
    <3> QED BY <1>2, <3>1, <3>3, <3>4, <3>5 DEF ViewInv, ListingRight, CandidatesThere
  <2>2. CASE DigestStep BY <1>2, <2>2, DigestKeepsView
  <2>3. CASE DigestFails \/ StartDaemon
    <3>1. UNCHANGED status /\ (Goto(Daemon, "idle") \/ Goto(Daemon, "opening"))
      BY <2>3 DEF DigestFails, StartDaemon, processVars, worldVars
    <3>2. pc'[Daemon] \in {"idle", "opening"} BY <1>2, <2>0, <3>1, DaemonMoves
    <3> QED BY <1>2, <3>1, <3>2, ViewGone
  <2>4. ASSUME NEW p \in Procs, EnqueueEmail(p) \/ Send(p) \/ MsmtpHangs(p) \/ HungMsmtpEnds(p) PROVE ViewInv'
    <3>1. UNCHANGED <<status, view, always, ever>>
      BY <2>4 DEF EnqueueEmail, Send, MsmtpHangs, HungMsmtpEnds, MsmtpEnds, worldVars, historyVars
    <3>2. pc[p] \in {"enqueue", "send", "hung"} /\ \E place \in {"send", "hung", "sent", "failed"} : Goto(p, place)
      BY <2>4 DEF EnqueueEmail, Send, MsmtpHangs, HungMsmtpEnds, MsmtpEnds
    <3>3. \/ pc'[Daemon] = pc[Daemon]
          \/ pc[Daemon] \in {"enqueue", "send", "hung"} /\ pc'[Daemon] \in {"send", "hung", "sent", "failed"}
      BY <1>2, <3>2, DaemonMoves
    <3> QED BY <1>2, <3>1, <3>3, ViewStays
  <2>5. ASSUME NEW p \in Procs, MarkEmail(p) \/ MarkFails(p) \/ Kill(p) PROVE ViewInv'
    <3>1. UNCHANGED status /\ Forget(p) /\ (Goto(p, AfterMail(p)) \/ Goto(p, "off"))
      BY <2>5 DEF MarkEmail, MarkFails, Kill, worldVars
    <3>2. CASE p = Daemon
      <4>1. pc'[Daemon] \in {"idle", "off"} BY <1>2, <3>1, <3>2, DaemonMoves DEF AfterMail
      <4> QED BY <1>2, <3>1, <4>1, ViewGone
    <3>3. CASE p # Daemon
      <4>1. pc'[Daemon] = pc[Daemon] BY <1>2, <3>1, <3>3, DaemonMoves
      <4>2. UNCHANGED <<view, always, ever>> BY <3>1, <3>3 DEF Forget, historyVars
      <4> QED BY <1>2, <3>1, <4>1, <4>2, ViewStays
    <3> QED BY <3>2, <3>3
  <2>6. ASSUME NEW p \in Procs, OpenAgentStore(p) \/ OpenAgentStoreFails(p) PROVE ViewInv'
    <3>1. UNCHANGED <<status, view, always, ever>>
      BY <2>6 DEF OpenAgentStore, OpenAgentStoreFails, processVars, worldVars, historyVars
    <3>2. pc[p] = "opening" /\ (pc' = pc \/ Goto(p, "off") \/ Goto(p, IF p = Daemon THEN "idle" ELSE "enqueue"))
      BY <2>6 DEF OpenAgentStore, OpenAgentStoreFails, Goto
    <3>3. pc'[Daemon] = pc[Daemon] \/ pc'[Daemon] \in {"off", "idle"} BY <1>2, <3>2, DaemonMoves
    <3> QED BY <1>2, <3>1, <3>3, ViewStays, ViewGone
  <2>7. CASE RunNotifyTest \/ EnqueueFails \/ CloseStore
    <3>1. UNCHANGED <<status, view, always, ever>>
      BY <2>7 DEF RunNotifyTest, EnqueueFails, CloseStore, processVars, worldVars, historyVars
    <3>2. \E place : Goto(Tester, place) BY <2>7 DEF RunNotifyTest, EnqueueFails, CloseStore
    <3>3. pc'[Daemon] = pc[Daemon] BY <1>2, <2>0, <3>2, DaemonMoves
    <3> QED BY <1>2, <3>1, <3>3, ViewStays
  <2>8. ASSUME NEW sec, NEW s \in Reported(sec), Change(s), UNCHANGED <<pc, view>> PROVE ViewInv'
    <3>1. s \in [Items -> {"absent", "open", "snoozed"}] BY DEF Reported
    <3> QED BY <1>2, <2>8, <3>1, ChangeKeepsView
  <2>9. CASE (\E sec \in {"own", "plans", "decisions"} : Refresh(sec)) \/ ReceiveReport
    BY <2>8, <2>9 DEF Refresh, ReceiveReport
  <2>10. ASSUME NEW i \in Items, Snooze(i) PROVE ViewInv'
    <3>1. status \in [Items -> {"absent", "open", "snoozed"}] BY <1>2 DEF ViewInv
    <3>2. PICK s : s = [status EXCEPT ![i] = "snoozed"] OBVIOUS
    <3>3. s \in [Items -> {"absent", "open", "snoozed"}] BY <3>1, <3>2
    <3>4. Change(s) /\ UNCHANGED <<pc, view>> BY <2>10, <3>2 DEF Snooze
    <3> QED BY <1>2, <3>3, <3>4, ChangeKeepsView
  <2>11. CASE RecordReport \/ ReceiveHeartbeat \/ PrunePeerMessages \/ Tick \/ UNCHANGED vars
    <3>1. UNCHANGED <<status, view, always, ever, pc>>
      BY <2>11 DEF RecordReport, ReceiveHeartbeat, PrunePeerMessages, Tick, vars, worldVars, historyVars
    <3> QED BY <1>2, <3>1, ViewStays
  <2> QED BY <1>2, <2>1, <2>2, <2>3, <2>4, <2>5, <2>6, <2>7, <2>9, <2>10, <2>11 DEF Next, MailStep
<1> QED BY <1>1, <1>2, MailInvariant, PeerInvariant, PTL DEF Spec

\* The digest lists what lasted while it was read and nothing that never was,
\* its subject counts no less, and a candidate is missing only behind TopN
\* better ones: for any number of items and any order of reads and changes.
THEOREM DigestTruthfulHolds == Spec => []DigestTruthful
<1>1. ViewInv => DigestTruthful
  <2>1. Complete => Covered = ShownSections \union {"plans", "decisions"} BY DEF Complete, Covered
  <2> QED BY <2>1 DEF ViewInv, ListingRight, SubjectRight, CandidatesRight, DigestTruthful
<1> QED BY <1>1, ViewInvariant, PTL
=============================================================================
