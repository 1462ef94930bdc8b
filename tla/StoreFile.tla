------------------------------ MODULE StoreFile ------------------------------
(***************************************************************************)
(* One node's SQLite file as store.Open finds and leaves it: which          *)
(* migrations it has, the version it records, and the processes that open   *)
(* it.  Open pings, reads the schema version and applies what is newer, one *)
(* transaction for each migration; SQLite's write lock lets one transaction *)
(* run at a time, so a transaction is one step, but nothing holds the file  *)
(* between the reading of the version and the first transaction.            *)
(***************************************************************************)
EXTENDS Integers, FiniteSets

CONSTANTS
  Procs,  \* processes that open the file
  Last    \* version of the newest migration the binary embeds

ASSUME LastAssumption == Last \in Nat

VARIABLES
  schema,   \* the migrations whose tables and indexes the file holds
  version,  \* schema_meta.version, 0 while there is no such table
  conn      \* conn[p]: p's handle: its state and the migrations it still applies

fileVars == <<schema, version, conn>>

Migrations == 1..Last
Handle == [st : {"closed", "pinged", "migrating", "open"}, todo : SUBSET Migrations]
Closed == [st |-> "closed", todo |-> {}]

FileTypeOK ==
  /\ schema \in SUBSET Migrations
  /\ version \in 0..Last
  /\ conn \in [Procs -> Handle]

FileInit ==
  /\ schema = {} /\ version = 0
  /\ conn = [p \in Procs |-> Closed]

(* Open up to the end of PingContext. *)
Ping(p) ==
  /\ conn[p].st = "closed"
  /\ conn' = [conn EXCEPT ![p].st = "pinged"]
  /\ UNCHANGED <<schema, version>>

\* Mutant: migrations the file already has are not skipped.
ReadVersion_All(p) ==
  /\ conn[p].st = "pinged"
  /\ conn' = [conn EXCEPT ![p] = [st |-> "migrating", todo |-> Migrations]]
  /\ UNCHANGED <<schema, version>>

(* sortedMigrationNames and currentSchemaVersion: a file without schema_meta is version 0. *)
ReadVersion(p) ==
  /\ conn[p].st = "pinged"
  /\ conn' = [conn EXCEPT ![p] = [st |-> "migrating", todo |-> {v \in Migrations : v > version}]]
  /\ UNCHANGED <<schema, version>>

NextMigration(p) == CHOOSE v \in conn[p].todo : \A w \in conn[p].todo : v <= w

\* Mutant: the version is recorded outside the transaction and gets lost.
ApplyMigration_NoBump(p) ==
  LET v == NextMigration(p) IN
  /\ conn[p].st = "migrating" /\ conn[p].todo # {}
  /\ \/ /\ v \notin schema
        /\ schema' = schema \union {v} /\ version' \in {v, version}
        /\ conn' = [conn EXCEPT ![p].todo = @ \ {v}]
     \/ /\ v \in schema
        /\ conn' = [conn EXCEPT ![p] = Closed]
        /\ UNCHANGED <<schema, version>>

(* A migration is rolled back when its CREATE statements meet what another process created; then Open
   closes the handle and fails.  The script and the new version are committed together. *)
ApplyMigration(p) ==
  LET v == NextMigration(p) IN
  /\ conn[p].st = "migrating" /\ conn[p].todo # {}
  /\ \/ /\ v \notin schema
        /\ schema' = schema \union {v} /\ version' = v
        /\ conn' = [conn EXCEPT ![p].todo = @ \ {v}]
     \/ /\ v \in schema
        /\ conn' = [conn EXCEPT ![p] = Closed]
        /\ UNCHANGED <<schema, version>>

(* migrate has applied everything and Open returns the store. *)
Opened(p) ==
  /\ conn[p].st = "migrating" /\ conn[p].todo = {}
  /\ conn' = [conn EXCEPT ![p].st = "open"]
  /\ UNCHANGED <<schema, version>>

(* A statement of Open fails (the lock is held longer than busy_timeout, the context ends, the disk fails):
   the transaction is rolled back, the handle closed. *)
OpenFails(p) ==
  /\ conn[p].st \in {"pinged", "migrating"}
  /\ conn' = [conn EXCEPT ![p] = Closed]
  /\ UNCHANGED <<schema, version>>

(* Store.Close, or the end of the process, at any point: an open transaction is rolled back. *)
Close(p) ==
  /\ conn[p].st # "closed"
  /\ conn' = [conn EXCEPT ![p] = Closed]
  /\ UNCHANGED <<schema, version>>

OpenStep(p) == ReadVersion(p) \/ ApplyMigration(p) \/ Opened(p)

FileNext == \E p \in Procs : Ping(p) \/ OpenStep(p) \/ OpenFails(p) \/ Close(p)

FileSpec == FileInit /\ [][FileNext]_fileVars

-----------------------------------------------------------------------------
(* Whatever processes open the file at the same time and wherever they fail, the file holds exactly the
   migrations up to the version it records, and a process that got a store has the whole schema (migrate:
   "a failed migration never leaves the schema partially applied"). *)
SchemaWhole ==
  /\ schema = 1..version
  /\ \A p \in Procs : conn[p].st = "open" => version = Last
=============================================================================
