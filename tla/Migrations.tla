------------------------------ MODULE Migrations ------------------------------
(***************************************************************************)
(* The schema of the API's database under MigrationRunner.migrate and      *)
(* MigrationRunner.rollback, run by several processes against one          *)
(* Postgres: replicas that start together, an operator's rollback.         *)
(*                                                                         *)
(* up() and down() go through runDDL, which has a connection and a         *)
(* transaction of its own: what they do is committed and visible before    *)
(* the transaction that records it, and stays when that one never commits. *)
(* migrate() records all its versions in one commit at the end, rollback() *)
(* each of its versions in a commit of its own.                            *)
(*                                                                         *)
(* Left out: names and columns, the seed command, which inserts nothing,   *)
(* and the status command, whose process exits before it asks the          *)
(* database anything (scripts/migrate.ts:54 loops over a promise).         *)
(***************************************************************************)
EXTENDS Integers, FiniteSets, FiniteSetsExt

CONSTANTS
    Processes,     \* processes that run the migrate script
    StepChoices,   \* rollback's steps argument
    MaxRollbacks,  \* bound on the rollbacks ever started
    MaxFaults      \* bound on failing statements and dying processes

ASSUME MigrationBounds == StepChoices \cup {MaxRollbacks, MaxFaults} \subseteq Nat

\* The registered migrations, and the tables each of them creates; the fifth
\* only indexes tables of the others.  The first one creates and drops the
\* tracking table as well.
Versions == 1..6
First    == 1
initial_schema      == {"transactions", "webhook_registrations",
                        "webhook_delivery_log", "webhook_dlq"}
api_keys_schema     == {"api_keys", "api_key_audit_log"}
analytics_schema    == {"webhook_events", "analytics_metrics"}
integrity_audit_log == {"audit_log_entries", "audit_log_checkpoints"}
query_optimization_indexes == {"transactions", "analytics_metrics", "webhook_events",
                               "webhook_delivery_log", "audit_log_entries"}
provider_orders     == {"provider_orders"}

Creates(v) == <<initial_schema, api_keys_schema, analytics_schema,
                integrity_audit_log, {}, provider_orders>>[v]
Indexed(v) == IF v = 5 THEN query_optimization_indexes ELSE {}
Tables     == UNION {Creates(v) : v \in Versions}

VARIABLES
    table,      \* schema_migrations exists, committed
    records,    \* the versions recorded in it
    tables,     \* the tables of the migrations that exist, with their own indexes
    indexes,    \* those that have the fifth migration's indexes
    run,        \* what each process is doing
    rollbacks, faults,
    tangled     \* a rollback met a migrate, or was cut off with its down() done

schemaVars == <<table, records, tables, indexes, run, rollbacks, faults, tangled>>

Idle == [kind |-> "idle", todo |-> {}, done |-> {}]
Runs == [kind : {"idle", "migrate", "down", "delete"}, todo : SUBSET Versions,
         done : SUBSET Versions]

Migrating(p) == run[p].kind = "migrate"
Rolling(p)   == run[p].kind \in {"down", "delete"}

\* The advisory lock belongs to the transaction, so it is held as long as a
\* migrate runs and goes with its connection.
Locked == \E p \in Processes : Migrating(p)

\* Migrations are sorted by version; a rollback takes the records in reverse.
NextUp(p)   == Min(run[p].todo)
NextDownOldest(p) == Min(run[p].todo)   \* faulty variant: the reverse() is missing
NextDown(p) == Max(run[p].todo)

Applied(v) == Creates(v) \subseteq tables /\ Indexed(v) \subseteq indexes

\* run' is the argument, and what that tangles.
RunsOn(p, r) ==
    /\ run' = [run EXCEPT ![p] = r]
    /\ tangled' = (tangled \/ \E q, s \in Processes :
                       run'[q].kind = "migrate" /\ run'[s].kind \in {"down", "delete"})

MigrationInit == /\ table \in BOOLEAN
        /\ records = {} /\ tables = {} /\ indexes = {}
        /\ run = [p \in Processes |-> Idle]
        /\ rollbacks = 0 /\ faults = 0 /\ tangled = FALSE

-------------------------------------------------------------------------------
\* migrate up to its SELECT: the lock is taken or the call fails at once; the
\* CREATE of the tracking table is not committed yet.  With nothing pending the
\* call changes nothing and is left out.
StartMigrate(p) ==
    /\ run[p] = Idle /\ ~Locked
    /\ Versions \ records # {}
    /\ RunsOn(p, [kind |-> "migrate", todo |-> Versions \ records, done |-> {}])
    /\ UNCHANGED <<table, records, tables, indexes, rollbacks, faults>>

\* The first migration's CREATE TABLE schema_migrations, on runDDL's connection,
\* waits for migrate's own uncommitted CREATE of that table: for ever, were it
\* not for the statement timeout.
Blocked(v) == v = First /\ ~table
Missing(v) == ~(Indexed(v) \subseteq tables)

\* Faulty variant of Up: the DDL fails on what an earlier run left behind.
UpOnce(p) ==
    /\ Migrating(p) /\ run[p].todo # {}
    /\ LET v == NextUp(p) IN
         /\ ~Blocked(v) /\ ~Missing(v) /\ Creates(v) \cap tables = {}
         /\ tables'  = tables \cup Creates(v)
         /\ indexes' = indexes \cup Indexed(v)
         /\ RunsOn(p, [run[p] EXCEPT !.todo = @ \ {v}, !.done = @ \cup {v}])
    /\ UNCHANGED <<table, records, rollbacks, faults>>

\* up(), IF NOT EXISTS throughout and committed by runDDL, and the INSERT, which nobody sees before the COMMIT.
Up(p) ==
    /\ Migrating(p) /\ run[p].todo # {}
    /\ LET v == NextUp(p) IN
         /\ ~Blocked(v) /\ ~Missing(v)
         /\ tables'  = tables \cup Creates(v)
         /\ indexes' = indexes \cup Indexed(v)
         /\ RunsOn(p, [run[p] EXCEPT !.todo = @ \ {v}, !.done = @ \cup {v}])
    /\ UNCHANGED <<table, records, rollbacks, faults>>

\* up() throws: the timeout, or a table it indexes is gone.  ROLLBACK: this
\* migrate records nothing, not even the versions it has applied.
UpFails(p) ==
    /\ Migrating(p) /\ run[p].todo # {}
    /\ Blocked(NextUp(p)) \/ Missing(NextUp(p))
    /\ RunsOn(p, Idle)
    /\ UNCHANGED <<table, records, tables, indexes, rollbacks, faults>>

CommitMigrate(p) ==
    /\ Migrating(p) /\ run[p].todo = {}
    /\ table' = TRUE
    /\ records' = records \cup run[p].done
    /\ RunsOn(p, Idle)
    /\ UNCHANGED <<tables, indexes, rollbacks, faults>>

-------------------------------------------------------------------------------
\* loadApplied, which commits the tracking table if there was none (and waits
\* while a migrate has created it without committing), and the choice of versions.
StartRollback(p, steps) ==
    /\ run[p] = Idle /\ rollbacks < MaxRollbacks
    /\ ~table => ~Locked
    /\ table' = TRUE
    /\ LET last == {v \in records : Cardinality({w \in records : w > v}) < steps} IN
         RunsOn(p, IF last = {} THEN Idle
                   ELSE [kind |-> "down", todo |-> last, done |-> {}])
    /\ rollbacks' = rollbacks + 1
    /\ UNCHANGED <<records, tables, indexes, faults>>

\* down(), committed by runDDL; tables take their indexes along.  The first migration's drops the tracking table
\* too, which a migrate in progress has locked.
Down(p) ==
    /\ run[p].kind = "down"
    /\ LET v == NextDown(p) IN
         /\ v = First => ~Locked
         /\ tables'  = tables \ Creates(v)
         /\ indexes' = indexes \ (Creates(v) \cup Indexed(v))
         /\ table'   = (table /\ v # First)
         /\ records' = IF v = First THEN {} ELSE records
    /\ RunsOn(p, [run[p] EXCEPT !.kind = "delete"])
    /\ UNCHANGED <<rollbacks, faults>>

\* The DROP waits for the migrate until the statement timeout ends it.
DownTimesOut(p) ==
    /\ run[p].kind = "down" /\ NextDown(p) = First /\ Locked
    /\ RunsOn(p, Idle)
    /\ UNCHANGED <<table, records, tables, indexes, rollbacks, faults>>

\* The DELETE and its COMMIT.  After the first migration's down() there is no
\* table to delete from: the rollback throws although it has done its work.
DeleteRecord(p) ==
    /\ run[p].kind = "delete"
    /\ LET v    == NextDown(p)
           left == run[p].todo \ {v}
       IN  /\ records' = records \ {v}
           /\ RunsOn(p, IF ~table \/ left = {} THEN Idle
                        ELSE [kind |-> "down", todo |-> left, done |-> {}])
    /\ UNCHANGED <<table, tables, indexes, rollbacks, faults>>

\* A statement fails or the process dies: its transaction is rolled back, what
\* runDDL committed stays.
Abort(p) ==
    /\ run[p] # Idle /\ faults < MaxFaults
    /\ run' = [run EXCEPT ![p] = Idle]
    /\ tangled' = (tangled \/ run[p].kind = "delete")
    /\ faults' = faults + 1
    /\ UNCHANGED <<table, records, tables, indexes, rollbacks>>

Settle(p) == Up(p) \/ UpFails(p) \/ CommitMigrate(p) \/ Down(p) \/ DownTimesOut(p)
                \/ DeleteRecord(p)

Script(p, steps) == StartMigrate(p) \/ Settle(p) \/ Abort(p)
                       \/ (\E n \in steps : StartRollback(p, n))

MigrationNext == \E p \in Processes : Script(p, StepChoices)

\* Statements return or time out, and whoever deploys runs migrate again as long
\* as something is pending.
MigrationFairness == \A p \in Processes : WF_schemaVars(Settle(p)) /\ WF_schemaVars(StartMigrate(p))

MigrationSpec == MigrationInit /\ [][MigrationNext]_schemaVars /\ MigrationFairness

-------------------------------------------------------------------------------
SchemaTypeOK == /\ {table, tangled} \subseteq BOOLEAN
          /\ records \subseteq Versions /\ (~table => records = {})
          /\ tables \subseteq Tables /\ indexes \subseteq tables
          /\ run \in [Processes -> Runs]
          /\ rollbacks \in 0..MaxRollbacks /\ faults \in 0..MaxFaults

\* What is recorded as applied is in the schema, whatever migrate failed or died
\* on the way and however rollbacks overlap; two things excuse it: a rollback cut
\* off between its two commits, and one that overlapped a migrate.
RecordedIsThere ==
    SchemaTypeOK /\ (~tangled =>
        \A v \in records :
            \/ Applied(v)
            \/ \E p \in Processes : run[p].kind = "delete" /\ NextDown(p) = v)

\* Deploying again gets the whole schema applied and recorded, except on a
\* database without tracking table, where every migrate blocks itself.
EventuallyMigrated ==
    <>[](\/ ~table \/ tangled
         \/ records = Versions /\ \A v \in Versions : Applied(v))
===============================================================================
