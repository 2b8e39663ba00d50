------------------------------ MODULE Migrations ------------------------------
(***************************************************************************)
(* runPostgresMigrations and runMysqlMigrations of packages/platform-db,     *)
(* as migrate-cli runs them: several processes at once, any of which may     *)
(* die, or lose its connection, at any step.                               *)
(*                                                                         *)
(* The database serves a session until it notices that its client is gone:   *)
(* what it was asked last may still happen, its transaction is rolled back   *)
(* and its lock is released only then.                                     *)
(***************************************************************************)
EXTENDS Integers, FiniteSets

CONSTANTS
    Runner,     \* processes of migrate-cli
    NoRunner,   \* nobody holds the lock
    Catalogs,   \* possible files: for each release, the checksum of each version in it
    MaxCrashes  \* bound: processes that die

ASSUME RunnerAssumption == NoRunner \notin Runner /\ MaxCrashes \in Nat

(* Releases and versions are numbers; a release keeps the earlier files.    *)
ASSUME CatalogAssumption ==
    \A files \in Catalogs :
        /\ DOMAIN files \subseteq Nat \ {0}
        /\ \A release \in DOMAIN files :
            /\ DOMAIN files[release] \subseteq Nat \ {0}
            /\ \A earlier \in DOMAIN files :
                earlier <= release => DOMAIN files[earlier] \subseteq DOMAIN files[release]

VARIABLES
    kind,       \* "postgres" or "mysql"
    catalog,    \* the migration files of each release
    table,      \* whether oss_scp_schema_migrations exists
    history,    \* its rows: the checksum of each version
    schema,     \* the migrations whose statement has been executed, likewise
    lock,       \* the session with the advisory lock
    run,        \* the runners
    crashes     \* how many have died

db == <<table, history, schema, lock>>
migrationVars == <<kind, catalog, db, run, crashes>>

Label == {"idle", "creating", "making", "locking", "reading", "choosing", "sql",
          "inserting", "committing", "unlocking", "ended", "gone"}
Result == {"none", "done", "error", "LOCK_TIMEOUT", "CHECKSUM_MISMATCH", "MIGRATION_FAILED"}

Idle == [pc |-> "idle", release |-> 0, known |-> << >>, version |-> 0,
         asked |-> "idle", result |-> "none"]

MigrationTypeOK ==
    /\ kind \in {"postgres", "mysql"} /\ catalog \in Catalogs
    /\ table \in BOOLEAN /\ lock \in Runner \union {NoRunner} /\ crashes \in 0..MaxCrashes
    /\ \A r \in Runner : /\ run[r].pc \in Label /\ run[r].asked \in Label
                         /\ run[r].result \in Result
                         /\ run[r].pc # "idle" => run[r].release \in DOMAIN catalog

MigrationInit ==
    /\ kind \in {"postgres", "mysql"} /\ catalog \in Catalogs
    /\ table = FALSE /\ history = << >> /\ schema = << >> /\ lock = NoRunner
    /\ run = [r \in Runner |-> Idle] /\ crashes = 0

Files(r) == catalog[run[r].release]

-----------------------------------------------------------------------------
Step(r, label, new) ==
    /\ run[r].pc = label
    /\ run' = [run EXCEPT ![r] = new]
    /\ UNCHANGED <<kind, catalog, crashes>>

At(r, label) == [run[r] EXCEPT !.pc = label]
Ended(r, result) == [At(r, "ended") EXCEPT !.result = result]
Leaving(r, result) == [At(r, "unlocking") EXCEPT !.result = result]

(* migrate-cli connects.                                                   *)
BeginMigration(r, release) ==
    /\ Step(r, "idle", [Idle EXCEPT !.pc = "creating", !.release = release])
    /\ UNCHANGED db

(* CREATE TABLE IF NOT EXISTS.  PostgreSQL looks first and creates then: if  *)
(* another session created it in between, the statement fails, outside of    *)
(* what the code turns into a MigrationError.                              *)
CreateTable(r) ==
    /\ Step(r, "creating", At(r, IF table \/ kind = "mysql" THEN "locking" ELSE "making"))
    /\ table' = (table \/ kind = "mysql")
    /\ UNCHANGED <<history, schema, lock>>

MakeTable(r) ==
    /\ Step(r, "making", IF table THEN Ended(r, "error") ELSE At(r, "locking"))
    /\ table' = TRUE
    /\ UNCHANGED <<history, schema, lock>>

(* Mutant: pg_try_advisory_lock, whose answer nobody looks at.              *)
TryLock(r) ==
    /\ Step(r, "locking", At(r, "reading"))
    /\ lock' = r
    /\ UNCHANGED <<table, history, schema>>

(* pg_advisory_lock under a statement_timeout, GET_LOCK with its timeout.    *)
TakeLock(r) ==
    \/ /\ lock = NoRunner
       /\ Step(r, "locking", At(r, "reading"))
       /\ lock' = r
       /\ UNCHANGED <<table, history, schema>>
    \/ /\ lock # NoRunner
       /\ Step(r, "locking", Ended(r, "LOCK_TIMEOUT"))
       /\ UNCHANGED db

ReadHistory(r) ==
    /\ Step(r, "reading", [At(r, "choosing") EXCEPT !.known = history])
    /\ UNCHANGED db

(* The files that are left, in the order of their versions.                *)
Later(r) == {v \in DOMAIN Files(r) : v > run[r].version}

Choose(r) ==
    /\ run[r].pc = "choosing"
    /\ \/ Later(r) = {} /\ Step(r, "choosing", Leaving(r, "done"))
       \/ \E v \in Later(r) :
            /\ \A other \in Later(r) : v <= other
            /\ Step(r, "choosing",
                CASE v \notin DOMAIN run[r].known -> [At(r, "sql") EXCEPT !.version = v]
                  [] v \in DOMAIN run[r].known /\ run[r].known[v] = Files(r)[v]
                        -> [run[r] EXCEPT !.version = v]
                  [] OTHER -> Leaving(r, "CHECKSUM_MISMATCH"))
    /\ UNCHANGED db

Put(f, r) ==
    [v \in DOMAIN f \union {run[r].version} |->
        IF v = run[r].version THEN Files(r)[v] ELSE f[v]]

(* Mutant: the transaction is opened after the statement.                   *)
CommitsAtOnce(r) == TRUE

(* MySQL commits a DDL statement with itself; PostgreSQL with COMMIT.       *)
CommitsWithStatement(r) == kind = "mysql"

(* The statement may fail for what is in the tables.  One whose objects are  *)
(* there already does; two of the files for MySQL create none, and succeed   *)
(* again: which files do is left open.                                     *)
RunSql(r) ==
    \/ /\ run[r].version \in DOMAIN schema => kind = "mysql"
       /\ Step(r, "sql", At(r, "inserting"))
       /\ schema' = IF CommitsWithStatement(r) THEN Put(schema, r) ELSE schema
       /\ UNCHANGED <<table, history, lock>>
    \/ /\ Step(r, "sql", Leaving(r, "MIGRATION_FAILED"))
       /\ UNCHANGED db

InsertRow(r) ==
    \/ /\ Step(r, "inserting", At(r, IF kind = "mysql" THEN "choosing" ELSE "committing"))
       /\ history' = IF kind = "mysql" THEN Put(history, r) ELSE history
       /\ UNCHANGED <<table, schema, lock>>
    \/ /\ Step(r, "inserting", Leaving(r, "MIGRATION_FAILED"))
       /\ UNCHANGED db

(* query_timeout may give up a COMMIT that the server still executes.       *)
Commit(r) ==
    /\ \/ /\ Step(r, "committing", At(r, "choosing"))
          /\ history' = Put(history, r) /\ schema' = Put(schema, r)
       \/ /\ Step(r, "committing", Leaving(r, "MIGRATION_FAILED"))
          /\ \/ history' = Put(history, r) /\ schema' = Put(schema, r)
             \/ UNCHANGED <<history, schema>>
    /\ UNCHANGED <<table, lock>>

(* The finally clause; a lock that it fails to release goes with the         *)
(* connection, which migrate-cli closes next.                              *)
Unlock(r) ==
    /\ Step(r, "unlocking", At(r, "ended"))
    /\ lock' = NoRunner
    /\ UNCHANGED <<table, history, schema>>

Crash(r) ==
    /\ crashes < MaxCrashes
    /\ run[r].pc \notin {"idle", "ended", "gone"}
    /\ run' = [run EXCEPT ![r].pc = "gone", ![r].asked = run[r].pc]
    /\ crashes' = crashes + 1
    /\ UNCHANGED <<kind, catalog, db>>

(* What the session was asked last happens or not; then it ends.            *)
EndSession(r) ==
    /\ Step(r, "gone", Ended(r, "error"))
    /\ lock' = IF lock = r THEN NoRunner ELSE lock
    /\ \/ UNCHANGED <<history, schema>>
       \/ /\ run[r].asked = "sql" /\ kind = "mysql"
          /\ schema' = Put(schema, r)
          /\ UNCHANGED history
       \/ /\ run[r].asked = "inserting" /\ kind = "mysql"
          /\ history' = Put(history, r)
          /\ UNCHANGED schema
       \/ /\ run[r].asked = "committing"
          /\ history' = Put(history, r) /\ schema' = Put(schema, r)
    /\ UNCHANGED table

Migrate(r) ==
    \/ CreateTable(r) \/ MakeTable(r) \/ TakeLock(r) \/ ReadHistory(r) \/ Choose(r)
    \/ RunSql(r) \/ InsertRow(r) \/ Commit(r) \/ Unlock(r) \/ Crash(r) \/ EndSession(r)

-----------------------------------------------------------------------------
(* Every row of the history stands for a migration that was executed, from   *)
(* the file with that checksum; on PostgreSQL the reverse as well: whatever   *)
(* dies, a migration and its row are there together or not at all.          *)
HistoryIsTrue ==
    /\ \A v \in DOMAIN history : v \in DOMAIN schema /\ schema[v] = history[v]
    /\ kind = "postgres" => DOMAIN schema = DOMAIN history

(* No runner begins a migration that another one has recorded; what it may   *)
(* meet is, on MySQL only, one whose row was never written.                 *)
NeverTwice ==
    \A r \in Runner : run[r].pc = "sql" =>
        /\ run[r].version \notin DOMAIN history
        /\ run[r].version \in DOMAIN schema => kind = "mysql"

(* docs/platform-db.md:73: MySQL migrations can be executed again.  All but  *)
(* two of the files create tables, columns or triggers without a condition:  *)
(* a runner that meets one of those whose row was never written fails, and   *)
(* so does every later one.                                                *)
MysqlRetrySucceeds ==
    \A r \in Runner : run[r].pc = "sql" => run[r].version \notin DOMAIN schema

=============================================================================
