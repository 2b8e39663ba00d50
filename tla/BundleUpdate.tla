----------------------------- MODULE BundleUpdate -----------------------------
(***************************************************************************)
(* install.sh, update.sh and rollback.sh of release/bundle around the        *)
(* migrations of Migrations.tla.                                           *)
(*                                                                         *)
(* One operator, who does what docs/offline-bundle.md says: backs up before   *)
(* an update, never steps back from a release that was tried without the     *)
(* backup, restores it when nothing is migrating, and confirms what was done.  A script may be    *)
(* killed at any step, which leaves the container it runs migrate-cli in.    *)
(***************************************************************************)
EXTENDS Migrations

CONSTANT MaxScripts  \* bound: scripts that are started

VARIABLES
    script,     \* the script that is running
    scripts,    \* how many there have been
    started,    \* the file migration-started in STATE_DIR
    services,   \* the release of the containers, 0 if they do not run
    backup,     \* its history and schema, the release it served, the one updated to since
    restored    \* the database is the backup

hostVars == <<script, scripts, started, services, backup, restored>>
vars == <<migrationVars, hostVars>>

NoScript == [name |-> "none", release |-> 0, confirmed |-> FALSE, pc |-> "off", runner |-> NoRunner]
NoBackup == [release |-> 0, history |-> << >>, schema |-> << >>, tried |-> 0]

TypeOK ==
    /\ MigrationTypeOK
    /\ script # NoScript => /\ script.release \in DOMAIN catalog
                            /\ script.runner \in Runner \union {NoRunner}
    /\ scripts \in 0..MaxScripts /\ started \in BOOLEAN /\ restored \in BOOLEAN
    /\ services \in DOMAIN catalog \union {0} /\ backup.release \in DOMAIN catalog \union {0}

Init ==
    /\ MigrationInit
    /\ script = NoScript /\ scripts = 0 /\ started = FALSE
    /\ services = 0 /\ backup = NoBackup /\ restored = FALSE

Running(label) == script.pc = label
Go(label) == script' = [script EXCEPT !.pc = label]
Fail == script' = NoScript

Migrating == \E r \in Runner : run[r].pc \notin {"idle", "ended"}

-----------------------------------------------------------------------------
StartScript(name, release, confirmed) ==
    /\ script = NoScript /\ scripts < MaxScripts
    /\ script' = [name |-> name, release |-> release, confirmed |-> confirmed,
                  pc |-> "preflight", runner |-> NoRunner]
    /\ scripts' = scripts + 1
    /\ UNCHANGED <<migrationVars, started, services, restored>>

Install ==
    /\ backup = NoBackup
    /\ \E release \in DOMAIN catalog :
        /\ \A other \in DOMAIN catalog : release <= other
        /\ StartScript("install", release, FALSE)
    /\ UNCHANGED backup

(* To a later release, and not to one before the last that was tried.      *)
Update ==
    \E release \in DOMAIN catalog :
        /\ backup # NoBackup /\ release > backup.release /\ release >= backup.tried
        /\ StartScript("update", release, TRUE)
        /\ backup' = [backup EXCEPT !.tried = release]

(* rollback.sh refuses if a migration was begun and no restore is confirmed.  *)
Refuses == started /\ ~script.confirmed

Rollback ==
    /\ backup # NoBackup
    /\ \E confirmed \in {FALSE, restored} : StartScript("rollback", backup.release, confirmed)
    /\ UNCHANGED backup

(* verify_files, load_images, verify_image, the check of the configuration.  *)
Preflight ==
    /\ Running("preflight")
    /\ \/ Fail
       \/ script.name = "rollback" /\ ~Refuses /\ Go("starting")
       \/ script.name # "rollback" /\ Go("marking")
    /\ UNCHANGED <<migrationVars, scripts, started, services, backup, restored>>

(* Mutant: the file is written when the migrations are over.                *)
MarkStartedLate(label) == started' = (started \/ label = "migrated")

MarkStarted(label) == started' = (started \/ label = "marking")

(* run_migration                                                           *)
RunMigration ==
    /\ Running("marking")
    /\ MarkStarted("marking")
    /\ \E r \in Runner :
        /\ BeginMigration(r, script.release)
        /\ script' = [script EXCEPT !.pc = "migrating", !.runner = r]
    /\ UNCHANGED <<scripts, services, backup>> /\ restored' = FALSE

MigrationDone ==
    /\ Running("migrating")
    /\ LET r == script.runner
       IN  /\ run[r].pc = "ended"
           /\ IF run[r].result = "done"
              THEN Go("starting") /\ MarkStarted("migrated")
              ELSE Fail /\ UNCHANGED started
    /\ UNCHANGED <<migrationVars, scripts, services, backup, restored>>

(* docker compose up --force-recreate --wait                               *)
StartServices ==
    /\ Running("starting")
    /\ \/ services' = script.release /\ Go("verifying")
       \/ services' = 0 /\ Fail
    /\ UNCHANGED <<migrationVars, scripts, started, backup, restored>>

(* verify_running; rollback.sh then removes the files of STATE_DIR.         *)
VerifyRunning ==
    /\ Running("verifying")
    /\ Fail
    /\ started' \in IF script.name = "rollback" THEN {started, FALSE} ELSE {started}
    /\ UNCHANGED <<migrationVars, scripts, services, backup, restored>>

Kill ==
    /\ script # NoScript
    /\ Fail
    /\ UNCHANGED <<migrationVars, scripts, started, services, backup, restored>>

-----------------------------------------------------------------------------
(* The operator; a container that is gone makes room for another.           *)
BackUp ==
    /\ script = NoScript /\ services # 0 /\ ~Migrating
    /\ DOMAIN history = DOMAIN catalog[services]
    /\ backup' = [release |-> services, history |-> history, schema |-> schema, tried |-> 0]
    /\ restored' = FALSE
    /\ UNCHANGED <<migrationVars, script, scripts, started, services>>

Restore ==
    /\ script = NoScript /\ backup # NoBackup /\ ~Migrating
    /\ history' = backup.history /\ schema' = backup.schema
    /\ restored' = TRUE
    /\ backup' = [backup EXCEPT !.tried = 0]
    /\ UNCHANGED <<kind, catalog, table, lock, run, crashes, script, scripts, started, services>>

RemoveContainer(r) ==
    /\ run[r].pc = "ended"
    /\ script.runner # r
    /\ run' = [run EXCEPT ![r] = Idle]
    /\ UNCHANGED <<kind, catalog, db, crashes, hostVars>>

Next ==
    \/ Install \/ Update \/ Rollback \/ Preflight \/ RunMigration \/ MigrationDone
    \/ StartServices \/ VerifyRunning \/ Kill \/ BackUp \/ Restore
    \/ \E r \in Runner : (Migrate(r) /\ UNCHANGED hostVars) \/ RemoveContainer(r)

Spec == Init /\ [][Next]_vars

-----------------------------------------------------------------------------
(* docs/offline-bundle.md:63: after a migration has begun, the code alone is  *)
(* not changed back.  Whatever was killed, a release is only started over the *)
(* migrations that it brought, all of them and no later ones.              *)
SchemaFitsCode ==
    [][services' # services /\ services' # 0 => DOMAIN history = DOMAIN catalog[services']]_vars

(* docs/superpowers/specs/2026-09-13-offline-bundle-design.md:95: a release   *)
(* whose update failed before its migrations can be rolled back without the   *)
(* database.  The file migration-started of the installation is still there. *)
RollbackBeforeMigration ==
    Running("preflight") /\ script.name = "rollback" /\ services = script.release => ~Refuses

=============================================================================
