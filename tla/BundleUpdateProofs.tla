-------------------------- MODULE BundleUpdateProofs --------------------------
(***************************************************************************)
(* Theorems about the migrations and the bundle scripts around them, for     *)
(* any releases, any number of runners, scripts and crashes.               *)
(***************************************************************************)
EXTENDS BundleUpdate, TLAPS

(* What a runner is at, or was asked last when its client died.             *)
Stage(r) == IF run[r].pc = "gone" THEN run[r].asked ELSE run[r].pc

Holding == {"reading", "choosing", "sql", "inserting", "committing", "unlocking"}
Working == {"choosing", "sql", "inserting", "committing"}

(* A script that runs has a release.                                       *)
ScriptShape ==
    /\ DOMAIN script = DOMAIN NoScript
    /\ script.pc # "off" => script.release \in DOMAIN catalog

(* The records have their fields; what they hold of the catalog is in it.   *)
Shapes ==
    /\ kind \in {"postgres", "mysql"} /\ catalog \in Catalogs
    /\ DOMAIN run = Runner
    /\ \A r \in Runner :
        /\ DOMAIN run[r] = DOMAIN Idle
        /\ run[r].pc \in Label /\ run[r].version \in Nat
        /\ run[r].pc # "idle" => run[r].release \in DOMAIN catalog
    /\ ScriptShape
    /\ DOMAIN backup = DOMAIN NoBackup
    /\ services \in DOMAIN catalog \union {0}
    /\ backup = NoBackup \/ backup.release \in DOMAIN catalog

(* HistoryIsTrue of the backup.                                            *)
BackupIsTrue ==
    /\ \A v \in DOMAIN backup.history :
        v \in DOMAIN backup.schema /\ backup.schema[v] = backup.history[v]
    /\ kind = "postgres" => DOMAIN backup.schema = DOMAIN backup.history

(* On MySQL a row is written after its statement has been executed, and only  *)
(* PostgreSQL has a COMMIT.                                                *)
Executed ==
    \A r \in Runner :
        /\ Stage(r) = "inserting" /\ kind = "mysql" =>
            run[r].version \in DOMAIN schema /\ schema[run[r].version] = Files(r)[run[r].version]
        /\ Stage(r) = "committing" => kind = "postgres"

(* A session between the lock and its release has the lock.                 *)
Exclusive == \A r \in Runner : Stage(r) \in Holding => lock = r

(* What the runner has read of the history is still true of the versions that *)
(* are left, and the one it is at is not recorded.                         *)
Known ==
    \A r \in Runner :
        /\ Stage(r) \in Working =>
            \A v \in Nat : v > run[r].version =>
                (v \in DOMAIN run[r].known <=> v \in DOMAIN history)
        /\ Stage(r) \in Working \ {"choosing"} => run[r].version \notin DOMAIN history

IInv == Shapes /\ HistoryIsTrue /\ BackupIsTrue /\ Executed /\ Exclusive /\ Known

-----------------------------------------------------------------------------
(* The initial state is consistent: nothing has been read or recorded.      *)
LEMMA InitLemma == Init => IInv
  <1> SUFFICES ASSUME Init PROVE IInv
    OBVIOUS
  <1> USE DEF Init, MigrationInit, Idle, NoScript, NoBackup
  <1>1. Shapes
    BY DEF Shapes, ScriptShape, Label
  <1>2. HistoryIsTrue /\ BackupIsTrue
    BY DEF HistoryIsTrue, BackupIsTrue
  <1>3. Executed /\ Exclusive /\ Known
    BY DEF Executed, Exclusive, Known, Stage, Holding, Working
  <1> QED
    BY <1>1, <1>2, <1>3 DEF IInv

(* A later file of a release is a number after the one the runner is at.    *)
LEMMA LaterLemma ==
  ASSUME Shapes, NEW r \in Runner, run[r].pc # "idle", NEW v \in Later(r)
  PROVE  v \in Nat /\ v > run[r].version
  BY CatalogAssumption DEF Shapes, Later, Files

(* A step of one runner leaves the others where they are.                   *)
LEMMA StepLemma ==
  ASSUME Shapes, NEW r \in Runner, NEW label, NEW new, Step(r, label, new)
  PROVE  /\ run[r].pc = label /\ run'[r] = new
         /\ \A q \in Runner \ {r} : run'[q] = run[q]
         /\ DOMAIN run' = Runner /\ kind' = kind /\ catalog' = catalog
  BY DEF Shapes, Step

(* What a runner's record is after it has gone on, ended or left the lock.   *)
LEMMA FieldsLemma ==
  ASSUME Shapes, NEW r \in Runner, NEW label, NEW result
  PROVE  \A new \in {At(r, label), Ended(r, result), Leaving(r, result)} :
            /\ DOMAIN new = DOMAIN Idle
            /\ new.release = run[r].release /\ new.version = run[r].version
            /\ new.known = run[r].known
            /\ new = At(r, label) => new.pc = label
            /\ new = Ended(r, result) => new.pc = "ended"
            /\ new = Leaving(r, result) => new.pc = "unlocking"
  BY DEF Shapes, Idle, At, Ended, Leaving

(* Starting, looking for the table, waiting for the lock, leaving: nothing    *)
(* that a stage with the lock relies on.                                   *)
LEMMA QuietLemma ==
  ASSUME IInv, NEW r \in Runner, UNCHANGED <<history, schema>>,
         UNCHANGED hostVars \/ (ScriptShape' /\ UNCHANGED <<services, backup>>),
         NEW label \in Label, NEW new, Step(r, label, new),
         DOMAIN new = DOMAIN Idle, new.pc \in Label, new.pc # "gone", new.version \in Nat,
         new.pc # "idle" => new.release \in DOMAIN catalog,
         new.pc \notin Working,
         new.pc \in Holding => lock' = r,
         \A q \in Runner \ {r} : lock = q => lock' = q
  PROVE  IInv'
  <1> USE DEF hostVars
  <1>1. /\ run'[r] = new /\ DOMAIN run' = Runner /\ kind' = kind /\ catalog' = catalog
        /\ \A q \in Runner \ {r} : run'[q] = run[q]
    BY StepLemma DEF IInv
  <1>2. Shapes'
    BY <1>1 DEF IInv, Shapes, ScriptShape
  <1>3. HistoryIsTrue' /\ BackupIsTrue'
    BY <1>1 DEF IInv, HistoryIsTrue, BackupIsTrue
  <1>4. Executed'
    BY <1>1 DEF IInv, Executed, Stage, Working, Files
  <1>5. Exclusive'
    BY <1>1 DEF IInv, Exclusive, Stage
  <1>6. Known'
    BY <1>1 DEF IInv, Known, Stage, Working
  <1> QED
    BY <1>2, <1>3, <1>4, <1>5, <1>6 DEF IInv

LEMMA BeginLemma ==
  ASSUME IInv, NEW r \in Runner, NEW release \in DOMAIN catalog,
         BeginMigration(r, release), ScriptShape', UNCHANGED <<services, backup>>
  PROVE  IInv'
  BY QuietLemma DEF BeginMigration, Idle, db, Label, Working, Holding

LEMMA CreateTableLemma ==
  ASSUME IInv, NEW r \in Runner, CreateTable(r) \/ MakeTable(r), UNCHANGED hostVars
  PROVE  IInv'
  <1> DEFINE label == run[r].pc
  <1>1. /\ Shapes /\ run[r].version \in Nat
        /\ label \in {"creating", "making"} /\ run[r].release \in DOMAIN catalog
    BY DEF IInv, Shapes, CreateTable, MakeTable, Step
  <1>2. PICK new \in {At(r, "locking"), At(r, "making"), Ended(r, "error")} : Step(r, label, new)
    BY DEF CreateTable, MakeTable, Step
  <1>3. /\ DOMAIN new = DOMAIN Idle /\ new.pc \in {"locking", "making", "ended"}
        /\ new.version \in Nat /\ new.release \in DOMAIN catalog
    BY <1>1, FieldsLemma
  <1>4. UNCHANGED <<history, schema, lock>>
    BY DEF CreateTable, MakeTable
  <1> QED
    BY <1>1, <1>2, <1>3, <1>4, QuietLemma DEF Label, Working, Holding

(* The lock is free when it is taken, so that no other session has it.      *)
LEMMA TakeLockLemma ==
  ASSUME IInv, NEW r \in Runner, TakeLock(r), UNCHANGED hostVars
  PROVE  IInv'
  <1>1. Shapes /\ run[r].version \in Nat /\ run[r].release \in DOMAIN catalog
    BY DEF IInv, Shapes, TakeLock, Step
  <1>2. CASE lock = NoRunner
    <2>1. Step(r, "locking", At(r, "reading")) /\ lock' = r /\ UNCHANGED <<history, schema>>
      BY <1>2 DEF TakeLock
    <2>2. /\ DOMAIN At(r, "reading") = DOMAIN Idle /\ At(r, "reading").pc = "reading"
          /\ At(r, "reading").version \in Nat /\ At(r, "reading").release \in DOMAIN catalog
      BY <1>1, FieldsLemma
    <2> QED
      BY <1>2, <2>1, <2>2, RunnerAssumption, QuietLemma DEF Label, Working
  <1>3. CASE lock # NoRunner
    <2> DEFINE new == Ended(r, "LOCK_TIMEOUT")
    <2>1. Step(r, "locking", new) /\ UNCHANGED db
      BY <1>3 DEF TakeLock
    <2>2. /\ DOMAIN new = DOMAIN Idle /\ new.pc = "ended"
          /\ new.version \in Nat /\ new.release \in DOMAIN catalog
      BY <1>1, FieldsLemma
    <2> HIDE DEF new
    <2> QED
      BY <2>1, <2>2, QuietLemma DEF db, Label, Working, Holding
  <1> QED
    BY <1>2, <1>3

LEMMA UnlockLemma ==
  ASSUME IInv, NEW r \in Runner, Unlock(r), UNCHANGED hostVars
  PROVE  IInv'
  <1>1. Shapes /\ run[r].version \in Nat /\ run[r].release \in DOMAIN catalog
    BY DEF IInv, Shapes, Unlock, Step
  <1>2. lock = r
    BY DEF IInv, Exclusive, Stage, Holding, Unlock, Step
  <1>3. /\ DOMAIN At(r, "ended") = DOMAIN Idle /\ At(r, "ended").pc = "ended"
        /\ At(r, "ended").version \in Nat /\ At(r, "ended").release \in DOMAIN catalog
    BY <1>1, FieldsLemma
  <1> QED
    BY <1>2, <1>3, QuietLemma DEF Unlock, Label, Working, Holding

(* A container that has ended is removed.                                  *)
LEMMA RemoveLemma ==
  ASSUME IInv, NEW r \in Runner, RemoveContainer(r)
  PROVE  IInv'
  <1>1. Step(r, "ended", Idle) /\ UNCHANGED <<history, schema, lock>> /\ UNCHANGED hostVars
    BY DEF RemoveContainer, Step, db
  <1> QED
    BY <1>1, QuietLemma DEF Idle, Label, Working, Holding

(* What is read under the lock is the history.                             *)
LEMMA ReadHistoryLemma ==
  ASSUME IInv, NEW r \in Runner, ReadHistory(r), UNCHANGED hostVars
  PROVE  IInv'
  <1> USE DEF hostVars, db
  <1> DEFINE new == [At(r, "choosing") EXCEPT !.known = history]
  <1>1. Shapes /\ run[r].version \in Nat /\ run[r].release \in DOMAIN catalog
    BY DEF IInv, Shapes, ReadHistory, Step
  <1>2. /\ run'[r] = new /\ DOMAIN run' = Runner /\ kind' = kind /\ catalog' = catalog
        /\ \A q \in Runner \ {r} : run'[q] = run[q]
        /\ UNCHANGED <<history, schema, lock>>
    BY StepLemma DEF IInv, ReadHistory
  <1>3. /\ DOMAIN new = DOMAIN Idle /\ new.pc = "choosing" /\ new.known = history
        /\ new.version = run[r].version /\ new.release = run[r].release
    BY <1>1 DEF Shapes, Idle, At
  <1> HIDE DEF new
  <1>4. Shapes'
    BY <1>1, <1>2, <1>3 DEF IInv, Shapes, ScriptShape, Label
  <1>5. HistoryIsTrue' /\ BackupIsTrue'
    BY <1>2 DEF IInv, HistoryIsTrue, BackupIsTrue
  <1>6. Executed'
    BY <1>2, <1>3 DEF IInv, Executed, Stage, Files
  <1>7. Exclusive'
    <2>1. lock = r
      BY DEF IInv, Exclusive, Stage, Holding, ReadHistory, Step
    <2> QED
      BY <1>2, <2>1 DEF IInv, Exclusive, Stage
  <1>8. Known'
    BY <1>2, <1>3 DEF IInv, Known, Stage, Working
  <1> QED
    BY <1>4, <1>5, <1>6, <1>7, <1>8 DEF IInv

(* The runner goes on to a version that is not recorded, or passes by one   *)
(* that is; what it knows of the later ones stays true.                     *)
LEMMA ChooseLemma ==
  ASSUME IInv, NEW r \in Runner, Choose(r), UNCHANGED hostVars
  PROVE  IInv'
  <1> USE DEF hostVars, db
  <1>1. /\ Shapes /\ run[r].version \in Nat /\ run[r].release \in DOMAIN catalog
        /\ run[r].pc = "choosing"
    BY DEF IInv, Shapes, Choose
  <1>2. CASE \E result : Step(r, "choosing", Leaving(r, result))
    <2>1. PICK result : Step(r, "choosing", Leaving(r, result))
      BY <1>2
    <2> DEFINE new == Leaving(r, result)
    <2>2. /\ DOMAIN new = DOMAIN Idle /\ new.pc = "unlocking"
          /\ new.version \in Nat /\ new.release \in DOMAIN catalog
      BY <1>1, FieldsLemma
    <2>3. lock = r /\ UNCHANGED <<history, schema, lock>>
      BY <1>1 DEF IInv, Exclusive, Stage, Holding, Choose
    <2> HIDE DEF new
    <2> QED
      BY <2>1, <2>2, <2>3, QuietLemma DEF new, Label, Working
  <1>3. CASE ~ \E result : Step(r, "choosing", Leaving(r, result))
    <2>1. PICK v \in Later(r) :
            \/ /\ Step(r, "choosing", [At(r, "sql") EXCEPT !.version = v])
               /\ v \notin DOMAIN run[r].known
            \/ Step(r, "choosing", [run[r] EXCEPT !.version = v])
      BY <1>3 DEF Choose
    <2> DEFINE new == run'[r]
    <2>2. v \in Nat /\ v > run[r].version
      BY <1>1, LaterLemma
    <2>3. /\ \/ new = [At(r, "sql") EXCEPT !.version = v] /\ v \notin DOMAIN run[r].known
             \/ new = [run[r] EXCEPT !.version = v]
          /\ DOMAIN run' = Runner /\ kind' = kind /\ catalog' = catalog
          /\ \A q \in Runner \ {r} : run'[q] = run[q]
          /\ UNCHANGED <<history, schema, lock>>
      BY <1>1, <2>1, StepLemma DEF Choose
    <2>4. /\ DOMAIN new = DOMAIN Idle /\ new.version = v
          /\ new.known = run[r].known /\ new.release = run[r].release
          /\ \/ new.pc = "choosing"
             \/ new.pc = "sql" /\ v \notin DOMAIN run[r].known
      BY <1>1, <2>3 DEF Shapes, Idle, At
    <2>5. Shapes'
      BY <1>1, <2>2, <2>3, <2>4 DEF Shapes, ScriptShape, Label
    <2>6. HistoryIsTrue' /\ BackupIsTrue'
      BY <2>3 DEF IInv, HistoryIsTrue, BackupIsTrue
    <2>7. Executed'
      BY <2>3, <2>4 DEF IInv, Executed, Stage, Files
    <2>8. Exclusive'
      BY <1>1, <2>3, <2>4 DEF IInv, Exclusive, Stage, Holding
    <2>9. Known'
      <3>1. \A w \in Nat : w > run[r].version =>
                (w \in DOMAIN run[r].known <=> w \in DOMAIN history)
        BY <1>1 DEF IInv, Known, Stage, Working
      <3>2. \A w \in Nat : w > v => w > run[r].version
        BY <1>1, <2>2
      <3> QED
        BY <2>2, <2>3, <2>4, <3>1, <3>2 DEF IInv, Known, Stage, Working
    <2> QED
      BY <2>5, <2>6, <2>7, <2>8, <2>9 DEF IInv
  <1> QED
    BY <1>2, <1>3

(* What a statement of r may leave in the tables: nothing, its migration      *)
(* (MySQL), the row of one that was executed (MySQL), or both (PostgreSQL).  *)
Effect(r) ==
    \/ UNCHANGED <<history, schema>>
    \/ /\ kind = "mysql" /\ run[r].version \notin DOMAIN history
       /\ schema' = Put(schema, r) /\ UNCHANGED history
    \/ /\ kind = "mysql" /\ Stage(r) = "inserting"
       /\ history' = Put(history, r) /\ UNCHANGED schema
    \/ /\ kind = "postgres" /\ history' = Put(history, r) /\ schema' = Put(schema, r)

(* An effect keeps the history true and records at most the version of r.     *)
LEMMA EffectLemma ==
  ASSUME IInv, NEW r \in Runner, Effect(r), kind' = kind
  PROVE  /\ HistoryIsTrue'
         /\ \A v : v # run[r].version => (v \in DOMAIN history' <=> v \in DOMAIN history)
  <1>1. CASE UNCHANGED <<history, schema>>
    BY <1>1 DEF IInv, HistoryIsTrue
  <1>2. CASE /\ kind = "mysql" /\ run[r].version \notin DOMAIN history
             /\ schema' = Put(schema, r) /\ UNCHANGED history
    BY <1>2 DEF IInv, HistoryIsTrue, Put
  <1>3. CASE /\ kind = "mysql" /\ Stage(r) = "inserting"
             /\ history' = Put(history, r) /\ UNCHANGED schema
    BY <1>3 DEF IInv, HistoryIsTrue, Put, Executed
  <1>4. CASE kind = "postgres" /\ history' = Put(history, r) /\ schema' = Put(schema, r)
    BY <1>4 DEF IInv, HistoryIsTrue, Put
  <1> QED
    BY <1>1, <1>2, <1>3, <1>4 DEF Effect

(* A runner with the lock that executes, records or commits.                *)
LEMMA WorkLemma ==
  ASSUME IInv, NEW r \in Runner, Effect(r), UNCHANGED hostVars,
         NEW label \in Label, NEW new, Step(r, label, new),
         Stage(r) \in Working,
         DOMAIN new = DOMAIN Idle, new.pc \in Label, new.pc \notin {"idle", "gone", "sql"},
         new.version = run[r].version, new.release = run[r].release, new.known = run[r].known,
         new.pc \in Holding => lock' = r,
         new.pc = "inserting" =>
            /\ run[r].version \notin DOMAIN history'
            /\ kind = "mysql" =>
                /\ run[r].version \in DOMAIN schema'
                /\ schema'[run[r].version] = Files(r)[run[r].version],
         new.pc = "committing" => kind = "postgres" /\ run[r].version \notin DOMAIN history'
  PROVE  IInv'
  <1> USE DEF hostVars
  <1>1. /\ run'[r] = new /\ DOMAIN run' = Runner /\ kind' = kind /\ catalog' = catalog
        /\ \A q \in Runner \ {r} : run'[q] = run[q]
        /\ run[r].pc # "idle"
    BY StepLemma DEF IInv, Stage, Working
  <1>2. \A q \in Runner \ {r} : Stage(q) \notin Holding
    BY DEF IInv, Exclusive, Working, Holding
  <1>3. Shapes'
    BY <1>1 DEF IInv, Shapes, ScriptShape
  <1>4. HistoryIsTrue' /\ BackupIsTrue'
    BY <1>1, EffectLemma DEF IInv, BackupIsTrue
  <1>5. Executed'
    BY <1>1, <1>2 DEF IInv, Executed, Stage, Files, Holding
  <1>6. Exclusive'
    BY <1>1, <1>2 DEF Exclusive, Stage
  <1>7. Known'
    <2>1. \A v : v # run[r].version => (v \in DOMAIN history' <=> v \in DOMAIN history)
      BY <1>1, EffectLemma
    <2>2. \A v \in Nat : v > run[r].version =>
            (v \in DOMAIN run[r].known <=> v \in DOMAIN history)
      BY DEF IInv, Known
    <2>3. run[r].version \in Nat
      BY DEF IInv, Shapes
    <2>4. \A v \in Nat : v > run[r].version =>
            (v \in DOMAIN run[r].known <=> v \in DOMAIN history')
      BY <2>1, <2>2, <2>3
    <2> QED
      BY <1>1, <1>2, <2>4 DEF Known, Stage, Working, Holding
  <1> QED
    BY <1>3, <1>4, <1>5, <1>6, <1>7 DEF IInv

(* A statement that failed: the runner leaves, with the lock.               *)
LEMMA LeaveLemma ==
  ASSUME IInv, NEW r \in Runner, NEW label \in Working, NEW result, Effect(r),
         Step(r, label, Leaving(r, result)), UNCHANGED lock, UNCHANGED hostVars
  PROVE  IInv'
  <1> DEFINE new == Leaving(r, result)
  <1>1. /\ run[r].pc = label /\ Stage(r) = label
        /\ Shapes
    BY DEF IInv, Step, Stage, Working
  <1>2. lock = r
    BY <1>1 DEF IInv, Exclusive, Working, Holding
  <1>3. /\ DOMAIN new = DOMAIN Idle /\ new.pc = "unlocking" /\ new.version = run[r].version
        /\ new.release = run[r].release /\ new.known = run[r].known
    BY <1>1, FieldsLemma
  <1> HIDE DEF new
  <1> QED
    BY <1>1, <1>2, <1>3, WorkLemma DEF new, Label, Working

LEMMA RunSqlLemma ==
  ASSUME IInv, NEW r \in Runner, RunSql(r), UNCHANGED hostVars
  PROVE  IInv'
  <1>1. CASE Step(r, "sql", Leaving(r, "MIGRATION_FAILED")) /\ UNCHANGED db
    BY <1>1, LeaveLemma DEF db, Effect, Working
  <1>2. CASE /\ run[r].version \in DOMAIN schema => kind = "mysql"
             /\ Step(r, "sql", At(r, "inserting"))
             /\ schema' = IF CommitsWithStatement(r) THEN Put(schema, r) ELSE schema
             /\ UNCHANGED <<table, history, lock>>
    <2> DEFINE new == At(r, "inserting")
    <2>1. Shapes /\ Stage(r) = "sql" /\ lock = r
      BY <1>2 DEF IInv, Exclusive, Holding, Step, Stage
    <2>2. /\ DOMAIN new = DOMAIN Idle /\ new.pc = "inserting" /\ new.version = run[r].version
          /\ new.release = run[r].release /\ new.known = run[r].known
      BY <2>1, FieldsLemma
    <2>3. run[r].version \notin DOMAIN history
      BY <2>1 DEF IInv, Known, Working
    <2>4. Effect(r) /\ run[r].version \notin DOMAIN history'
      BY <1>2, <2>3 DEF Effect, CommitsWithStatement
    <2>5. kind = "mysql" => /\ run[r].version \in DOMAIN schema'
                            /\ schema'[run[r].version] = Files(r)[run[r].version]
      BY <1>2 DEF CommitsWithStatement, Put
    <2> HIDE DEF new
    <2> QED
      BY <1>2, <2>1, <2>2, <2>5, <2>4, WorkLemma DEF new, Label, Working
  <1> QED
    BY <1>1, <1>2 DEF RunSql

LEMMA InsertRowLemma ==
  ASSUME IInv, NEW r \in Runner, InsertRow(r), UNCHANGED hostVars
  PROVE  IInv'
  <1>1. CASE Step(r, "inserting", Leaving(r, "MIGRATION_FAILED")) /\ UNCHANGED db
    BY <1>1, LeaveLemma DEF db, Effect, Working
  <1>2. CASE /\ Step(r, "inserting", At(r, IF kind = "mysql" THEN "choosing" ELSE "committing"))
             /\ history' = IF kind = "mysql" THEN Put(history, r) ELSE history
             /\ UNCHANGED <<table, schema, lock>>
    <2> DEFINE next == IF kind = "mysql" THEN "choosing" ELSE "committing"
               new == At(r, next)
    <2>1. Shapes /\ Stage(r) = "inserting" /\ lock = r
      BY <1>2 DEF IInv, Exclusive, Holding, Step, Stage
    <2>2. /\ DOMAIN new = DOMAIN Idle /\ new.pc = next /\ new.version = run[r].version
          /\ new.release = run[r].release /\ new.known = run[r].known
      BY <2>1, FieldsLemma
    <2>3. Effect(r)
      BY <1>2, <2>1 DEF Effect
    <2>4. next = "committing" => kind = "postgres" /\ run[r].version \notin DOMAIN history'
      BY <1>2, <2>1 DEF IInv, Shapes, Known, Working
    <2>5. Step(r, "inserting", new) /\ next \in {"choosing", "committing"} /\ UNCHANGED lock
      BY <1>2
    <2> HIDE DEF new, next
    <2> QED
      BY <2>1, <2>2, <2>3, <2>4, <2>5, WorkLemma DEF Label, Working
  <1> QED
    BY <1>1, <1>2 DEF InsertRow

LEMMA CommitLemma ==
  ASSUME IInv, NEW r \in Runner, Commit(r), UNCHANGED hostVars
  PROVE  IInv'
  <1>1. /\ Shapes /\ Stage(r) = "committing" /\ lock = r /\ kind = "postgres" /\ UNCHANGED lock
    BY DEF IInv, Exclusive, Executed, Holding, Commit, Step, Stage
  <1>2. Effect(r)
    BY <1>1 DEF Commit, Effect
  <1>3. CASE Step(r, "committing", Leaving(r, "MIGRATION_FAILED"))
    BY <1>1, <1>2, <1>3, LeaveLemma DEF Working
  <1>4. CASE Step(r, "committing", At(r, "choosing"))
    <2> DEFINE new == At(r, "choosing")
    <2>1. /\ DOMAIN new = DOMAIN Idle /\ new.pc = "choosing" /\ new.version = run[r].version
          /\ new.release = run[r].release /\ new.known = run[r].known
      BY <1>1, FieldsLemma
    <2>2. Step(r, "committing", new)
      BY <1>4
    <2> HIDE DEF new
    <2> QED
      BY <1>1, <1>2, <2>1, <2>2, WorkLemma DEF Label, Working
  <1> QED
    BY <1>3, <1>4 DEF Commit

(* A client dies: its session is where it was.                              *)
LEMMA CrashLemma ==
  ASSUME IInv, NEW r \in Runner, Crash(r), UNCHANGED hostVars
  PROVE  IInv'
  <1> USE DEF hostVars, db
  <1>1. /\ DOMAIN run' = Runner /\ \A q \in Runner \ {r} : run'[q] = run[q]
        /\ DOMAIN run'[r] = DOMAIN Idle /\ run'[r].pc = "gone" /\ run'[r].asked = run[r].pc
        /\ run'[r].release = run[r].release /\ run'[r].version = run[r].version
        /\ run'[r].known = run[r].known
        /\ run[r].pc \notin {"idle", "gone"}
        /\ UNCHANGED <<kind, catalog, history, schema, lock>>
    BY DEF IInv, Shapes, Crash, Idle
  <1>2. \A q \in Runner : Stage(q)' = Stage(q) /\ Files(q)' = Files(q)
    BY <1>1 DEF Stage, Files
  <1>3. Shapes'
    BY <1>1 DEF IInv, Shapes, ScriptShape, Label
  <1>4. HistoryIsTrue' /\ BackupIsTrue'
    BY <1>1 DEF IInv, HistoryIsTrue, BackupIsTrue
  <1>5. Executed' /\ Exclusive' /\ Known'
    BY <1>1, <1>2 DEF IInv, Executed, Exclusive, Known
  <1> QED
    BY <1>3, <1>4, <1>5 DEF IInv

(* The database notices: what was asked last has happened or not, and the     *)
(* lock is free if it was the session's.                                   *)
LEMMA EndSessionLemma ==
  ASSUME IInv, NEW r \in Runner, EndSession(r), UNCHANGED hostVars
  PROVE  IInv'
  <1> DEFINE new == Ended(r, "error")
  <1>1. /\ Shapes /\ run[r].pc = "gone" /\ Stage(r) = run[r].asked
        /\ run[r].version \in Nat /\ run[r].release \in DOMAIN catalog
        /\ Step(r, "gone", new)
        /\ lock' = IF lock = r THEN NoRunner ELSE lock
    BY DEF IInv, Shapes, EndSession, Step, Stage
  <1>2. /\ DOMAIN new = DOMAIN Idle /\ new.pc = "ended" /\ new.version = run[r].version
        /\ new.release = run[r].release /\ new.known = run[r].known
    BY <1>1, FieldsLemma
  <1> HIDE DEF new
  <1>3. CASE UNCHANGED <<history, schema>>
    BY <1>1, <1>2, <1>3, QuietLemma DEF Label, Working, Holding
  <1>4. CASE ~ UNCHANGED <<history, schema>>
    <2>1. run[r].asked \in {"sql", "inserting", "committing"} /\ Effect(r)
      <3>1. Stage(r) \in {"sql", "inserting"} => run[r].version \notin DOMAIN history
        BY DEF IInv, Known, Working
      <3> QED
        BY <1>1, <1>4, <3>1 DEF IInv, Executed, EndSession, Effect
    <2> QED
      BY <1>1, <1>2, <2>1, WorkLemma DEF Label, Working, Holding
  <1> QED
    BY <1>3, <1>4

(* Every step of a runner.                                                 *)
LEMMA MigrateLemma ==
  ASSUME IInv, NEW r \in Runner, Migrate(r), UNCHANGED hostVars
  PROVE  IInv'
  BY CreateTableLemma, TakeLockLemma, ReadHistoryLemma, ChooseLemma, RunSqlLemma,
     InsertRowLemma, CommitLemma, UnlockLemma, CrashLemma, EndSessionLemma DEF Migrate

-----------------------------------------------------------------------------
(* What the scripts do themselves leaves the migrations alone.              *)
LEMMA HostLemma ==
  ASSUME IInv, UNCHANGED migrationVars,
         ScriptShape',
         services' \in DOMAIN catalog \union {0},
         DOMAIN backup' = DOMAIN NoBackup,
         backup' = NoBackup \/ backup'.release \in DOMAIN catalog,
         BackupIsTrue'
  PROVE  IInv'
  <1> USE DEF migrationVars, db
  <1>1. Shapes'
    BY DEF IInv, Shapes, ScriptShape
  <1>2. HistoryIsTrue' /\ Executed' /\ Exclusive' /\ Known'
    BY DEF IInv, HistoryIsTrue, Executed, Exclusive, Known, Stage, Files
  <1> QED
    BY <1>1, <1>2 DEF IInv

(* A script starts with a release of the catalog.                           *)
LEMMA StartLemma ==
  ASSUME IInv, Install \/ Update \/ Rollback
  PROVE  IInv'
  <1>1. /\ UNCHANGED migrationVars /\ UNCHANGED services
        /\ DOMAIN script' = DOMAIN NoScript /\ script'.release \in DOMAIN catalog
    <2>1. CASE Install
      BY <2>1 DEF Install, StartScript, NoScript
    <2>2. CASE Update
      BY <2>2 DEF Update, StartScript, NoScript
    <2>3. CASE Rollback
      BY <2>3 DEF Rollback, StartScript, NoScript, IInv, Shapes
    <2> QED
      BY <2>1, <2>2, <2>3
  <1>2. UNCHANGED catalog /\ UNCHANGED kind
    BY <1>1 DEF migrationVars
  <1>3. ScriptShape'
    BY <1>1, <1>2 DEF ScriptShape
  <1>4. /\ DOMAIN backup' = DOMAIN NoBackup /\ backup'.release = backup.release
        /\ backup'.history = backup.history /\ backup'.schema = backup.schema
        /\ backup' = backup \/ backup # NoBackup
    BY DEF IInv, Shapes, NoBackup, Install, Update, Rollback
  <1>5. BackupIsTrue'
    BY <1>2, <1>4 DEF IInv, BackupIsTrue
  <1>6. /\ services' \in DOMAIN catalog \union {0}
        /\ backup' = NoBackup \/ backup'.release \in DOMAIN catalog
    BY <1>1, <1>4 DEF IInv, Shapes
  <1> QED
    BY <1>1, <1>3, <1>4, <1>5, <1>6, HostLemma

(* The other steps of a script and of the operator but the restore.         *)
LEMMA ScriptLemma ==
  ASSUME IInv, Preflight \/ MigrationDone \/ StartServices \/ VerifyRunning \/ Kill \/ BackUp
  PROVE  IInv'
  <1>1. UNCHANGED migrationVars
    BY DEF Preflight, MigrationDone, StartServices, VerifyRunning, Kill, BackUp
  <1>2. ScriptShape'
    <2>1. UNCHANGED catalog
      BY <1>1 DEF migrationVars
    <2>2. CASE script' = NoScript
      BY <2>2 DEF ScriptShape, NoScript
    <2>3. CASE script' = script
      BY <2>1, <2>3 DEF IInv, Shapes, ScriptShape
    <2>4. CASE script.pc # "off" /\ \E label : Go(label)
      BY <2>1, <2>4 DEF IInv, Shapes, ScriptShape, NoScript, Go
    <2> QED
      BY <2>2, <2>3, <2>4 DEF Preflight, MigrationDone, StartServices, VerifyRunning, Kill,
                              BackUp, Running, Fail
  <1>3. services' \in DOMAIN catalog \union {0}
    BY DEF IInv, Shapes, ScriptShape, Preflight, MigrationDone, StartServices, VerifyRunning,
           Kill, BackUp, Running
  <1>4. /\ DOMAIN backup' = DOMAIN NoBackup
        /\ backup' = NoBackup \/ backup'.release \in DOMAIN catalog
        /\ BackupIsTrue'
    <2>1. CASE BackUp
      BY <1>1, <2>1 DEF BackUp, NoBackup, IInv, Shapes, BackupIsTrue, HistoryIsTrue, migrationVars
    <2>2. CASE UNCHANGED backup
      BY <1>1, <2>2 DEF IInv, Shapes, BackupIsTrue, migrationVars
    <2> QED
      BY <2>1, <2>2 DEF Preflight, MigrationDone, StartServices, VerifyRunning, Kill
  <1> QED
    BY <1>1, <1>2, <1>3, <1>4, HostLemma

LEMMA RunMigrationLemma ==
  ASSUME IInv, RunMigration
  PROVE  IInv'
  <1>1. PICK r \in Runner : /\ BeginMigration(r, script.release)
                            /\ script' = [script EXCEPT !.pc = "migrating", !.runner = r]
    BY DEF RunMigration
  <1>2. script.release \in DOMAIN catalog
    BY DEF IInv, Shapes, ScriptShape, RunMigration, Running
  <1>3. ScriptShape'
    BY <1>1, <1>2 DEF IInv, Shapes, ScriptShape, NoScript, BeginMigration, Step
  <1> QED
    BY <1>1, <1>2, <1>3, BeginLemma DEF RunMigration

(* The backup comes back when no runner is at anything.                     *)
LEMMA RestoreLemma ==
  ASSUME IInv, Restore
  PROVE  IInv'
  <1> USE DEF Restore
  <1>1. /\ UNCHANGED <<kind, catalog, run, script, services>>
        /\ DOMAIN backup' = DOMAIN NoBackup /\ backup'.release = backup.release
        /\ backup'.history = backup.history /\ backup'.schema = backup.schema
        /\ history' = backup.history /\ schema' = backup.schema
        /\ backup.release \in DOMAIN catalog
    BY DEF IInv, Shapes, NoBackup
  <1>2. \A r \in Runner : Stage(r)' \in {"idle", "ended"}
    BY <1>1 DEF Migrating, Stage
  <1>3. Shapes'
    BY <1>1 DEF IInv, Shapes, ScriptShape
  <1>4. HistoryIsTrue' /\ BackupIsTrue'
    BY <1>1 DEF IInv, BackupIsTrue, HistoryIsTrue
  <1>5. Executed' /\ Exclusive' /\ Known'
    BY <1>2 DEF Executed, Exclusive, Known, Holding, Working
  <1> QED
    BY <1>3, <1>4, <1>5 DEF IInv

LEMMA NextLemma == IInv /\ [Next]_vars => IInv'
  <1> SUFFICES ASSUME IInv, [Next]_vars PROVE IInv'
    OBVIOUS
  <1>1. CASE Next
    BY <1>1, StartLemma, ScriptLemma, RunMigrationLemma, RestoreLemma, MigrateLemma, RemoveLemma
       DEF Next
  <1>2. CASE UNCHANGED vars
    <2>1. UNCHANGED migrationVars /\ UNCHANGED hostVars
      BY <1>2 DEF vars
    <2>2. ScriptShape' /\ BackupIsTrue'
      BY <2>1 DEF IInv, Shapes, ScriptShape, BackupIsTrue, hostVars, migrationVars
    <2> QED
      BY <2>1, <2>2, HostLemma DEF IInv, Shapes, hostVars
  <1> QED
    BY <1>1, <1>2

THEOREM Invariance == Spec => []IInv
  BY InitLemma, NextLemma, PTL DEF Spec

(* Every row of the history stands for a migration that was executed from     *)
(* its file; on PostgreSQL the reverse as well.                            *)
THEOREM HistoryStaysTrue == Spec => []HistoryIsTrue
  <1>1. IInv => HistoryIsTrue
    BY DEF IInv
  <1> QED
    BY <1>1, Invariance, PTL

(* No runner begins a migration that is recorded; only on MySQL may it meet   *)
(* one that was executed.                                                  *)
THEOREM NoMigrationTwice == Spec => []NeverTwice
  <1>1. IInv => NeverTwice
    BY DEF IInv, HistoryIsTrue, Known, Working, Stage, NeverTwice, Shapes
  <1> QED
    BY <1>1, Invariance, PTL

-----------------------------------------------------------------------------
(* The second layer: which releases can be at work.  Before the first backup  *)
(* only the first release is; after that none beyond the last one tried,      *)
(* runners that were abandoned included.                                    *)
Versions(release) == DOMAIN catalog[release]

AtWork(r) == run[r].pc \notin {"idle", "ended"}

Limits ==
    IF backup = NoBackup THEN DOMAIN catalog
    ELSE {IF backup.tried = 0 THEN backup.release ELSE backup.tried}

Within ==
    \A x \in Limits :
        /\ DOMAIN history \subseteq Versions(x)
        /\ \A r \in Runner : AtWork(r) => DOMAIN Files(r) \subseteq Versions(x)

(* A runner leaves no file out: those before the version it is at are        *)
(* recorded, and all of them when it is done.                               *)
PassedBy(r) ==
    /\ Stage(r) \in {"creating", "making", "locking", "reading"} => run[r].version = 0
    /\ Stage(r) = "choosing" =>
        \A v \in DOMAIN Files(r) : v <= run[r].version => v \in DOMAIN history
    /\ Stage(r) \in {"sql", "inserting", "committing"} =>
        /\ run[r].version \in DOMAIN Files(r)
        /\ \A v \in DOMAIN Files(r) : v < run[r].version => v \in DOMAIN history
    /\ run[r].pc = "unlocking" /\ run[r].result = "done" =>
        DOMAIN Files(r) \subseteq DOMAIN history

Passed == \A r \in Runner : PassedBy(r)

(* The database is as it was backed up and nobody is at work on it.          *)
Clean == ~Migrating /\ DOMAIN history = Versions(backup.release)

(* An install or an update is the release that bounds all others, and starts  *)
(* services when its runner is done; a rollback does on a clean database.     *)
ScriptFits ==
    /\ script.pc = "off" => script = NoScript
    /\ script # NoScript /\ script.name # "rollback" =>
        /\ script.release \in Limits
        /\ \A x \in Limits : Versions(script.release) \subseteq Versions(x)
        /\ script.pc = "starting" => Versions(script.release) \subseteq DOMAIN history
    /\ script # NoScript /\ script.name = "rollback" =>
        /\ backup # NoBackup /\ script.release = backup.release
        /\ script.pc \notin {"marking", "migrating"}
        /\ script.confirmed => restored
        /\ script.pc \in {"starting", "verifying"} => Clean
    /\ script.pc = "migrating" =>
        /\ script.runner \in Runner
        /\ run[script.runner].pc # "idle" /\ run[script.runner].release = script.release
        /\ run[script.runner].pc = "ended" /\ run[script.runner].result = "done" =>
            Versions(script.release) \subseteq DOMAIN history

(* Without the mark, or after a restore, the database is clean.              *)
HostFits ==
    /\ backup # NoBackup =>
        /\ DOMAIN backup.history = Versions(backup.release)
        /\ backup.tried \in DOMAIN catalog \union {0}
    /\ restored => backup # NoBackup /\ Clean
    /\ ~started /\ backup # NoBackup => Clean

JInv == Within /\ Passed /\ ScriptFits /\ HostFits

(* A later release keeps the migrations of the earlier ones.                *)
LEMMA ReleasesGrow ==
  ASSUME Shapes
  PROVE  /\ \A x \in DOMAIN catalog : x \in Nat \ {0} /\ Versions(x) \subseteq Nat \ {0}
         /\ \A x, y \in DOMAIN catalog : x <= y => Versions(x) \subseteq Versions(y)
  BY CatalogAssumption DEF Shapes, Versions

(* The backup has a release of the catalog, and 0 is none.                  *)
LEMMA BackupRelease ==
  ASSUME Shapes
  PROVE  backup # NoBackup => backup.release \in DOMAIN catalog /\ backup.release # 0
  BY ReleasesGrow DEF Shapes

LEMMA InitFits == Init => JInv
  <1> SUFFICES ASSUME Init PROVE JInv
    OBVIOUS
  <1> USE DEF Init, MigrationInit, Idle, NoScript, NoBackup
  <1>1. Within /\ Passed
    BY DEF Within, AtWork, Passed, PassedBy, Stage
  <1>2. ScriptFits /\ HostFits
    BY DEF ScriptFits, HostFits
  <1> QED
    BY <1>1, <1>2 DEF JInv

(* What a runner's record says of its result when it goes on.               *)
LEMMA ResultLemma ==
  ASSUME Shapes, NEW r \in Runner, NEW label, NEW result
  PROVE  /\ At(r, label).result = run[r].result
         /\ Ended(r, result).result = result /\ Leaving(r, result).result = result
  BY DEF Shapes, Idle, At, Ended, Leaving

(* A step of a runner: it was at work, keeps its release, adds at most the   *)
(* file it is at to the history, and leaves none out.                       *)
Moved(r) ==
    /\ AtWork(r) /\ UNCHANGED catalog
    /\ \A q \in Runner \ {r} : run'[q] = run[q]
    /\ run'[r].release = run[r].release /\ run'[r].pc # "idle"
    /\ DOMAIN history \subseteq DOMAIN history'
    /\ DOMAIN history' \subseteq DOMAIN history \union DOMAIN Files(r)
    /\ PassedBy(r)'
    /\ run'[r].pc = "ended" /\ run'[r].result = "done" => DOMAIN Files(r) \subseteq DOMAIN history'

(* A runner whose step is one of those that leave the history alone.        *)
LEMMA QuietMoves ==
  ASSUME IInv, Passed, NEW r \in Runner, NEW label, NEW new, Step(r, label, new),
         label \notin {"idle", "ended"},
         UNCHANGED history, new.release = run[r].release, new.pc \in Label \ {"idle", "gone"},
         new.pc \in {"creating", "making", "locking", "reading"} => new.version = 0,
         new.pc = "choosing" =>
            \A v \in DOMAIN Files(r) : v <= new.version => v \in DOMAIN history,
         new.pc \in {"sql", "inserting", "committing"} =>
            /\ new.version \in DOMAIN Files(r)
            /\ \A v \in DOMAIN Files(r) : v < new.version => v \in DOMAIN history,
         new.pc \in {"unlocking", "ended"} /\ new.result = "done" =>
            DOMAIN Files(r) \subseteq DOMAIN history
  PROVE  Moved(r)
  <1>1. /\ run[r].pc = label /\ run'[r] = new /\ UNCHANGED catalog
        /\ \A q \in Runner \ {r} : run'[q] = run[q]
    BY StepLemma DEF IInv
  <1>2. Files(r)' = Files(r)
    BY <1>1 DEF Files
  <1>3. PassedBy(r)'
    BY <1>1, <1>2 DEF PassedBy, Stage
  <1> QED
    BY <1>1, <1>3 DEF Moved, AtWork

LEMMA BeforeReadingMoves ==
  ASSUME IInv, Passed, NEW r \in Runner,
         CreateTable(r) \/ MakeTable(r) \/ TakeLock(r)
  PROVE  Moved(r)
  <1>1. PICK new \in {At(r, "locking"), At(r, "making"), At(r, "reading"),
                      Ended(r, "error"), Ended(r, "LOCK_TIMEOUT")},
             label \in {"creating", "making", "locking"} : Step(r, label, new)
    BY DEF CreateTable, MakeTable, TakeLock
  <1>2. Shapes /\ Stage(r) = label
    BY <1>1, StepLemma DEF IInv, Stage
  <1>3. UNCHANGED history
    BY DEF CreateTable, MakeTable, TakeLock, db
  <1>4. /\ new.release = run[r].release /\ new.version = run[r].version
        /\ new.pc \in {"making", "locking", "reading", "ended"}
        /\ new.pc = "ended" => new.result \in {"error", "LOCK_TIMEOUT"}
    BY <1>2, FieldsLemma, ResultLemma
  <1>5. run[r].version = 0
    BY <1>2 DEF Passed, PassedBy
  <1> QED
    BY <1>1, <1>3, <1>4, <1>5, QuietMoves DEF Label

LEMMA ReadingMoves ==
  ASSUME IInv, Passed, NEW r \in Runner, ReadHistory(r)
  PROVE  Moved(r)
  <1> DEFINE new == [At(r, "choosing") EXCEPT !.known = history]
  <1>1. Step(r, "reading", new) /\ UNCHANGED history
    BY DEF ReadHistory, db
  <1>2. Shapes /\ Stage(r) = "reading" /\ run[r].release \in DOMAIN catalog
    BY <1>1 DEF IInv, Shapes, Stage, Step
  <1>3. new.pc = "choosing" /\ new.version = run[r].version /\ new.release = run[r].release
    BY <1>2 DEF Shapes, Idle, At
  <1>4. run[r].version = 0
    BY <1>2 DEF Passed, PassedBy
  <1>5. \A v \in DOMAIN Files(r) : v \in Nat \ {0}
    BY <1>2, ReleasesGrow DEF Versions, Files
  <1> HIDE DEF new
  <1> QED
    BY <1>1, <1>3, <1>4, <1>5, QuietMoves DEF Label

LEMMA ChoosingMoves ==
  ASSUME IInv, Passed, NEW r \in Runner, Choose(r)
  PROVE  Moved(r)
  <1>1. /\ Shapes /\ run[r].pc = "choosing" /\ Stage(r) = "choosing" /\ UNCHANGED history
        /\ run[r].version \in Nat /\ run[r].release \in DOMAIN catalog
    BY DEF IInv, Shapes, Choose, Stage, db
  <1>2. \A v \in DOMAIN Files(r) : v <= run[r].version => v \in DOMAIN history
    BY <1>1 DEF Passed, PassedBy
  <1>3. \A v \in DOMAIN Files(r) : v \in Nat \ {0}
    BY <1>1, ReleasesGrow DEF Versions, Files
  <1>4. CASE Later(r) = {} /\ Step(r, "choosing", Leaving(r, "done"))
    <2> DEFINE new == Leaving(r, "done")
    <2>1. DOMAIN Files(r) \subseteq DOMAIN history
      BY <1>1, <1>2, <1>3, <1>4 DEF Later
    <2>2. new.pc = "unlocking" /\ new.release = run[r].release
      BY <1>1, FieldsLemma
    <2>3. Step(r, "choosing", new)
      BY <1>4
    <2> HIDE DEF new
    <2> QED
      BY <1>1, <2>1, <2>2, <2>3, QuietMoves DEF Label
  <1>5. CASE Step(r, "choosing", Leaving(r, "CHECKSUM_MISMATCH"))
    <2> DEFINE new == Leaving(r, "CHECKSUM_MISMATCH")
    <2>1. new.pc = "unlocking" /\ new.release = run[r].release /\ new.result = "CHECKSUM_MISMATCH"
      BY <1>1, FieldsLemma, ResultLemma
    <2>2. Step(r, "choosing", new)
      BY <1>5
    <2> HIDE DEF new
    <2> QED
      BY <1>1, <2>1, <2>2, QuietMoves DEF Label
  <1>6. ASSUME NEW v \in Later(r), \A other \in Later(r) : v <= other,
               NEW new, Step(r, "choosing", new),
               \/ new = [At(r, "sql") EXCEPT !.version = v]
               \/ new = [run[r] EXCEPT !.version = v] /\ v \in DOMAIN run[r].known
        PROVE  Moved(r)
    <2>1. v \in DOMAIN Files(r) /\ v > run[r].version /\ v \in Nat
      BY <1>3, <1>6 DEF Later
    <2>2. \A w \in DOMAIN Files(r) : w < v => w \in DOMAIN history
      <3> SUFFICES ASSUME NEW w \in DOMAIN Files(r), w < v PROVE w \in DOMAIN history
        OBVIOUS
      <3>1. w \notin Later(r) /\ w \in Nat
        BY <1>3, <1>6, <2>1
      <3>2. w <= run[r].version
        BY <1>1, <3>1 DEF Later
      <3> QED
        BY <1>2, <3>2
    <2>3. CASE new = [At(r, "sql") EXCEPT !.version = v]
      <3>1. new.pc = "sql" /\ new.version = v /\ new.release = run[r].release
        BY <1>1, <2>3 DEF Shapes, Idle, At
      <3> QED
        BY <1>1, <1>6, <2>1, <2>2, <3>1, QuietMoves DEF Label
    <2>4. CASE new = [run[r] EXCEPT !.version = v] /\ v \in DOMAIN run[r].known
      <3>1. new.pc = "choosing" /\ new.version = v /\ new.release = run[r].release
        BY <1>1, <2>4 DEF Shapes, Idle
      <3>2. v \in DOMAIN history
        BY <1>1, <2>1, <2>4 DEF IInv, Known, Working
      <3>3. \A w \in DOMAIN Files(r) : w <= v => w \in DOMAIN history
        BY <1>3, <2>1, <2>2, <3>2
      <3> QED
        BY <1>1, <1>6, <3>1, <3>3, QuietMoves DEF Label
    <2> QED
      BY <1>6, <2>3, <2>4
  <1>7. \/ Later(r) = {} /\ Step(r, "choosing", Leaving(r, "done"))
        \/ Step(r, "choosing", Leaving(r, "CHECKSUM_MISMATCH"))
        \/ \E v \in Later(r) :
            /\ \A other \in Later(r) : v <= other
            /\ \/ Step(r, "choosing", [At(r, "sql") EXCEPT !.version = v])
               \/ /\ Step(r, "choosing", [run[r] EXCEPT !.version = v])
                  /\ v \in DOMAIN run[r].known
    BY DEF Choose
  <1> QED
    BY <1>4, <1>5, <1>6, <1>7

(* A statement of a runner, or what is left of it: the history may get the   *)
(* version it is at.                                                        *)
LEMMA WorkMoves ==
  ASSUME IInv, Passed, NEW r \in Runner, NEW label, NEW new, Step(r, label, new),
         label \notin {"idle", "ended"},
         Stage(r) \in {"sql", "inserting", "committing"},
         history' = history \/ history' = Put(history, r),
         new.release = run[r].release, new.version = run[r].version,
         new.pc \in {"inserting", "committing", "choosing", "unlocking", "ended"},
         new.pc = "choosing" => history' = Put(history, r),
         new.pc \in {"unlocking", "ended"} => new.result # "done"
  PROVE  Moved(r)
  <1>1. /\ run[r].pc = label /\ run'[r] = new /\ UNCHANGED catalog
        /\ \A q \in Runner \ {r} : run'[q] = run[q]
    BY StepLemma DEF IInv
  <1>2. Files(r)' = Files(r) /\ run[r].version \in DOMAIN Files(r)
    BY <1>1 DEF Files, Passed, PassedBy
  <1>3. /\ run[r].version \in Nat
        /\ \A v \in DOMAIN Files(r) : v \in Nat
    <2>1. run[r].version \in Nat /\ run[r].release \in DOMAIN catalog
      BY <1>1 DEF IInv, Shapes, Stage
    <2> QED
      BY <2>1, ReleasesGrow DEF IInv, Versions, Files
  <1>4. /\ DOMAIN history \subseteq DOMAIN history'
        /\ DOMAIN history' \subseteq DOMAIN history \union {run[r].version}
        /\ history' = Put(history, r) => run[r].version \in DOMAIN history'
    BY DEF Put
  <1>5. \A v \in DOMAIN Files(r) : v < run[r].version => v \in DOMAIN history
    BY DEF Passed, PassedBy
  <1>6. new.pc = "choosing" =>
            \A v \in DOMAIN Files(r) : v <= run[r].version => v \in DOMAIN history'
    BY <1>3, <1>4, <1>5
  <1>7. PassedBy(r)'
    BY <1>1, <1>2, <1>4, <1>5, <1>6 DEF PassedBy, Stage
  <1> QED
    BY <1>1, <1>2, <1>4, <1>7 DEF Moved, AtWork

LEMMA StatementMoves ==
  ASSUME IInv, Passed, NEW r \in Runner, RunSql(r) \/ InsertRow(r) \/ Commit(r)
  PROVE  Moved(r)
  <1>1. PICK label \in {"sql", "inserting", "committing"},
             new \in {At(r, "inserting"), At(r, "committing"), At(r, "choosing"),
                      Leaving(r, "MIGRATION_FAILED")} :
          /\ Step(r, label, new)
          /\ history' = history \/ history' = Put(history, r)
          /\ new = At(r, "choosing") => history' = Put(history, r)
    <2>1. CASE RunSql(r)
      <3>1. At(r, "inserting") # At(r, "choosing") /\ Leaving(r, "MIGRATION_FAILED") # At(r, "choosing")
        BY FieldsLemma DEF IInv
      <3> QED
        BY <2>1, <3>1 DEF RunSql, db
    <2>2. CASE InsertRow(r)
      <3>1. At(r, "committing") # At(r, "choosing") /\ Leaving(r, "MIGRATION_FAILED") # At(r, "choosing")
        BY FieldsLemma DEF IInv
      <3> QED
        BY <2>2, <3>1 DEF InsertRow, db
    <2>3. CASE Commit(r)
      <3>1. Leaving(r, "MIGRATION_FAILED") # At(r, "choosing")
        BY FieldsLemma DEF IInv
      <3> QED
        BY <2>3, <3>1 DEF Commit
    <2> QED
      BY <2>1, <2>2, <2>3
  <1>2. Shapes /\ Stage(r) = label
    BY <1>1, StepLemma DEF IInv, Stage
  <1>3. /\ new.release = run[r].release /\ new.version = run[r].version
        /\ new.pc \in {"inserting", "committing", "choosing", "unlocking"}
        /\ new.pc = "choosing" => new = At(r, "choosing")
        /\ new.pc = "unlocking" => new.result = "MIGRATION_FAILED"
    BY <1>2, FieldsLemma, ResultLemma
  <1> QED
    BY <1>1, <1>2, <1>3, WorkMoves

LEMMA LeavingMoves ==
  ASSUME IInv, Passed, NEW r \in Runner, Unlock(r) \/ Crash(r) \/ EndSession(r)
  PROVE  Moved(r)
  <1>1. CASE Unlock(r)
    <2> DEFINE new == At(r, "ended")
    <2>1. Step(r, "unlocking", new) /\ UNCHANGED history
      BY <1>1 DEF Unlock
    <2>2. Shapes /\ run[r].pc = "unlocking"
      BY <2>1 DEF IInv, Step
    <2>3. new.pc = "ended" /\ new.release = run[r].release /\ new.result = run[r].result
      BY <2>2, FieldsLemma, ResultLemma
    <2>4. new.result = "done" => DOMAIN Files(r) \subseteq DOMAIN history
      BY <2>2, <2>3 DEF Passed, PassedBy
    <2> HIDE DEF new
    <2> QED
      BY <2>1, <2>3, <2>4, QuietMoves DEF Label
  <1>2. CASE Crash(r)
    <2>1. /\ \A q \in Runner \ {r} : run'[q] = run[q]
          /\ run'[r].pc = "gone" /\ run'[r].asked = run[r].pc
          /\ run'[r].release = run[r].release /\ run'[r].version = run[r].version
          /\ run[r].pc \notin {"idle", "ended", "gone"}
          /\ UNCHANGED <<catalog, history>>
      BY <1>2 DEF IInv, Shapes, Crash, Idle, db
    <2>2. Stage(r)' = Stage(r) /\ Files(r)' = Files(r)
      BY <2>1 DEF Stage, Files
    <2>3. PassedBy(r)'
      BY <2>1, <2>2 DEF Passed, PassedBy
    <2> QED
      BY <2>1, <2>3 DEF Moved, AtWork
  <1>3. CASE EndSession(r)
    <2> DEFINE new == Ended(r, "error")
    <2>1. Step(r, "gone", new)
      BY <1>3 DEF EndSession
    <2>2. Shapes /\ Stage(r) = run[r].asked
      BY <2>1 DEF IInv, Stage, Step
    <2>3. /\ new.pc = "ended" /\ new.release = run[r].release /\ new.version = run[r].version
          /\ new.result = "error"
      BY <2>2, FieldsLemma, ResultLemma
    <2> HIDE DEF new
    <2>4. CASE UNCHANGED history
      BY <2>1, <2>3, <2>4, QuietMoves DEF Label
    <2>5. CASE ~ UNCHANGED history
      <3>1. Stage(r) \in {"inserting", "committing"} /\ history' = Put(history, r)
        BY <1>3, <2>2, <2>5 DEF EndSession
      <3> QED
        BY <2>1, <2>3, <3>1, WorkMoves
    <2> QED
      BY <2>4, <2>5
  <1> QED
    BY <1>1, <1>2, <1>3

LEMMA RunnerMoves ==
  ASSUME IInv, Passed, NEW r \in Runner, Migrate(r)
  PROVE  Moved(r)
  BY BeforeReadingMoves, ReadingMoves, ChoosingMoves, StatementMoves, LeavingMoves DEF Migrate

(* A runner's step fits: somebody is at work, so that the database was not    *)
(* clean before it.                                                         *)
LEMMA MigrateFits ==
  ASSUME IInv, JInv, NEW r \in Runner, Migrate(r), UNCHANGED hostVars
  PROVE  JInv'
  <1> USE DEF hostVars
  <1>1. Moved(r)
    BY RunnerMoves DEF JInv
  <1>2. /\ catalog' = catalog /\ DOMAIN history \subseteq DOMAIN history'
        /\ \A q \in Runner : Files(q)' = Files(q)
        /\ \A q \in Runner \ {r} : run'[q] = run[q]
        /\ Limits' = Limits /\ \A x : Versions(x)' = Versions(x)
    BY <1>1 DEF Moved, Files, Limits, Versions, NoBackup
  <1>3. ~Clean /\ Migrating
    BY <1>1 DEF Moved, AtWork, Migrating, Clean
  <1>4. Passed'
    <2> SUFFICES ASSUME NEW q \in Runner PROVE PassedBy(q)'
      BY DEF Passed
    <2>1. CASE q = r
      BY <1>1, <2>1 DEF Moved
    <2>2. CASE q # r
      <3>1. Stage(q)' = Stage(q) /\ PassedBy(q)
        BY <1>2, <2>2 DEF Stage, JInv, Passed
      <3> QED
        BY <1>2, <2>2, <3>1 DEF PassedBy
    <2> QED
      BY <2>1, <2>2
  <1>5. Within'
    BY <1>1, <1>2 DEF JInv, Within, Moved, AtWork
  <1>6. ScriptFits'
    <2>1. script.pc = "migrating" =>
            /\ script.runner \in Runner
            /\ run'[script.runner].pc # "idle" /\ run'[script.runner].release = script.release
            /\ run'[script.runner].pc = "ended" /\ run'[script.runner].result = "done" =>
                Versions(script.release) \subseteq DOMAIN history'
      BY <1>1, <1>2 DEF JInv, ScriptFits, Moved, Files, Versions
    <2> QED
      BY <1>2, <1>3, <2>1 DEF JInv, ScriptFits, NoScript, NoBackup
  <1>7. HostFits'
    BY <1>2, <1>3 DEF JInv, HostFits, NoBackup
  <1> QED
    BY <1>4, <1>5, <1>6, <1>7 DEF JInv

(* A step that leaves the database and the runners alone.                   *)
LEMMA HostKeeps ==
  ASSUME Passed, UNCHANGED migrationVars
  PROVE  /\ Passed' /\ (Migrating' <=> Migrating) /\ history' = history
         /\ \A x : Versions(x)' = Versions(x)
         /\ \A r \in Runner : run'[r] = run[r] /\ Files(r)' = Files(r) /\ (AtWork(r)' <=> AtWork(r))
         /\ catalog' = catalog
  <1> USE DEF migrationVars, db
  <1>1. \A r \in Runner : Files(r)' = Files(r) /\ Stage(r)' = Stage(r)
    BY DEF Files, Stage
  <1>2. Passed'
    BY <1>1 DEF Passed, PassedBy
  <1> QED
    BY <1>1, <1>2 DEF Migrating, Versions, AtWork

LEMMA StartFits ==
  ASSUME IInv, JInv, Install \/ Update \/ Rollback
  PROVE  JInv'
  <1>1. /\ UNCHANGED migrationVars /\ UNCHANGED <<started, services, restored>>
        /\ script = NoScript /\ script'.pc = "preflight" /\ script'.runner = NoRunner
    BY DEF Install, Update, Rollback, StartScript
  <1>2. /\ Passed' /\ (Migrating' <=> Migrating) /\ history' = history
        /\ \A x : Versions(x)' = Versions(x)
        /\ \A r \in Runner : run'[r] = run[r] /\ Files(r)' = Files(r) /\ (AtWork(r)' <=> AtWork(r))
        /\ catalog' = catalog
    BY <1>1, HostKeeps DEF JInv
  <1>3. script' # NoScript
    BY <1>1 DEF NoScript
  <1>4. CASE Install
    <2>1. PICK release \in DOMAIN catalog :
            /\ \A other \in DOMAIN catalog : release <= other
            /\ script'.release = release /\ script'.name = "install"
      BY <1>4 DEF Install, StartScript
    <2>2. UNCHANGED backup /\ Limits' = Limits /\ Limits = DOMAIN catalog
      BY <1>2, <1>4 DEF Install, Limits, NoBackup
    <2>3. \A x \in DOMAIN catalog : Versions(release) \subseteq Versions(x)
      BY <2>1, ReleasesGrow DEF IInv
    <2>4. ScriptFits'
      BY <1>1, <1>2, <1>3, <2>1, <2>2, <2>3 DEF ScriptFits
    <2>5. Within' /\ HostFits'
      BY <1>1, <1>2, <2>2 DEF JInv, Within, HostFits, Clean, NoBackup
    <2> QED
      BY <1>2, <2>4, <2>5 DEF JInv
  <1>5. CASE Update
    <2>1. PICK release \in DOMAIN catalog :
            /\ backup # NoBackup /\ release > backup.release /\ release >= backup.tried
            /\ script'.release = release /\ script'.name = "update"
            /\ backup' = [backup EXCEPT !.tried = release]
      BY <1>5 DEF Update, StartScript
    <2>2. /\ backup'.release = backup.release /\ backup'.history = backup.history
          /\ backup'.tried = release /\ release \in Nat \ {0}
          /\ backup.release \in DOMAIN catalog /\ backup.release # 0
      BY <2>1, ReleasesGrow, BackupRelease DEF IInv, Shapes, NoBackup
    <2>3. backup' # NoBackup /\ Limits' = {release}
      BY <2>2 DEF Limits, NoBackup
    <2>4. \A x \in Limits : Versions(x) \subseteq Versions(release)
      <3>1. backup.tried \in DOMAIN catalog \union {0}
        BY <2>1 DEF JInv, HostFits
      <3>2. \A x \in Limits : x \in DOMAIN catalog /\ x <= release
        BY <2>1, <2>2, <3>1, ReleasesGrow DEF Limits, IInv
      <3> QED
        BY <3>2, ReleasesGrow DEF IInv
    <2>5. Limits # {}
      BY <2>1 DEF Limits
    <2>6. ScriptFits'
      BY <1>1, <1>2, <1>3, <2>1, <2>3 DEF ScriptFits
    <2>7. Within'
      BY <1>2, <2>3, <2>4, <2>5 DEF JInv, Within
    <2>8. Clean' <=> Clean
      BY <1>2, <2>2 DEF Clean, Versions
    <2>9. DOMAIN backup'.history = DOMAIN catalog'[backup'.release]
      BY <1>2, <2>1, <2>2 DEF JInv, HostFits, Versions
    <2>10. backup'.tried \in DOMAIN catalog' \union {0}
      BY <1>2, <2>1, <2>2
    <2>11. (restored' <=> restored) /\ (started' <=> started)
      BY <1>1
    <2>12. HostFits'
      BY <2>1, <2>3, <2>8, <2>9, <2>10, <2>11 DEF JInv, HostFits, Versions
    <2> QED
      BY <1>2, <2>6, <2>7, <2>12 DEF JInv
  <1>6. CASE Rollback
    <2>1. /\ backup # NoBackup /\ UNCHANGED backup
          /\ script'.name = "rollback" /\ script'.release = backup.release
          /\ script'.confirmed => restored
      <3>1. PICK confirmed \in {FALSE, restored} :
              StartScript("rollback", backup.release, confirmed)
        BY <1>6 DEF Rollback
      <3>2. script'.confirmed = confirmed
        BY <3>1 DEF StartScript
      <3>3. script'.confirmed => restored
        BY <3>1, <3>2, Zenon
      <3> QED
        BY <1>6, <3>1, <3>3 DEF Rollback, StartScript
    <2>2. Limits' = Limits
      BY <1>2, <2>1 DEF Limits, NoBackup
    <2>3. ScriptFits'
      BY <1>1, <1>2, <1>3, <2>1 DEF ScriptFits, NoBackup
    <2>4. Within' /\ HostFits'
      BY <1>1, <1>2, <2>1, <2>2 DEF JInv, Within, HostFits, Clean, NoBackup
    <2> QED
      BY <1>2, <2>3, <2>4 DEF JInv
  <1> QED
    BY <1>4, <1>5, <1>6

(* The steps of a script after its start.                                   *)
LEMMA ScriptGoesOn ==
  ASSUME IInv, JInv, Preflight \/ MigrationDone \/ StartServices \/ VerifyRunning \/ Kill
  PROVE  JInv'
  <1>1. UNCHANGED migrationVars /\ UNCHANGED <<backup, restored>>
    BY DEF Preflight, MigrationDone, StartServices, VerifyRunning, Kill
  <1>2. /\ Passed' /\ (Migrating' <=> Migrating) /\ history' = history
        /\ \A x : Versions(x)' = Versions(x)
        /\ \A r \in Runner : run'[r] = run[r] /\ Files(r)' = Files(r) /\ (AtWork(r)' <=> AtWork(r))
        /\ catalog' = catalog
    BY <1>1, HostKeeps DEF JInv
  <1>3. Limits' = Limits /\ (Clean' <=> Clean)
    BY <1>1, <1>2 DEF Limits, Clean, NoBackup
  <1>4. Within'
    BY <1>2, <1>3 DEF JInv, Within
  <1>5. HostFits'
    <2>1. started' => started' = started \/ started' = TRUE
      OBVIOUS
    <2>2. ~started' => ~started \/ (VerifyRunning /\ script.name = "rollback")
      BY DEF Preflight, MigrationDone, MarkStarted, StartServices, VerifyRunning, Kill
    <2>3. VerifyRunning /\ script.name = "rollback" => Clean
      BY DEF VerifyRunning, Running, NoScript, JInv, ScriptFits
    <2> QED
      BY <1>1, <1>2, <1>3, <2>2, <2>3 DEF JInv, HostFits, NoBackup
  <1>6. ScriptFits'
    <2>1. CASE script' = NoScript
      BY <2>1 DEF ScriptFits, NoScript
    <2>2. ASSUME NEW label \in {"starting", "marking", "verifying"}, Go(label),
                 script # NoScript,
                 label = "starting" /\ script.name # "rollback" =>
                    Versions(script.release) \subseteq DOMAIN history,
                 script.name = "rollback" => label # "marking" /\ Clean
          PROVE  ScriptFits'
      <3>1. /\ script'.pc = label /\ script'.name = script.name /\ script'.release = script.release
            /\ script'.confirmed = script.confirmed /\ script' # NoScript
        BY <2>2 DEF Go, IInv, Shapes, ScriptShape, NoScript
      <3> QED
        BY <1>1, <1>2, <1>3, <2>2, <3>1 DEF JInv, ScriptFits, NoBackup
    <2>3. CASE Preflight
      <3>1. script.pc = "preflight" /\ script # NoScript
        BY <2>3 DEF Preflight, Running, NoScript
      <3>2. CASE script.name = "rollback" /\ ~Refuses /\ Go("starting")
        <4>1. Clean
          BY <3>1, <3>2 DEF Refuses, JInv, ScriptFits, HostFits
        <4> QED
          BY <2>2, <3>1, <3>2, <4>1
      <3>3. CASE script.name # "rollback" /\ Go("marking")
        BY <2>2, <3>1, <3>3
      <3> QED
        BY <2>1, <2>3, <3>2, <3>3 DEF Preflight, Fail
    <2>4. CASE MigrationDone
      <3>1. script.pc = "migrating" /\ script # NoScript
        BY <2>4 DEF MigrationDone, Running, NoScript
      <3>2. script.name # "rollback"
        BY <3>1 DEF JInv, ScriptFits
      <3>3. CASE run[script.runner].result = "done" /\ Go("starting")
        <4>1. Versions(script.release) \subseteq DOMAIN history
          BY <2>4, <3>1, <3>3 DEF MigrationDone, JInv, ScriptFits
        <4> QED
          BY <2>2, <3>1, <3>2, <3>3, <4>1
      <3> QED
        BY <2>1, <2>4, <3>3 DEF MigrationDone, Fail
    <2>5. CASE StartServices
      <3>1. script.pc = "starting" /\ script # NoScript
        BY <2>5 DEF StartServices, Running, NoScript
      <3>2. script.name = "rollback" => Clean
        BY <3>1 DEF JInv, ScriptFits
      <3> QED
        BY <2>1, <2>2, <2>5, <3>1, <3>2 DEF StartServices, Fail
    <2> QED
      BY <2>1, <2>3, <2>4, <2>5 DEF VerifyRunning, Kill, Fail
  <1> QED
    BY <1>2, <1>4, <1>5, <1>6 DEF JInv

LEMMA RunMigrationFits ==
  ASSUME IInv, JInv, RunMigration
  PROVE  JInv'
  <1>1. PICK r \in Runner :
          /\ BeginMigration(r, script.release)
          /\ script' = [script EXCEPT !.pc = "migrating", !.runner = r]
    BY DEF RunMigration
  <1>2. /\ script.pc = "marking" /\ script # NoScript /\ script.name # "rollback"
        /\ started' /\ ~restored' /\ UNCHANGED backup
    <2>1. script.pc = "marking" /\ script # NoScript
      BY DEF RunMigration, Running, NoScript
    <2>2. script.name # "rollback"
      BY <2>1 DEF JInv, ScriptFits
    <2>3. started'
      BY Zenon DEF RunMigration, MarkStarted
    <2> QED
      BY <2>1, <2>2, <2>3 DEF RunMigration
  <1>3. /\ run[r].pc = "idle" /\ run'[r] = [Idle EXCEPT !.pc = "creating", !.release = script.release]
        /\ \A q \in Runner \ {r} : run'[q] = run[q]
        /\ catalog' = catalog /\ history' = history
    BY <1>1, StepLemma DEF IInv, BeginMigration, db
  <1>4. run'[r].pc = "creating" /\ run'[r].release = script.release /\ run'[r].version = 0
    BY <1>3 DEF Idle
  <1>5. /\ Limits' = Limits /\ \A x : Versions(x)' = Versions(x)
        /\ \A q \in Runner \ {r} : Files(q)' = Files(q) /\ Stage(q)' = Stage(q)
        /\ Files(r)' = catalog[script.release] /\ Stage(r)' = "creating"
    BY <1>2, <1>3, <1>4 DEF Limits, Versions, Files, Stage, NoBackup
  <1>6. Passed'
    BY <1>3, <1>4, <1>5 DEF JInv, Passed, PassedBy
  <1>7. Within'
    BY <1>2, <1>3, <1>5 DEF JInv, Within, ScriptFits, Versions, AtWork
  <1>8. ScriptFits'
    <2>1. /\ script'.pc = "migrating" /\ script'.runner = r /\ script'.name = script.name
          /\ script'.release = script.release
      BY <1>1 DEF IInv, Shapes, ScriptShape, NoScript
    <2> QED
      BY <1>2, <1>3, <1>4, <1>5, <2>1 DEF JInv, ScriptFits
  <1>9. HostFits'
    BY <1>2, <1>3, <1>5 DEF JInv, HostFits, NoBackup
  <1> QED
    BY <1>6, <1>7, <1>8, <1>9 DEF JInv

(* A backup is taken of a database that fits the services, and nobody is at   *)
(* work on it; after a restore it is that again.                            *)
LEMMA BackupFits ==
  ASSUME IInv, JInv, BackUp \/ Restore
  PROVE  JInv'
  <1>1. /\ script = NoScript /\ script' = script /\ ~Migrating
        /\ UNCHANGED <<catalog, run, started>>
        /\ \A x : Versions(x)' = Versions(x)
    BY DEF BackUp, Restore, migrationVars, Versions
  <1>2. /\ DOMAIN history' = Versions(backup'.release)
        /\ DOMAIN backup'.history = Versions(backup'.release)
        /\ backup'.tried = 0 /\ backup'.release \in DOMAIN catalog /\ backup'.release # 0
    <2>1. CASE BackUp
      BY <2>1 DEF BackUp, migrationVars, db, Versions, IInv, Shapes
    <2>2. CASE Restore
      <3>1. /\ backup'.release = backup.release /\ backup'.history = backup.history
            /\ backup'.tried = 0 /\ history' = backup.history
        BY <2>2 DEF Restore, IInv, Shapes, NoBackup
      <3>2. /\ backup.release \in DOMAIN catalog /\ backup.release # 0
            /\ DOMAIN backup.history = Versions(backup.release)
        BY <2>2, BackupRelease DEF Restore, IInv, JInv, HostFits
      <3> QED
        BY <3>1, <3>2
    <2> QED
      BY <2>1, <2>2
  <1>3. backup' # NoBackup /\ Limits' = {backup'.release}
    BY <1>2 DEF Limits, NoBackup
  <1>4. ~Migrating' /\ \A r \in Runner : ~AtWork(r)' /\ Stage(r)' \in {"idle", "ended"}
    BY <1>1 DEF Migrating, AtWork, Stage
  <1>5. Passed'
    BY <1>4 DEF Passed, PassedBy, AtWork
  <1>6. Within'
    BY <1>1, <1>2, <1>3, <1>4 DEF Within
  <1>7. ScriptFits'
    BY <1>1 DEF ScriptFits, NoScript
  <1>8. HostFits'
    BY <1>1, <1>2, <1>3, <1>4 DEF HostFits, Clean
  <1> QED
    BY <1>5, <1>6, <1>7, <1>8 DEF JInv

LEMMA RemoveFits ==
  ASSUME IInv, JInv, NEW r \in Runner, RemoveContainer(r)
  PROVE  JInv'
  <1>1. /\ Step(r, "ended", Idle) /\ script.runner # r
        /\ UNCHANGED history /\ UNCHANGED hostVars
    BY DEF RemoveContainer, Step, db
  <1>2. /\ run[r].pc = "ended" /\ run'[r] = Idle /\ catalog' = catalog
        /\ \A q \in Runner \ {r} : run'[q] = run[q]
    BY <1>1, StepLemma DEF IInv
  <1>3. run'[r].pc = "idle"
    BY <1>2 DEF Idle
  <1>4. /\ \A q \in Runner : AtWork(q)' <=> AtWork(q)
        /\ \A q \in Runner \ {r} : Files(q)' = Files(q) /\ Stage(q)' = Stage(q)
        /\ Stage(r)' = "idle"
    BY <1>2, <1>3 DEF AtWork, Files, Stage
  <1>5. (Migrating' <=> Migrating) /\ \A x : Versions(x)' = Versions(x)
    BY <1>2, <1>4 DEF Migrating, AtWork, Versions
  <1>6. Limits' = Limits /\ (Clean' <=> Clean)
    BY <1>1, <1>2, <1>5 DEF Limits, Clean, NoBackup, hostVars
  <1>7. Passed'
    BY <1>1, <1>2, <1>3, <1>4 DEF JInv, Passed, PassedBy
  <1>8. Within'
    BY <1>1, <1>2, <1>4, <1>5, <1>6 DEF JInv, Within, AtWork
  <1>9. ScriptFits'
    BY <1>1, <1>2, <1>5, <1>6 DEF JInv, ScriptFits, NoScript, NoBackup, hostVars
  <1>10. HostFits'
    BY <1>1, <1>2, <1>5, <1>6 DEF JInv, HostFits, NoBackup, hostVars
  <1> QED
    BY <1>7, <1>8, <1>9, <1>10 DEF JInv

(* No release is at work that would not fit, whatever was killed.           *)
THEOREM ReleasesFit == Spec => []JInv
  <1>1. IInv /\ JInv /\ [Next]_vars => JInv'
    <2> SUFFICES ASSUME IInv, JInv, [Next]_vars PROVE JInv'
      OBVIOUS
    <2>1. CASE Next
      BY <2>1, StartFits, ScriptGoesOn, RunMigrationFits, BackupFits, MigrateFits, RemoveFits
         DEF Next
    <2>2. CASE UNCHANGED vars
      <3>1. UNCHANGED migrationVars /\ UNCHANGED hostVars
        BY <2>2 DEF vars
      <3>2. /\ Passed' /\ (Migrating' <=> Migrating) /\ history' = history
            /\ \A x : Versions(x)' = Versions(x)
            /\ \A r \in Runner :
                run'[r] = run[r] /\ Files(r)' = Files(r) /\ (AtWork(r)' <=> AtWork(r))
            /\ catalog' = catalog
        BY <3>1, HostKeeps DEF JInv
      <3>3. Limits' = Limits /\ (Clean' <=> Clean)
        BY <3>1, <3>2 DEF Limits, Clean, NoBackup, hostVars
      <3>4. Within' /\ HostFits'
        BY <3>1, <3>2, <3>3 DEF JInv, Within, HostFits, NoBackup, hostVars
      <3>5. ScriptFits'
        BY <3>1, <3>2, <3>3 DEF JInv, ScriptFits, NoScript, NoBackup, hostVars
      <3> QED
        BY <3>2, <3>4, <3>5 DEF JInv
    <2> QED
      BY <2>1, <2>2
  <1> QED
    BY InitFits, Invariance, <1>1, PTL DEF Spec

(* A release is only started over the migrations that it brought.           *)
THEOREM CodeFitsSchema == Spec => SchemaFitsCode
  <1>1. ASSUME IInv, JInv, [Next]_vars, services' # services, services' # 0
        PROVE  DOMAIN history = DOMAIN catalog[services']
    <2>1. StartServices /\ services' = script.release
      BY <1>1 DEF Next, vars, hostVars, Install, Update, Rollback, StartScript, Preflight,
         RunMigration, MigrationDone, StartServices, VerifyRunning, Kill, BackUp, Restore,
         RemoveContainer
    <2>2. script.pc = "starting" /\ script # NoScript
      BY <2>1 DEF StartServices, Running, NoScript
    <2>3. CASE script.name = "rollback"
      BY <1>1, <2>1, <2>2, <2>3 DEF JInv, ScriptFits, Clean, Versions
    <2>4. CASE script.name # "rollback"
      BY <1>1, <2>1, <2>2, <2>4 DEF JInv, ScriptFits, Within, Versions
    <2> QED
      BY <2>3, <2>4
  <1>2. IInv /\ JInv /\ [Next]_vars =>
          [services' # services /\ services' # 0 =>
              DOMAIN history = DOMAIN catalog[services']]_vars
    BY <1>1
  <1> QED
    BY <1>2, Invariance, ReleasesFit, PTL DEF Spec, SchemaFitsCode

=============================================================================
