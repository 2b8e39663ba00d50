---------------------------- MODULE ApiLifecycle ----------------------------
(***************************************************************************)
(* The life of one API process around its collections: bootstrap of         *)
(* apps/api/src/main.ts, the StartupCollectionManager, the shutdown hook     *)
(* PlatformDbLifecycle of app.module.ts, and the ScheduledCollectionManager  *)
(* of ScheduledCollection, whose steps it starts and stops.                 *)
(*                                                                         *)
(* A termination signal may come while the server is still starting to      *)
(* listen; the shutdown then runs beside the rest of the bootstrap.  The     *)
(* hook closes the scheduler, the startup collections, the live pools and   *)
(* the database connection, each after the one before.                      *)
(***************************************************************************)
EXTENDS ScheduledCollection

VARIABLES
    boot,           \* bootstrap: listening, up, or failed
    shutdown,       \* how far the shutdown hook is
    dbOpen,         \* is the connection of the API open?
    startup,        \* the startup collection of each target
    startupClosing, \* StartupCollectionManager.closing
    awaited         \* targets whose startup collection close() waits for

apiVars == <<boot, shutdown, dbOpen, startup, startupClosing, awaited>>
allVars == <<vars, apiVars>>

ApiTypeOK ==
    /\ boot \in {"listening", "up", "failed"}
    /\ shutdown \in {"none", "begun", "scheduled", "startup", "live", "done"}
    /\ dbOpen \in BOOLEAN /\ (dbOpen = (shutdown /= "done"))
    /\ startup \in [Target -> {"none", "running", "terminating", "exited", "closed"}]
    /\ startupClosing \in BOOLEAN
    /\ awaited \subseteq Target

ApiInit ==
    /\ Init
    /\ boot = "listening"
    /\ shutdown = "none"
    /\ dbOpen = TRUE
    /\ startup = [t \in Target |-> "none"]
    /\ startupClosing = FALSE
    /\ awaited = {}

-----------------------------------------------------------------------------
(* Mutant: start does not look at closing.                                 *)
SpawnStartupAlways ==
    \E spawned \in SUBSET Target :
        startup' = [t \in Target |-> IF t \in spawned THEN "running" ELSE startup[t]]

(* StartupCollectionManager.start: one process for every target, some of   *)
(* which cannot be spawned.                                                *)
SpawnStartup ==
    \E spawned \in SUBSET Target :
        /\ startupClosing => spawned = {}
        /\ startup' = [t \in Target |-> IF t \in spawned THEN "running" ELSE startup[t]]

(* The server listens: startup.start and scheduled.start, in one go.       *)
Listen ==
    /\ boot = "listening"
    /\ boot' = "up"
    /\ SpawnStartup
    /\ IF started \/ closing THEN UNCHANGED vars ELSE Start
    /\ UNCHANGED <<shutdown, dbOpen, startupClosing, awaited>>

(* The port is taken: the application is closed.                           *)
FailToListen ==
    /\ boot = "listening"
    /\ boot' = "failed"
    /\ shutdown' = IF shutdown = "none" THEN "begun" ELSE shutdown
    /\ UNCHANGED <<vars, dbOpen, startup, startupClosing, awaited>>

(* SIGTERM or SIGINT; further ones change nothing.                         *)
Signal ==
    /\ shutdown = "none"
    /\ shutdown' = "begun"
    /\ UNCHANGED <<vars, boot, dbOpen, startup, startupClosing, awaited>>

(* scheduled.close()                                                       *)
CloseScheduled ==
    /\ shutdown = "begun"
    /\ BeginClose
    /\ shutdown' = "scheduled"
    /\ UNCHANGED <<boot, dbOpen, startup, startupClosing, awaited>>

(* Mutant: close waits for the collections but does not terminate them.    *)
CloseStartupSilently ==
    /\ shutdown = "scheduled" /\ closer = "returned"
    /\ startupClosing' = TRUE
    /\ awaited' = {t \in Target : startup[t] = "running"}
    /\ shutdown' = "startup"
    /\ UNCHANGED <<vars, boot, dbOpen, startup>>

(* Mutant: the scheduler is not waited for.                                *)
CloseStartupAtOnce ==
    /\ shutdown = "scheduled"
    /\ startupClosing' = TRUE
    /\ startup' = [t \in Target |-> IF startup[t] = "running" THEN "terminating" ELSE startup[t]]
    /\ awaited' = {t \in Target : startup[t] = "running"}
    /\ shutdown' = "startup"
    /\ UNCHANGED <<vars, boot, dbOpen>>

(* startup.close(): SIGTERM to the children that have not closed, and a     *)
(* wait without a limit for those that had not exited.                     *)
CloseStartup ==
    /\ shutdown = "scheduled" /\ closer = "returned"
    /\ startupClosing' = TRUE
    /\ startup' = [t \in Target |-> IF startup[t] = "running" THEN "terminating" ELSE startup[t]]
    /\ awaited' = {t \in Target : startup[t] = "running"}
    /\ shutdown' = "startup"
    /\ UNCHANGED <<vars, boot, dbOpen>>

(* live.close(), once every awaited child has closed.                      *)
CloseLive ==
    /\ shutdown = "startup"
    /\ \A t \in awaited : startup[t] = "closed"
    /\ shutdown' = "live"
    /\ UNCHANGED <<vars, boot, dbOpen, startup, startupClosing, awaited>>

(* connection.close()                                                      *)
CloseDatabase ==
    /\ shutdown = "live"
    /\ shutdown' = "done"
    /\ dbOpen' = FALSE
    /\ UNCHANGED <<vars, boot, startup, startupClosing, awaited>>

ExitStartup(t) ==
    /\ startup[t] \in {"running", "terminating"}
    /\ startup' = [startup EXCEPT ![t] = "exited"]
    /\ UNCHANGED <<vars, boot, shutdown, dbOpen, startupClosing, awaited>>

CloseStartupChild(t) ==
    /\ startup[t] = "exited"
    /\ startup' = [startup EXCEPT ![t] = "closed"]
    /\ UNCHANGED <<vars, boot, shutdown, dbOpen, startupClosing, awaited>>

ScheduledWork == Work /\ UNCHANGED apiVars

ApiNext ==
    \/ Listen \/ FailToListen \/ Signal
    \/ CloseScheduled \/ CloseStartup \/ CloseLive \/ CloseDatabase
    \/ \E t \in Target : ExitStartup(t) \/ CloseStartupChild(t)
    \/ ScheduledWork

ApiSpec == ApiInit /\ [][ApiNext]_allVars

(* The hook runs, the timers of the scheduler fire, and a startup child     *)
(* that was told to terminate exits and closes: process.ts aborts the run   *)
(* on SIGTERM and nothing else bounds the wait.                            *)
ApiFairness ==
    /\ WF_allVars(CloseScheduled) /\ WF_allVars(CloseStartup)
    /\ WF_allVars(CloseLive) /\ WF_allVars(CloseDatabase)
    /\ \A t \in Target :
        /\ WF_allVars(startup[t] = "terminating" /\ ExitStartup(t))
        /\ WF_allVars(CloseStartupChild(t))
    /\ WF_allVars(Finalize /\ UNCHANGED apiVars) /\ WF_allVars(Drain /\ UNCHANGED apiVars)
    /\ \A k \in Child : /\ WF_allVars(EndGrace(k) /\ UNCHANGED apiVars)
                        /\ WF_allVars(EndKillWait(k) /\ UNCHANGED apiVars)

FairApiSpec == ApiSpec /\ ApiFairness

-----------------------------------------------------------------------------
(* No result of a scheduled child starts work on a closed connection.      *)
ResultsUseOpenDatabase ==
    [][~dbOpen => pending' \subseteq pending]_allVars

(* The connection is closed when the collections are over: no startup child *)
(* is alive, even when the signal came during the bootstrap, and every      *)
(* scheduled child that is has been killed.                                 *)
NoCollectionOutlivesShutdown ==
    ~dbOpen =>
        /\ \A t \in Target : startup[t] \notin {"running", "terminating"}
        /\ \A k \in Child : Alive(k) => process[k].signal = "kill"

(* A shutdown ends, whenever the signal comes.                             *)
ShutdownEnds == shutdown /= "none" ~> shutdown = "done"
=============================================================================
