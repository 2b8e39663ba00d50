---------------------------- MODULE PluginRuntime ----------------------------
(***************************************************************************)
(* What an API process and the collections it starts make of a configuration *)
(* directory that is edited under them: preflightConfiguration of packages/  *)
(* plugin-config, the registry and the schedule of apps/api, and             *)
(* executeManualCollection of apps/collector-cli.                           *)
(*                                                                         *)
(* A startup collection is a process of its own that reads the directory     *)
(* again.  A scheduled one gets its definition and its transform from the    *)
(* API, as they were when the API started.  A manual one runs inside the     *)
(* API process and shares its module cache.                                *)
(***************************************************************************)
EXTENDS PluginConfiguration

CONSTANTS
    Disk,       \* what the configuration directory may hold
    Pure,       \* transforms that pass the allow list of the scheduler
    Loadable,   \* transforms that load and export transform
    MaxEdits,   \* bound: edits of the directory
    MaxRuns     \* bound: collections started

ASSUME SourceAssumption ==
    \A d \in Disk, f \in Folder : d.plugin[f].source.kind \in SourceKind
ASSUME RegistryAssumption ==
    \A d \in Disk : d.registry.entries \in Seq(Folder) /\ d.registry.schedule \in BOOLEAN
ASSUME BoundAssumption == MaxEdits \in Nat /\ MaxRuns \in Nat

Slot == 1..MaxRuns
Api == 0
Process == {Api} \union Slot
Kind == {"startup", "scheduled", "manual"}

VARIABLES
    disk,       \* the configuration directory
    edits,      \* how often it was edited
    load,       \* the preflight of each process
    cache,      \* the modules of each process: code by folder
    api,        \* where bootstrap is
    registry,   \* the definitions it froze
    captured,   \* snapshots of the scheduler, by the place of the target in it
    run         \* the collections

runtimeVars == <<disk, edits, load, cache, api, registry, captured, run>>

NoDefinition == [id |-> Nothing, folder |-> Nothing, declared |-> Nothing, digest |-> Nothing]

NoRun == [
    pc |-> "none",
    kind |-> Nothing,
    id |-> Nothing,             \* the plugin asked for
    input |-> Nothing,          \* what a scheduled collection finds on stdin
    expected |-> Nothing,       \* the revision it was told
    definition |-> NoDefinition,
    code |-> Nothing,           \* the transform the runner calls
    outcome |-> Nothing,        \* CliOutcome.status
    event |-> Nothing,          \* what there is of the public event on stdout
    exit |-> -1,                \* -1: none yet, or none because it was killed
    heard |-> Nothing]          \* what the parent takes of the event

Codes == UNION {{d.code[f] : f \in Folder} : d \in Disk}
Status == {"success", "partial", "duplicate", "failed", "cancelled"}

ASSUME NothingAssumption ==
    /\ \A d \in Disk, f \in Folder : d.plugin[f].id # Nothing
    /\ Nothing \notin Status \union Codes

(* transformDigest                                                         *)
DigestOf(code) == <<"sha256", code>>

(* configRevision and definitionRevision: all of the definition but the path *)
(* of its transform.                                                       *)
Revision(definition) == <<definition.id, definition.declared, definition.digest>>

RuntimeTypeOK ==
    /\ disk \in Disk /\ edits \in 0..MaxEdits
    /\ \A p \in Process :
        /\ DOMAIN load[p] = DOMAIN NewLoad
        /\ load[p].pc \in {"connections", "registry", "plugins", "transforms", "loading",
                           "rejected", "accepted"}
        /\ cache[p] \in [Folder -> Codes \union {Nothing}]
    /\ api \in {"loading", "capturing", "up", "failed"}
    /\ \A s \in Slot :
        /\ DOMAIN run[s] = DOMAIN NoRun
        /\ run[s].pc \in {"none", "verifying", "loading", "connecting", "running",
                          "transforming", "ended", "heard"}
        /\ run[s].outcome \in Status \union {Nothing}
        /\ run[s].exit \in {-1, 0, 1, 2, 3, 130}
        /\ run[s].event \in {run[s].outcome, Nothing}
        /\ run[s].exit # -1 =>
            run[s].outcome # Nothing /\ (run[s].exit = 2 <=> run[s].outcome = "partial")
        /\ run[s].heard \in Status \union {Nothing, "invalid"}

RuntimeInit ==
    /\ disk \in Disk
    /\ edits = 0
    /\ load = [p \in Process |-> NewLoad]
    /\ cache = [p \in Process |-> [f \in Folder |-> Nothing]]
    /\ api = "loading"
    /\ registry = << >>
    /\ captured = << >>
    /\ run = [s \in Slot |-> NoRun]

(* The operator replaces files while processes run.                        *)
EditFiles ==
    /\ edits < MaxEdits
    /\ edits' = edits + 1
    /\ disk' \in Disk \ {disk}
    /\ UNCHANGED <<load, cache, api, registry, captured, run>>

-----------------------------------------------------------------------------
(* preflightConfiguration, in any process.                                 *)

Loads(p) == IF p = Api THEN api = "loading" ELSE run[p].pc = "loading"

(* The process whose modules a collection uses.                            *)
Home(p) == IF p \in Slot /\ run[p].kind = "manual" THEN Api ELSE p

LoadStep(p, label, after) ==
    /\ Loads(p)
    /\ load[p].pc = label
    /\ load' = [load EXCEPT ![p] = after]
    /\ UNCHANGED <<disk, edits, api, registry, captured, run>>

ReadConnections(p) ==
    /\ LoadStep(p, "connections", LoadConnections(load[p], disk))
    /\ UNCHANGED cache

ReadRegistry(p) ==
    /\ LoadStep(p, "registry", LoadRegistry(load[p], disk))
    /\ UNCHANGED cache

ReadPlugin(p) ==
    /\ Len(load[p].read) < Len(load[p].entries)
    /\ LET folder == load[p].entries[Len(load[p].read) + 1]
       IN  LoadStep(p, "plugins", LoadPlugin(load[p], folder, disk.plugin[folder]))
    /\ UNCHANGED cache

EndPlugins(p) ==
    /\ Len(load[p].read) = Len(load[p].entries)
    /\ LoadStep(p, "plugins", EndLoad(load[p]))
    /\ UNCHANGED cache

AtDefinition(p) == load[p].next <= Len(load[p].definitions)
Current(p) == load[p].definitions[load[p].next]

(* Is the transform taken from the bytes that were read, or from the path?  *)
FromBytes(p) == load[p].schedule /\ ~Live(Current(p).declared)

(* assertSelfContainedTransform: the allow list of syntax and names.         *)
SelfContained(code) == code \in Pure

(* It runs as a module, and exports a function transform.                   *)
Exporting(code) == code \in Loadable

(* scheduledCredentialEnvironment                                          *)
UsableCredentials(definition) == "credential_name" \notin definition.declared.faults

(* What a schedule asks of a stored target.                                 *)
FitForSchedule(definition, code) ==
    UsableCredentials(definition) /\ SelfContained(code) /\ Exporting(code)

(* The definition gets the digest of the bytes that were read.             *)
Checked(p, code) ==
    [load[p] EXCEPT !.pc = "transforms", !.next = @ + 1, !.bytes = Nothing,
                    !.definitions[load[p].next].digest = DigestOf(code)]

Unfit(p) == Failed([load[p] EXCEPT !.pc = "transforms", !.next = @ + 1, !.bytes = Nothing])

ReadTransform(p) ==
    /\ load[p].pc = "transforms" /\ AtDefinition(p)
    /\ LET code == disk.code[Current(p).folder]
       IN  LoadStep(p, "transforms",
                CASE ~FromBytes(p) -> [load[p] EXCEPT !.pc = "loading", !.bytes = code]
                  [] FromBytes(p) /\ FitForSchedule(Current(p), code) -> Checked(p, code)
                  [] OTHER -> Unfit(p))
    /\ UNCHANGED cache

(* What require or import gives: the module of the process if it has it.    *)
Required(p, folder) ==
    IF cache[Home(p)][folder] # Nothing THEN cache[Home(p)][folder] ELSE disk.code[folder]

(* A module that throws is not kept, one without the export is.             *)
CachesAfter(p, folder, code) == {cache, [cache EXCEPT ![Home(p)][folder] = code]}

LoadModule(p) ==
    /\ load[p].pc = "loading" /\ AtDefinition(p)
    /\ LET folder == Current(p).folder
           code == Required(p, folder)
       IN  IF Exporting(code)
           THEN /\ LoadStep(p, "loading", Checked(p, load[p].bytes))
                /\ cache' = [cache EXCEPT ![Home(p)][folder] = code]
           ELSE /\ LoadStep(p, "loading", Unfit(p))
                /\ cache' \in CachesAfter(p, folder, code)

EndTransforms(p) ==
    /\ ~AtDefinition(p)
    /\ LoadStep(p, "transforms",
            [load[p] EXCEPT !.pc = IF load[p].failed THEN "rejected" ELSE "accepted"])
    /\ UNCHANGED cache

Preflight(p) ==
    \/ ReadConnections(p) \/ ReadRegistry(p) \/ ReadPlugin(p) \/ EndPlugins(p)
    \/ ReadTransform(p) \/ LoadModule(p) \/ EndTransforms(p)

-----------------------------------------------------------------------------
(* bootstrap of apps/api.                                                  *)

(* Nothing was wrong: the registry is frozen, and the database connected.   *)
CreateRegistry ==
    /\ api = "loading"
    /\ load[Api].pc \in {"accepted", "rejected"}
    /\ \E connects \in BOOLEAN :
        IF connects /\ load[Api].pc = "accepted"
        THEN api' = "capturing" /\ registry' = load[Api].definitions
        ELSE api' = "failed" /\ UNCHANGED registry
    /\ UNCHANGED <<disk, edits, load, cache, captured, run>>

(* Where the stored targets are in the registry.                           *)
Stored == {i \in DOMAIN registry : ~Live(registry[i].declared)}

(* captureScheduledCollectionSnapshot, or its refusal.                     *)
Snapshot(definition, code) ==
    [definition |-> definition, digest |-> DigestOf(code), code |-> code]

Captures(definition, code) == SelfContained(code) /\ definition.digest = DigestOf(code)

(* ScheduledCollectionManager.prepare takes one target after another; with  *)
(* the last the server listens.                                            *)
CaptureSnapshot ==
    /\ api = "capturing"
    /\ load[Api].schedule
    /\ \E i \in Stored \ DOMAIN captured :
        /\ \A j \in Stored : j < i => j \in DOMAIN captured
        /\ LET code == disk.code[registry[i].folder]
           IN  IF Captures(registry[i], code)
               THEN /\ captured' = [j \in DOMAIN captured \union {i} |->
                            IF j = i THEN Snapshot(registry[i], code) ELSE captured[j]]
                    /\ UNCHANGED api
               ELSE api' = "failed" /\ UNCHANGED captured
    /\ UNCHANGED <<disk, edits, load, cache, registry, run>>

ListenForRequests ==
    /\ api = "capturing"
    /\ load[Api].schedule => Stored \subseteq DOMAIN captured
    /\ api' = "up"
    /\ UNCHANGED <<disk, edits, load, cache, registry, captured, run>>

-----------------------------------------------------------------------------
(* The three ways in which the API starts a collection.                    *)

StartIn(s, new) ==
    /\ api = "up"
    /\ run[s] = NoRun
    /\ \A before \in 1..(s - 1) : run[before] # NoRun
    /\ run' = [run EXCEPT ![s] = new]
    /\ UNCHANGED <<disk, edits, load, cache, api, registry, captured>>

(* StartupCollectionManager.start                                          *)
StartStartup(s) ==
    \E i \in Stored :
        StartIn(s, [NoRun EXCEPT !.pc = "loading", !.kind = "startup", !.id = registry[i].id])

(* manualSyncExecutor                                                      *)
StartManual(s) ==
    \E i \in DOMAIN registry :
        StartIn(s, [NoRun EXCEPT !.pc = "loading", !.kind = "manual", !.id = registry[i].id])

(* startTargets: the snapshot goes to stdin, which may be cut off; the       *)
(* revision goes through the environment.                                  *)
StartScheduled(s) ==
    \E i \in DOMAIN captured, whole \in BOOLEAN :
        StartIn(s, [NoRun EXCEPT
            !.pc = "verifying", !.kind = "scheduled",
            !.id = captured[i].definition.id,
            !.input = IF whole THEN captured[i] ELSE Nothing,
            !.expected = Revision(captured[i].definition)])

-----------------------------------------------------------------------------
(* executeManualCollection.                                                *)

RunStep(s, label, after) ==
    /\ run[s].pc = label
    /\ run' = [run EXCEPT ![s] = after]
    /\ UNCHANGED <<disk, edits, load, api, registry, captured>>

(* The outcome is written to stdout and its code becomes the exit code.     *)
Ended(s, outcome, exit) ==
    [run[s] EXCEPT !.pc = "ended", !.outcome = outcome, !.event = outcome, !.exit = exit]

(* verifyScheduledCollectionSnapshot                                       *)
Verified(s) ==
    /\ run[s].input # Nothing
    /\ LET snapshot == run[s].input
       IN  /\ snapshot.definition.id = run[s].id
           /\ snapshot.digest = snapshot.definition.digest
           /\ DigestOf(snapshot.code) = snapshot.digest
           /\ Revision(snapshot.definition) = run[s].expected
           /\ SelfContained(snapshot.code) /\ Exporting(snapshot.code)

VerifySnapshot(s) ==
    /\ run[s].pc = "verifying"
    /\ RunStep(s, "verifying",
            IF Verified(s)
            THEN [run[s] EXCEPT !.pc = "connecting",
                                !.definition = run[s].input.definition,
                                !.code = run[s].input.code]
            ELSE [Ended(s, "failed", 1) EXCEPT !.id = Nothing])
    /\ UNCHANGED cache

(* selectDefinition, and collectorFor, which knows no live source.          *)
Selected(s) ==
    SelectSeq(load[s].definitions, LAMBDA definition :
        definition.id = run[s].id /\ ~Live(definition.declared))

SelectDefinition(s) ==
    /\ load[s].pc \in {"accepted", "rejected"}
    /\ RunStep(s, "loading",
            IF load[s].pc = "accepted" /\ Len(Selected(s)) = 1
            THEN [run[s] EXCEPT !.pc = "connecting", !.definition = Selected(s)[1]]
            ELSE Ended(s, "failed", 1))
    /\ UNCHANGED cache

(* It has no database configuration, or no connection.                     *)
ConnectStorage(s) ==
    /\ \E after \in {[run[s] EXCEPT !.pc = "running"],
                     Ended(s, "failed", 1), Ended(s, "failed", 3)} :
            RunStep(s, "connecting", after)
    /\ UNCHANGED cache

(* The lease is another run's: a scheduled collection reports which.        *)
LeaseTaken(s) ==
    /\ RunStep(s, "running",
            IF run[s].kind = "scheduled" THEN Ended(s, "duplicate", 0)
                                         ELSE Ended(s, "failed", 3))
    /\ UNCHANGED cache

(* Mutant: the transform is always loaded from its path.                   *)
CalledFromPath(s) == Required(s, run[s].definition.folder)

Called(s) ==
    IF run[s].kind = "scheduled" THEN run[s].code ELSE Required(s, run[s].definition.folder)

(* loadTransform, at the first batch, unless the transform was given.       *)
FirstBatch(s) ==
    /\ run[s].pc = "running"
    /\ LET folder == run[s].definition.folder
           code == Called(s)
       IN  IF Exporting(code)
           THEN /\ RunStep(s, "running", [run[s] EXCEPT !.pc = "transforming", !.code = code])
                /\ cache' = IF run[s].kind = "scheduled" THEN cache
                             ELSE [cache EXCEPT ![Home(s)][folder] = code]
           ELSE /\ RunStep(s, "running", Ended(s, "failed", 3))
                /\ cache' \in IF run[s].kind = "scheduled" THEN {cache}
                              ELSE CachesAfter(s, folder, code)

(* Mutant: a partial collection exits like a successful one.               *)
ExitAlike(status) ==
    CASE status \in {"success", "partial"} -> 0
      [] status = "cancelled" -> 130
      [] OTHER -> 3

ExitOf(status) ==
    CASE status = "success" -> 0
      [] status = "partial" -> 2
      [] status = "cancelled" -> 130
      [] OTHER -> 3

(* The run ends, with batches or without, by itself or cancelled.          *)
EndRun(s) ==
    /\ \E status \in Status \ {"duplicate"} :
        \/ RunStep(s, "transforming", Ended(s, status, ExitOf(status)))
        \/ RunStep(s, "running", Ended(s, status, ExitOf(status)))
    /\ UNCHANGED cache

(* A collection of another process is killed: by a second signal, by the     *)
(* parent that waits no longer, or by the system.  What it has written stays. *)
ChildDies(s) ==
    /\ run[s].kind \in {"startup", "scheduled"}
    /\ run[s].pc \notin {"none", "heard"}
    /\ run[s].pc = "ended" => run[s].exit # -1
    /\ run' = [run EXCEPT ![s].pc = "ended", ![s].exit = -1]
    /\ UNCHANGED <<disk, edits, load, cache, api, registry, captured>>

(* Not all of the event arrives, or not the event alone: stdout is missing,  *)
(* cut off, or holds more than 16 KiB.                                      *)
SpoilOutput(s) ==
    /\ run[s].kind = "scheduled" /\ run[s].event # Nothing
    /\ RunStep(s, "ended", [run[s] EXCEPT !.event = Nothing])
    /\ UNCHANGED cache

(* parsePublicEvent and handleResult take an event that is whole, names the  *)
(* plugin and fits the exit code.                                          *)
Understood(s) ==
    /\ run[s].id # Nothing /\ run[s].event # Nothing
    /\ CASE run[s].event \in {"success", "duplicate"} -> run[s].exit = 0
         [] run[s].event = "partial" -> run[s].exit = 2
         [] OTHER -> run[s].exit \notin {0, 2}

HearResult(s) ==
    /\ run[s].kind = "scheduled"
    /\ RunStep(s, "ended",
            [run[s] EXCEPT !.pc = "heard",
                           !.heard = IF Understood(s) THEN run[s].event ELSE "invalid"])
    /\ UNCHANGED cache

Execute(s) ==
    \/ VerifySnapshot(s) \/ SelectDefinition(s) \/ ConnectStorage(s) \/ LeaseTaken(s)
    \/ FirstBatch(s) \/ EndRun(s) \/ ChildDies(s) \/ SpoilOutput(s) \/ HearResult(s)

-----------------------------------------------------------------------------
RuntimeNext ==
    \/ EditFiles
    \/ \E p \in Process : Preflight(p)
    \/ CreateRegistry \/ CaptureSnapshot \/ ListenForRequests
    \/ \E s \in Slot : StartStartup(s) \/ StartManual(s) \/ StartScheduled(s)
    \/ \E s \in Slot : Execute(s)

RuntimeSpec == RuntimeInit /\ [][RuntimeNext]_runtimeVars

-----------------------------------------------------------------------------
(* A configuration is taken whole or not at all, whatever is edited while it *)
(* is read: every enabled plugin of the registry has its definition, ids and *)
(* menu paths are used once, every menu has its definition, and with a       *)
(* schedule the digest of a stored target is that of a transform that        *)
(* passed the allow list.                                                  *)
AcceptedIsComplete ==
    \A p \in Process : load[p].pc = "accepted" =>
        LET read == load[p].read
            definitions == load[p].definitions
            enabled == {i \in DOMAIN read : read[i].enabled}
        IN  /\ Len(read) = Len(load[p].entries)
            /\ \A i, j \in DOMAIN read : i # j =>
                /\ read[i].id # read[j].id
                /\ MenuPaths(read[i]) \intersect MenuPaths(read[j]) = {}
            /\ {definitions[i].declared : i \in DOMAIN definitions} = {read[i] : i \in enabled}
            /\ \A menu \in load[p].menus :
                \E i \in DOMAIN definitions : definitions[i].id = menu.id
            /\ \A i \in DOMAIN definitions :
                load[p].schedule /\ ~Live(definitions[i].declared) =>
                    \E code \in Pure : definitions[i].digest = DigestOf(code)

(* A scheduled collection runs what the API read when it started, the        *)
(* definition and the transform its revision names, however the directory    *)
(* was edited since.                                                       *)
ScheduledRunsCaptured ==
    \A s \in Slot : run[s].kind = "scheduled" /\ run[s].pc \in {"running", "transforming"} =>
        /\ \E i \in DOMAIN registry : registry[i] = run[s].definition
        /\ DigestOf(run[s].code) = run[s].definition.digest
        /\ Revision(run[s].definition) = run[s].expected

(* handleResult takes no result for another one, and none as complete of a   *)
(* child that did not exit with its code.  It finds a result invalid only if *)
(* the child refused its snapshot, was killed, or its event did not arrive   *)
(* whole: a collection that ends by itself is understood.                   *)
ResultsAgree ==
    \A s \in Slot : run[s].pc = "heard" =>
        \/ /\ run[s].heard = run[s].outcome
           /\ run[s].outcome \in {"success", "duplicate"} => run[s].exit = 0
           /\ run[s].outcome = "partial" => run[s].exit = 2
        \/ /\ run[s].heard = "invalid"
           /\ run[s].definition = NoDefinition \/ run[s].exit = -1 \/ run[s].event = Nothing

(* docs/server-development.md:197: the definitions of a running API are one  *)
(* read-only snapshot; files that are edited do not reach the process.  A    *)
(* manual collection of the process reads them again.                       *)
RunsUseSnapshot ==
    \A s \in Slot : run[s].kind = "manual" /\ run[s].definition # NoDefinition =>
        \E i \in DOMAIN registry : registry[i] = run[s].definition

=============================================================================
