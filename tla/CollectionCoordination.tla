----------------------- MODULE CollectionCoordination -----------------------
(***************************************************************************)
(* Collection runs of one target (plugin, source, full scope) executed by   *)
(* concurrent processes: runCollection of packages/collection-engine        *)
(* against the RecordStorage of packages/platform-db.                       *)
(*                                                                         *)
(* A worker is a process that calls runCollection: a CLI, or a child of an  *)
(* API instance (startup, schedule, manual sync).  The platform database is *)
(* shared.  Rows of collection_runs are the runs; two runs of one target    *)
(* share a lease whatever their configuration revision, and a checkpoint    *)
(* belongs to a revision.  Each storage call is one transaction and one     *)
(* action; between two calls of a worker anything may happen, including its *)
(* death, and an answer may be lost after the transaction committed.        *)
(*                                                                         *)
(* The source is a sequence of batches 1 .. SourceLength; the checkpoint    *)
(* that follows batch b is b, whatever its JSON form (offset, row count or  *)
(* {complete: true}).  A lease of two minutes is LeaseTicks ticks; age[r]   *)
(* counts the ticks since the heartbeat_at of run r.  started_at is read    *)
(* from the worker's clock and ties are broken by a random id, so a run may *)
(* be ordered before runs inserted earlier: startedAt is its place in that  *)
(* order, an even number on time and an odd one when it lags.               *)
(***************************************************************************)
EXTENDS Integers

CONSTANTS
    Worker,         \* processes that may collect the target
    Revision,       \* configuration revisions deployed side by side
    NoRevision,     \* the revision of a row that does not exist yet
    NoCheckpoint,   \* the null checkpoint
    SourceLength,   \* number of batches in the source
    LeaseTicks,     \* length of the two-minute lease
    ClockSkew,      \* how far a row may lag in the order of runs: 0 or odd
    MaxRuns         \* bound: rows of collection_runs

ASSUME SourceAssumption == SourceLength \in Nat \ {0}
ASSUME CheckpointAssumption == NoCheckpoint \notin Int
ASSUME RevisionAssumption == NoRevision \notin Revision
ASSUME LeaseAssumption == LeaseTicks \in Nat \ {0}
ASSUME SkewAssumption == ClockSkew \in Nat /\ (ClockSkew = 0 \/ ClockSkew % 2 = 1)
ASSUME BoundAssumption == MaxRuns \in Nat

Run == 1..MaxRuns
NoRun == 0
Batch == 1..SourceLength
Checkpoint == Batch \union {NoCheckpoint}

Status == {"none", "running", "success", "partial", "failed"}
Completed == {"success", "partial"}

VARIABLES
    status,     \* collection_runs.status; "none" before the row exists
    revision,   \* collection_runs.config_revision
    startedAt,  \* (started_at, id): the place of the row in the order of runs
    age,        \* ticks since collection_runs.heartbeat_at; 0 unless running
    processed,  \* collection_runs.processed_count, in batches
    isolated,   \* is collection_runs.isolated_count > 0?
    nextRun,    \* the next row
    checkpoint, \* collection_checkpoints of each revision
    lastSeen,   \* the run that last upserted the records of each batch
    renewals,   \* runs whose renewRun call is under way
    pc,         \* where each worker is in runCollection
    local,      \* runCollection's checkpoint variable
    myRun,      \* runCollection's runId
    myRevision, \* options.scope.configRevision
    rejected,   \* is runCollection's rejected counter > 0?
    aborted     \* has the worker's AbortSignal fired?

runVars == <<status, revision, startedAt, age, processed, isolated, nextRun>>
dataVars == <<checkpoint, lastSeen>>
workerVars == <<pc, local, myRun, myRevision, rejected, aborted>>
vars == <<runVars, dataVars, renewals, workerVars>>

(* The points of runCollection between two storage calls: before the call, *)
(* within getCheckpoint, checkpoint read, inside the collector, a batch      *)
(* transformed, the source exhausted, an error being recorded.              *)
Control == {"idle", "reading", "loaded", "collecting", "transformed", "finishing", "failing"}
Holding == {"collecting", "transformed", "finishing", "failing"}

TypeOK ==
    /\ status \in [Run -> Status]
    /\ revision \in [Run -> Revision \union {NoRevision}]
    /\ startedAt \in [Run -> Int]
    /\ age \in [Run -> 0..LeaseTicks]
    /\ processed \in [Run -> Nat]
    /\ isolated \in [Run -> BOOLEAN]
    /\ nextRun \in 1..(MaxRuns + 1)
    /\ checkpoint \in [Revision -> Checkpoint]
    /\ lastSeen \in [Batch -> Run \union {NoRun}]
    /\ renewals \in SUBSET Run
    /\ pc \in [Worker -> Control]
    /\ local \in [Worker -> Checkpoint]
    /\ myRun \in [Worker -> Run \union {NoRun}]
    /\ myRevision \in [Worker -> Revision \union {NoRevision}]
    /\ rejected \in [Worker -> BOOLEAN]
    /\ aborted \in [Worker -> BOOLEAN]

-----------------------------------------------------------------------------
(* The storage's queries.                                                  *)

Running(r) == status[r] = "running"

(* heartbeat_at > now() - interval '2 minutes'                             *)
LeaseValid(r) == age[r] < LeaseTicks

Rows == 1..(nextRun - 1)

(* ORDER BY started_at DESC, id DESC                                       *)
LaterThan(r, q) == startedAt[r] > startedAt[q]

(* Did the latest of the given runs of the revision complete?              *)
LatestCompleted(rev, runs) ==
    \E r \in runs :
        /\ revision[r] = rev
        /\ status[r] \in Completed
        /\ \A q \in runs \ {r} : revision[q] = rev => LaterThan(r, q)

(* commitBatch's comparison of the expected and the stored checkpoint.     *)
CheckpointAccepted(r, rev, expected) ==
    IF expected = NoCheckpoint
    THEN \/ checkpoint[rev] = NoCheckpoint
         \/ LatestCompleted(rev, Rows \ {r})
    ELSE checkpoint[rev] = expected

(* Mutant: the collector of a new traversal starts one batch too late.     *)
FollowingFromSecond(c) == IF c = NoCheckpoint THEN 2 ELSE c + 1

(* The batch the collector fetches after the given checkpoint.             *)
Following(c) == IF c = NoCheckpoint THEN 1 ELSE c + 1

-----------------------------------------------------------------------------
Init ==
    /\ status = [r \in Run |-> "none"]
    /\ revision = [r \in Run |-> NoRevision]
    /\ startedAt = [r \in Run |-> 0]
    /\ age = [r \in Run |-> 0]
    /\ processed = [r \in Run |-> 0]
    /\ isolated = [r \in Run |-> FALSE]
    /\ nextRun = 1
    /\ checkpoint = [rev \in Revision |-> NoCheckpoint]
    /\ lastSeen = [b \in Batch |-> NoRun]
    /\ renewals = {}
    /\ pc = [w \in Worker |-> "idle"]
    /\ local = [w \in Worker |-> NoCheckpoint]
    /\ myRun = [w \in Worker |-> NoRun]
    /\ myRevision = [w \in Worker |-> NoRevision]
    /\ rejected = [w \in Worker |-> FALSE]
    /\ aborted = [w \in Worker |-> FALSE]

-----------------------------------------------------------------------------
(* runCollection returns or throws, or its process dies: what it knew is   *)
(* gone, what it stored is not.                                            *)
Leave(w) ==
    /\ pc' = [pc EXCEPT ![w] = "idle"]
    /\ local' = [local EXCEPT ![w] = NoCheckpoint]
    /\ myRun' = [myRun EXCEPT ![w] = NoRun]
    /\ myRevision' = [myRevision EXCEPT ![w] = NoRevision]
    /\ rejected' = [rejected EXCEPT ![w] = FALSE]
    /\ aborted' = [aborted EXCEPT ![w] = FALSE]

(* getCheckpoint, outside any lease and before the run exists: two queries, *)
(* each a transaction of its own.  After a completed run there is no        *)
(* checkpoint, the next run starts over.                                   *)
ReadLatestRun(w) ==
    /\ pc[w] = "idle"
    /\ \E rev \in Revision :
        /\ myRevision' = [myRevision EXCEPT ![w] = rev]
        /\ pc' = [pc EXCEPT ![w] = IF LatestCompleted(rev, Rows) THEN "loaded" ELSE "reading"]
    /\ local' = [local EXCEPT ![w] = NoCheckpoint]
    /\ UNCHANGED <<runVars, dataVars, renewals, myRun, rejected, aborted>>

(* Any other run is resumed, at what is stored by now.  What keeps a worker  *)
(* from reading it is as good as what keeps it from starting its run after. *)
ReadCheckpoint(w) ==
    /\ pc[w] = "reading"
    /\ local' = [local EXCEPT ![w] = checkpoint[myRevision[w]]]
    /\ pc' = [pc EXCEPT ![w] = "loaded"]
    /\ UNCHANGED <<runVars, dataVars, renewals, myRun, myRevision, rejected, aborted>>

(* Mutant: startRun does not fail the runs whose lease has expired.        *)
InsertRunKeepingStale(rev) ==
    /\ nextRun \in Run
    /\ \A r \in Run : Running(r) => ~LeaseValid(r)
    /\ status' = [status EXCEPT ![nextRun] = "running"]
    /\ revision' = [revision EXCEPT ![nextRun] = rev]
    /\ startedAt' = [startedAt EXCEPT ![nextRun] = nextRun]
    /\ age' = [age EXCEPT ![nextRun] = 0]
    /\ nextRun' = nextRun + 1
    /\ UNCHANGED <<processed, isolated>>

(* Mutant: startRun refuses while any run is running, expired or not.      *)
InsertRunIfNoneRunning(rev) ==
    /\ \A r \in Run : ~Running(r)
    /\ InsertRunKeepingStale(rev)

(* The transaction of an exclusive startRun that is granted: no running    *)
(* run has a valid lease, the expired ones are failed, a row is inserted.  *)
InsertRun(rev) ==
    /\ nextRun \in Run
    /\ \A r \in Run : Running(r) => ~LeaseValid(r)
    /\ status' = [r \in Run |-> IF r = nextRun THEN "running"
                                ELSE IF Running(r) THEN "failed"
                                ELSE status[r]]
    /\ revision' = [revision EXCEPT ![nextRun] = rev]
    /\ \E lag \in {0, ClockSkew} :
        startedAt' = [startedAt EXCEPT ![nextRun] = 2 * nextRun - lag]
    /\ age' = [r \in Run |-> 0]
    /\ nextRun' = nextRun + 1
    /\ UNCHANGED <<processed, isolated>>

StartRun(w) ==
    /\ pc[w] = "loaded"
    /\ InsertRun(myRevision[w])
    /\ pc' = [pc EXCEPT ![w] = "collecting"]
    /\ myRun' = [myRun EXCEPT ![w] = nextRun]
    /\ UNCHANGED <<dataVars, renewals, local, myRevision, rejected, aborted>>

(* The row is inserted but the answer is lost: nobody owns the run.        *)
StartRunUnanswered(w) ==
    /\ pc[w] = "loaded"
    /\ InsertRun(myRevision[w])
    /\ Leave(w)
    /\ UNCHANGED <<dataVars, renewals>>

(* MySQL runs startRun outside a transaction: the expired runs are failed, *)
(* and then the process dies or the insert does not reach the database.    *)
StartRunInterrupted(w) ==
    /\ pc[w] = "loaded"
    /\ \A r \in Run : Running(r) => ~LeaseValid(r)
    /\ status' = [r \in Run |-> IF Running(r) THEN "failed" ELSE status[r]]
    /\ age' = [r \in Run |-> 0]
    /\ Leave(w)
    /\ UNCHANGED <<revision, startedAt, processed, isolated, nextRun, dataVars, renewals>>

(* RUN_ALREADY_ACTIVE: another run has the lease.                          *)
RefuseDuplicate(w) ==
    /\ pc[w] = "loaded"
    /\ \E r \in Run : Running(r) /\ LeaseValid(r)
    /\ Leave(w)
    /\ UNCHANGED <<runVars, dataVars, renewals>>

(* Cancelled before startRun is called, the transform does not load, or the *)
(* database is unreachable.                                                *)
GiveUpStart(w) ==
    /\ pc[w] = "loaded"
    /\ Leave(w)
    /\ UNCHANGED <<runVars, dataVars, renewals>>

(* Mutant: the collector does not notice the end of the source.            *)
DeliverBatchPastEnd(w) ==
    /\ pc[w] = "collecting"
    /\ ~aborted[w]
    /\ pc' = [pc EXCEPT ![w] = "transformed"]
    /\ UNCHANGED <<runVars, dataVars, renewals, local, myRun, myRevision, rejected, aborted>>

(* The collector delivers the batch after the checkpoint and processRecords *)
(* transforms it.                                                          *)
DeliverBatch(w) ==
    /\ pc[w] = "collecting"
    /\ ~aborted[w]
    /\ Following(local[w]) \in Batch
    /\ pc' = [pc EXCEPT ![w] = "transformed"]
    /\ UNCHANGED <<runVars, dataVars, renewals, local, myRun, myRevision, rejected, aborted>>

(* The writes of commitBatch, without its checks.                          *)
BatchWrites(r, rev, expected, bad) ==
    /\ lastSeen' = [lastSeen EXCEPT ![Following(expected)] = r]
    /\ checkpoint' = [checkpoint EXCEPT ![rev] = Following(expected)]
    /\ processed' = [processed EXCEPT ![r] = @ + 1]
    /\ isolated' = [isolated EXCEPT ![r] = @ \/ bad]
    /\ age' = [age EXCEPT ![r] = 0]
    /\ UNCHANGED <<status, revision, startedAt, nextRun>>

(* Mutant: commitBatch accepts a run whose lease has expired.              *)
StoreBatchAfterExpiry(r, rev, expected, bad) ==
    /\ Running(r)
    /\ CheckpointAccepted(r, rev, expected)
    /\ BatchWrites(r, rev, expected, bad)

(* Mutant: commitBatch accepts whatever checkpoint the worker expects.     *)
StoreBatchUnchecked(r, rev, expected, bad) ==
    /\ Running(r)
    /\ LeaseValid(r)
    /\ BatchWrites(r, rev, expected, bad)

(* Mutant: the issues of a batch replace the count instead of adding to it. *)
StoreBatchResettingIssues(r, rev, expected, bad) ==
    /\ Running(r)
    /\ LeaseValid(r)
    /\ CheckpointAccepted(r, rev, expected)
    /\ lastSeen' = [lastSeen EXCEPT ![Following(expected)] = r]
    /\ checkpoint' = [checkpoint EXCEPT ![rev] = Following(expected)]
    /\ processed' = [processed EXCEPT ![r] = @ + 1]
    /\ isolated' = [isolated EXCEPT ![r] = bad]
    /\ age' = [age EXCEPT ![r] = 0]
    /\ UNCHANGED <<status, revision, startedAt, nextRun>>

(* The transaction of commitBatch: records, issues, checkpoint, counts and *)
(* heartbeat, or nothing.                                                  *)
StoreBatch(r, rev, expected, bad) ==
    /\ Running(r)
    /\ LeaseValid(r)
    /\ CheckpointAccepted(r, rev, expected)
    /\ BatchWrites(r, rev, expected, bad)

(* bad: some record of the batch was isolated by the transform.            *)
CommitBatch(w, bad) ==
    /\ pc[w] = "transformed"
    /\ ~aborted[w]
    /\ StoreBatch(myRun[w], myRevision[w], local[w], bad)
    /\ pc' = [pc EXCEPT ![w] = "collecting"]
    /\ local' = [local EXCEPT ![w] = Following(@)]
    /\ rejected' = [rejected EXCEPT ![w] = @ \/ bad]
    /\ UNCHANGED <<renewals, myRun, myRevision, aborted>>

(* The batch is stored but the answer is lost: the run fails.              *)
CommitBatchUnanswered(w, bad) ==
    /\ pc[w] = "transformed"
    /\ ~aborted[w]
    /\ StoreBatch(myRun[w], myRevision[w], local[w], bad)
    /\ pc' = [pc EXCEPT ![w] = "failing"]
    /\ UNCHANGED <<renewals, local, myRun, myRevision, rejected, aborted>>

(* The collector throws, the batch is refused or cancellation is observed. *)
FailCollection(w) ==
    /\ pc[w] \in {"collecting", "transformed"}
    /\ pc' = [pc EXCEPT ![w] = "failing"]
    /\ UNCHANGED <<runVars, dataVars, renewals, local, myRun, myRevision, rejected, aborted>>

(* Mutant: the collector returns before the end of the source.             *)
ExhaustSourceEarly(w) ==
    /\ pc[w] = "collecting"
    /\ ~aborted[w]
    /\ pc' = [pc EXCEPT ![w] = "finishing"]
    /\ UNCHANGED <<runVars, dataVars, renewals, local, myRun, myRevision, rejected, aborted>>

(* Mutant: cancellation is not checked after the collector returns.        *)
ExhaustSourceCancelled(w) ==
    /\ pc[w] = "collecting"
    /\ Following(local[w]) \notin Batch
    /\ pc' = [pc EXCEPT ![w] = "finishing"]
    /\ UNCHANGED <<runVars, dataVars, renewals, local, myRun, myRevision, rejected, aborted>>

(* The collector returns: nothing follows the checkpoint.                  *)
ExhaustSource(w) ==
    /\ pc[w] = "collecting"
    /\ ~aborted[w]
    /\ Following(local[w]) \notin Batch
    /\ pc' = [pc EXCEPT ![w] = "finishing"]
    /\ UNCHANGED <<runVars, dataVars, renewals, local, myRun, myRevision, rejected, aborted>>

(* The transaction of finishRun.                                           *)
CloseRun(r, outcome) ==
    /\ Running(r)
    /\ LeaseValid(r)
    /\ outcome = "success" => ~isolated[r]
    /\ outcome = "partial" => isolated[r]
    /\ status' = [status EXCEPT ![r] = outcome]
    /\ age' = [age EXCEPT ![r] = 0]
    /\ UNCHANGED <<revision, startedAt, processed, isolated, nextRun>>

FinishRun(w) ==
    /\ pc[w] = "finishing"
    /\ CloseRun(myRun[w], IF rejected[w] THEN "partial" ELSE "success")
    /\ Leave(w)
    /\ UNCHANGED <<dataVars, renewals>>

RecordFailure(w) ==
    /\ pc[w] = "failing"
    /\ CloseRun(myRun[w], "failed")
    /\ Leave(w)
    /\ UNCHANGED <<dataVars, renewals>>

(* finishRun is refused or never reaches the database.                     *)
LeaveUnfinished(w) ==
    /\ pc[w] \in {"finishing", "failing"}
    /\ Leave(w)
    /\ UNCHANGED <<runVars, dataVars, renewals>>

-----------------------------------------------------------------------------
(* The heartbeat timer runs from startRun until the collector is done and, *)
(* on an error, until the failure is recorded.  Its call is not awaited.   *)
SendHeartbeat(w) ==
    /\ pc[w] \in {"collecting", "transformed", "failing"}
    /\ renewals' = renewals \union {myRun[w]}
    /\ UNCHANGED <<runVars, dataVars, workerVars>>

(* renewRun checks the status and nothing else.                            *)
RenewRun(r) ==
    /\ r \in renewals
    /\ renewals' = renewals \ {r}
    /\ age' = IF Running(r) THEN [age EXCEPT ![r] = 0] ELSE age
    /\ UNCHANGED <<status, revision, startedAt, processed, isolated, nextRun>>
    /\ UNCHANGED <<dataVars, workerVars>>

LoseHeartbeat(r) ==
    /\ r \in renewals
    /\ renewals' = renewals \ {r}
    /\ UNCHANGED <<runVars, dataVars, workerVars>>

(* The database clock advances.                                            *)
Tick ==
    /\ \E r \in Run : Running(r) /\ LeaseValid(r)
    /\ age' = [r \in Run |-> IF Running(r) /\ LeaseValid(r) THEN age[r] + 1 ELSE age[r]]
    /\ UNCHANGED <<status, revision, startedAt, processed, isolated, nextRun>>
    /\ UNCHANGED <<dataVars, renewals, workerVars>>

(* SIGINT or SIGTERM, or the API aborts a manual sync.  A later signal is  *)
(* not read; an earlier one is noticed before startRun is called, see       *)
(* GiveUpStart, and one that comes while startRun is awaited after it.      *)
Abort(w) ==
    /\ pc[w] \in {"collecting", "transformed"}
    /\ ~aborted[w]
    /\ aborted' = [aborted EXCEPT ![w] = TRUE]
    /\ UNCHANGED <<runVars, dataVars, renewals, pc, local, myRun, myRevision, rejected>>

(* SIGKILL or a crash; a new process takes the worker's place.             *)
Crash(w) ==
    /\ pc[w] \notin {"idle", "reading"}
    /\ Leave(w)
    /\ UNCHANGED <<runVars, dataVars, renewals>>

Call(w) ==
    \/ ReadLatestRun(w)
    \/ ReadCheckpoint(w)
    \/ StartRun(w)
    \/ StartRunUnanswered(w)
    \/ StartRunInterrupted(w)
    \/ RefuseDuplicate(w)
    \/ GiveUpStart(w)
    \/ DeliverBatch(w)
    \/ \E bad \in BOOLEAN : CommitBatch(w, bad) \/ CommitBatchUnanswered(w, bad)
    \/ FailCollection(w)
    \/ ExhaustSource(w)
    \/ FinishRun(w)
    \/ RecordFailure(w)
    \/ LeaveUnfinished(w)

Next ==
    \/ \E w \in Worker : Call(w) \/ SendHeartbeat(w) \/ Abort(w) \/ Crash(w)
    \/ \E r \in Run : RenewRun(r) \/ LoseHeartbeat(r)
    \/ Tick

Spec == Init /\ [][Next]_vars

-----------------------------------------------------------------------------
(* At most one run of the target is running, whatever its revision and even *)
(* when its lease has expired: startRun fails every stale run before it    *)
(* inserts the next one (the unique index on active leases never fires).   *)
OneActiveRun ==
    \A r, q \in Run : Running(r) /\ Running(q) => r = q

(* Once a run has committed a batch, its worker's checkpoint and the stored *)
(* one agree for as long as the run is running, so commitBatch answers     *)
(* CHECKPOINT_CONFLICT to the first batch of a run or never.               *)
OwnerInSync ==
    \A w \in Worker :
        /\ pc[w] \in {"collecting", "transformed", "finishing"}
        /\ Running(myRun[w])
        /\ processed[myRun[w]] > 0
        => checkpoint[myRevision[w]] = local[w]

(* The worker and the database count isolated records separately; when a   *)
(* worker comes to finish its run they agree, so that finishRun never      *)
(* refuses the outcome the worker computed as INVALID_INPUT.               *)
OutcomeAgrees ==
    \A w \in Worker :
        pc[w] = "finishing" => (rejected[w] <=> isolated[myRun[w]])

(* The batches up to the stored checkpoint of a revision were all stored by *)
(* runs of this revision or later ones: no position is skipped, whoever    *)
(* resumes whom and whichever answers are lost.                            *)
NoGapBeforeCheckpoint ==
    \A rev \in Revision : \A b \in Batch :
        checkpoint[rev] # NoCheckpoint /\ b <= checkpoint[rev] =>
            \E r \in Rows : revision[r] = rev /\ r <= lastSeen[b]

(* A completed run leaves every batch of the source stored since the first *)
(* run of its revision.                                                    *)
CompletedMeansStored ==
    \A r \in Run : status[r] \in Completed =>
        \A b \in Batch : \E q \in Rows :
            revision[q] = revision[r] /\ q <= lastSeen[b]

(* A run that lost its lease or was replaced never confirms anything: only *)
(* the newest run, while it is running under a valid lease, changes the    *)
(* checkpoint of its revision, stores a batch, counts or completes.        *)
MayConfirm(r) == r = nextRun - 1 /\ Running(r) /\ LeaseValid(r)

ConfirmedByCurrentRun ==
    /\ \A rev \in Revision : checkpoint'[rev] # checkpoint[rev] =>
            MayConfirm(nextRun - 1) /\ revision[nextRun - 1] = rev
    /\ \A b \in Batch : lastSeen'[b] # lastSeen[b] =>
            MayConfirm(nextRun - 1) /\ lastSeen'[b] = nextRun - 1
    /\ \A r \in Run :
            \/ processed'[r] # processed[r]
            \/ status'[r] \in Completed /\ status[r] # status'[r]
            => MayConfirm(r)

OnlyCurrentRunConfirms == [][ConfirmedByCurrentRun]_vars

(* The records of a newer run are never overwritten by those of an older   *)
(* one.                                                                    *)
NewestDataWins ==
    [][\A b \in Batch : lastSeen'[b] >= lastSeen[b]]_vars

(* success, partial and failed are final: neither a late finishRun, a late *)
(* heartbeat nor the cleanup of a later startRun changes the row again.    *)
TerminalIsFinal ==
    [][\A r \in Run : status[r] \in {"success", "partial", "failed"} =>
            /\ status'[r] = status[r]
            /\ processed'[r] = processed[r]
            /\ isolated'[r] = isolated[r]]_vars

(* A run whose worker has been cancelled does not complete.                *)
CancelledNeverCompletes ==
    [][\A w \in Worker : aborted[w] /\ myRun[w] # NoRun =>
            status'[myRun[w]] \notin Completed]_vars

(* platform-record-storage promises collection "without omission" and that *)
(* after a completed full run the next one starts a new traversal: when a  *)
(* run completes, every batch has been stored since the previous completed *)
(* run of its revision.                                                    *)
CompletedRunTraversesSource ==
    [][\A r \in Run : Running(r) /\ status'[r] \in Completed =>
            \A b \in Batch : \A q \in Rows :
                revision[q] = revision[r] /\ status[q] \in Completed => lastSeen[b] > q]_vars

(* The same document: a run that starts when the latest run of its revision *)
(* has completed is given the null checkpoint.                             *)
NewTraversalAfterCompletion ==
    [][\A w \in Worker :
            /\ myRun[w] = NoRun /\ myRun'[w] # NoRun
            /\ LatestCompleted(myRevision[w], Rows)
            => local'[w] = NoCheckpoint]_vars

-----------------------------------------------------------------------------
(* The runs of a target implement the abstract lease: its holder is the    *)
(* running run, expired or not.                                            *)
Holder == IF \E r \in Run : Running(r) THEN CHOOSE r \in Run : Running(r) ELSE NoRun

Lease == INSTANCE RunLease WITH
    holder <- Holder,
    retired <- {r \in Run : status[r] \notin {"none", "running"}},
    scope <- revision,
    progress <- checkpoint,
    completed <- {revision[r] : r \in {q \in Run : status[q] \in Completed}}

(* Every step of the runners, the storage and the clock is a step of the   *)
(* abstract lease or changes nothing of it.                                *)
ImplementsRunLease == Lease!Spec

-----------------------------------------------------------------------------
(* The inductive invariant.                                                *)

(* Rows are inserted in order and only the last one can be running.        *)
RowsInOrder ==
    /\ \A r \in Run : status[r] = "none" <=> r >= nextRun
    /\ \A r \in Run : Running(r) => r = nextRun - 1
    /\ \A r \in Run : r < nextRun => revision[r] \in Revision
    /\ \A r \in Run : processed[r] > 0 => r < nextRun
    /\ \A b \in Batch : lastSeen[b] < nextRun

(* A worker inside runCollection owns a run of its revision, and owns it   *)
(* alone.                                                                  *)
Ownership ==
    /\ \A w \in Worker : pc[w] # "idle" => myRevision[w] \in Revision
    /\ \A w \in Worker : pc[w] \in Holding =>
            /\ myRun[w] \in Run
            /\ myRun[w] < nextRun
            /\ revision[myRun[w]] = myRevision[w]
    /\ \A w \in Worker : pc[w] \in {"idle", "reading", "loaded"} => myRun[w] = NoRun
    /\ \A w, v \in Worker :
            pc[w] \in Holding /\ pc[v] \in Holding /\ myRun[w] = myRun[v] => w = v
    /\ \A w \in Worker : pc[w] = "transformed" => Following(local[w]) \in Batch

IInv == TypeOK /\ RowsInOrder /\ Ownership /\ OwnerInSync

-----------------------------------------------------------------------------
(* Processes keep being asked to collect (schedules recur), a collector    *)
(* ends or times out, the database clock runs and the database does not    *)
(* refuse every startRun for ever.                                         *)
Fairness ==
    /\ \A w \in Worker : WF_vars(Call(w)) /\ SF_vars(StartRun(w))
    /\ \A r \in Run : WF_vars(RenewRun(r) \/ LoseHeartbeat(r))
    /\ WF_vars(Tick)

FairSpec == Spec /\ Fairness

(* A run does not stay running for ever: its owner finishes it or, when the *)
(* owner died or lost an answer, its lease expires and a later startRun    *)
(* fails it.  The bound leaves no successor for the last row.              *)
RunsEnd ==
    \A r \in Run : r < MaxRuns => (Running(r) ~> ~Running(r))

=============================================================================
