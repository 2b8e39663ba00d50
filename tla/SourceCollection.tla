-------------------------- MODULE SourceCollection --------------------------
(***************************************************************************)
(* One target collected by successive runs from one of the four kinds of    *)
(* source: the offset and single JSON APIs of packages/http-collector, the   *)
(* CSV of packages/http-csv-source and the file of packages/                *)
(* local-csv-source and csv-reader, driven by collectorFor of apps/          *)
(* collector-cli inside runCollection.                                      *)
(*                                                                         *)
(* CollectionCoordination takes the source as a sequence of batches; here   *)
(* the batches are made: requests that fail, are cut off or never answered, *)
(* a stream whose verdict comes after its rows, a file that changes while   *)
(* it is read, rows skipped up to a checkpoint, rows isolated.  Leases and   *)
(* concurrent runs are left to CollectionCoordination.                      *)
(***************************************************************************)
EXTENDS RecordTransform

CONSTANTS
    Kind,           \* subset of the kinds of source
    Content,        \* what the source may hold: sequences of rows
    Oversized,      \* rows over maxRecordBytes
    Unusable,       \* keys of records no storage holds: too long, a NUL in them
    UnusableIssue,  \* malformed rows whose issue it does not hold, as a long path
    NoCheckpoint,   \* the null checkpoint
    Finished,       \* the checkpoint {complete: true} of a single source
    BatchSize,      \* pagination.limit and batching.size
    MaxRuns,        \* bound: runs of the target
    MaxChanges      \* bound: changes of the source

ASSUME KindAssumption == Kind \subseteq {"offset", "single", "httpCsv", "localCsv"}
ASSUME SizeAssumption == BatchSize \in Nat \ {0}
ASSUME BoundAssumption == MaxRuns \in Nat /\ MaxChanges \in Nat
ASSUME ContentAssumption == \A content \in Content : content \in Seq(Row)
ASSUME CheckpointAssumption ==
    NoCheckpoint # Finished /\ NoCheckpoint \notin Nat /\ Finished \notin Nat

Csv == {"httpCsv", "localCsv"}
Http == {"offset", "single", "httpCsv"}
Completed == {"success", "partial"}
NoTotal == -1

(* Codes a source gives up with; how it tells them apart is in the actions. *)
HttpErrorCode == {"http_status", "timeout", "cancelled", "response_too_large",
                  "record_too_large", "invalid_json", "invalid_response",
                  "total_changed", "count_mismatch", "processing", "authentication"}
HttpCsvErrorCode == {"http_status", "timeout", "cancelled", "download_too_large",
                     "csv_too_large", "record_too_large", "incomplete_download",
                     "length_mismatch", "unsupported_encoding", "invalid_compression",
                     "invalid_csv", "processing", "network", "authentication"}
CsvErrorCode == {"FILE_NOT_FOUND", "FILE_ACCESS", "FILE_CHANGED", "CSV_FORMAT", "CSV_LIMIT"}
RunnerErrorCode == {"collection", "storage", "cancelled"}

VARIABLES
    kind,       \* the source's kind
    source,     \* what it holds
    changes,    \* how often that changed
    checkpoint, \* collection_checkpoints
    status,     \* of the latest run
    records,    \* keys of platform_records
    ledger,     \* rows committed since the first batch of the traversal
    begun,      \* changes when that batch was asked for
    runs,       \* runs started
    run         \* the locals of the run under way, see NoRun

worldVars == <<kind, source, changes, runs>>
storeVars == <<checkpoint, status, records, ledger, begun>>
vars == <<worldVars, storeVars, run, transformVars>>

NoBatch == [rows |-> <<>>, start |-> NoCheckpoint, next |-> NoCheckpoint]

NoRun == [
    pc |-> "idle",
    aborted |-> FALSE,          \* has the run's AbortSignal fired?
    timedOut |-> FALSE,         \* has the timer of the request fired?
    cause |-> "none",           \* what the source gave up with
    raised |-> "none",          \* what the runner's batch handler threw
    code |-> "none",            \* what runCollection throws
    local |-> NoCheckpoint,     \* runCollection's checkpoint
    expected |-> NoCheckpoint,  \* collectorFor's expectedCheckpoint
    consumed |-> 0,             \* rows the checkpoint says are stored
    place |-> 0,                \* rows in the earlier batches of this run
    position |-> 0,             \* offset of the next page, or rows read
    total |-> NoTotal,          \* initialTotal
    body |-> <<>>,              \* rows behind the open response or file
    opened |-> 0,               \* changes when it was first asked for, or opened
    verdict |-> "ok",           \* what the end of the download will show
    group |-> <<>>,             \* items of the page, or the batch being filled
    complete |-> FALSE,         \* is it the last of a verified source?
    batch |-> NoBatch,          \* what the runner's handler works on
    bad |-> FALSE]              \* was a row of the run isolated?

Control == {"idle", "opening", "requesting", "reading", "sealing", "delivering",
            "transforming", "committing", "delivered", "finishing", "failing"}

IsCheckpoint(c) == c \in Nat \union {NoCheckpoint, Finished}

TypeOK ==
    /\ kind \in Kind /\ source \in Content
    /\ status \in {"none", "failed"} \union Completed
    /\ IsCheckpoint(checkpoint)
    /\ DOMAIN run = DOMAIN NoRun
    /\ run.pc \in Control
    /\ {run.aborted, run.timedOut, run.complete, run.bad} \subseteq BOOLEAN
    /\ run.cause \in {"none"} \union HttpErrorCode \union HttpCsvErrorCode \union CsvErrorCode
    /\ {run.raised, run.code} \subseteq {"none"} \union RunnerErrorCode
    /\ IsCheckpoint(run.local) /\ IsCheckpoint(run.expected) /\ IsCheckpoint(run.batch.next)
    /\ {run.position, run.consumed, run.place, accepted, issues} \subseteq Nat
    /\ run.total \in Nat \union {NoTotal}
    /\ kind # "single" => Len(run.group) <= BatchSize

-----------------------------------------------------------------------------
Init ==
    /\ kind \in Kind
    /\ source \in Content
    /\ changes = 0
    /\ runs = 0
    /\ checkpoint = NoCheckpoint
    /\ status = "none"
    /\ records = {}
    /\ ledger = <<>>
    /\ begun = 0
    /\ run = NoRun
    /\ NoTransform

(* runCollection is over, or its process is dead.                          *)
Leave ==
    /\ run' = NoRun
    /\ BeginTransform(<<>>)

(* The errors of the sources end in runCollection's normalizeError, which   *)
(* keeps only the runner's own codes.                                      *)
RunnerCode == IF run.aborted THEN "cancelled" ELSE "collection"

Fail(reason, result) ==
    /\ run' = [run EXCEPT !.pc = "failing", !.cause = reason, !.code = result]
    /\ UNCHANGED <<worldVars, storeVars, transformVars>>

Give(reason) == Fail(reason, RunnerCode)

(* What a request that was cut off is put down to: the caller first.       *)
CutOff == IF run.aborted THEN "cancelled" ELSE "timeout"

Goto(label) ==
    /\ run' = [run EXCEPT !.pc = label]
    /\ UNCHANGED <<worldVars, storeVars, transformVars>>

-----------------------------------------------------------------------------
(* The run begins: getCheckpoint, startRun and the start of the collector.  *)

(* Mutant: the checkpoint is taken for the last row that is stored.         *)
NumericNext(c) == IF c = NoCheckpoint THEN 0 ELSE c + 1

(* numericCheckpoint                                                       *)
Numeric(c) == IF c = NoCheckpoint THEN 0 ELSE c

StartRun ==
    /\ run.pc = "idle"
    /\ runs < MaxRuns
    /\ LET from == IF status \in Completed THEN NoCheckpoint ELSE checkpoint
           stored == IF kind = "single" THEN 0 ELSE Numeric(from)
       IN  run' = [NoRun EXCEPT
                    !.pc = IF kind = "single" /\ from # NoCheckpoint
                           THEN "finishing" ELSE "opening",
                    !.local = from,
                    !.expected = from,
                    !.consumed = IF kind \in Csv THEN stored ELSE 0,
                    !.position = IF kind = "offset" THEN stored ELSE 0]
    /\ runs' = runs + 1
    /\ UNCHANGED <<kind, source, changes, storeVars, transformVars>>

(* The environment holds no usable secret for the connection.              *)
AuthenticationFails ==
    /\ run.pc = "opening"
    /\ kind \in Http
    /\ run.total = NoTotal
    /\ Give("authentication")

(* A cancelled run asks for nothing more; otherwise the request goes out,   *)
(* with a timer of its own, or the file is opened.                         *)
OpenSource ==
    /\ run.pc = "opening"
    /\ IF run.aborted
       THEN Give("cancelled")
       ELSE /\ run' = [run EXCEPT !.pc = "requesting", !.timedOut = FALSE]
            /\ UNCHANGED <<worldVars, storeVars, transformVars>>

-----------------------------------------------------------------------------
(* http-collector: fetchJson and what its callers make of the answer.       *)

(* Ways in which fetchJson fails by itself: the status, the body's size,    *)
(* its JSON or the connection.                                             *)
FetchFault == {"http_status", "response_too_large", "invalid_json", "invalid_response"}

FetchFails ==
    /\ run.pc = "requesting"
    /\ kind \in {"offset", "single"}
    /\ \E fault \in FetchFault : Give(fault)

(* The timer or the caller ends a request that is not answered.            *)
RequestCutOff ==
    /\ run.pc = "requesting"
    /\ run.aborted \/ run.timedOut
    /\ Give(IF kind = "localCsv" THEN "cancelled" ELSE CutOff)

(* validateRecords                                                         *)
HasOversized(items) == ToSet(items) \intersect Oversized # {}

(* The page at an offset, as an API with offset and limit serves it.       *)
Page(offset) == SubSeq(source, offset + 1, Min({offset + BatchSize, Len(source)}))

(* collectHttpOffset: an answered page is checked against the first total   *)
(* and delivered, or the collection is over.  The source may also answer    *)
(* with fewer items than its total calls for.                              *)
OffsetAnswered ==
    /\ run.pc = "requesting"
    /\ kind = "offset"
    /\ ~run.aborted /\ ~run.timedOut
    /\ \E items \in {Page(run.position), <<>>} :
        LET first == IF run.total = NoTotal THEN Len(source) ELSE run.total
            due == Min({BatchSize, first - run.position})
            seenAt == IF run.total = NoTotal THEN changes ELSE run.opened
            fault == IF Len(source) # first THEN "total_changed"
                     ELSE IF run.position > first \/ Len(items) # due THEN "count_mismatch"
                     ELSE IF HasOversized(items) THEN "record_too_large"
                     ELSE "none"
        IN  \/ fault # "none" /\ Give(fault)
            \/ fault = "none" /\ run.position = first /\ Goto("finishing")
            \/ /\ fault = "none" /\ run.position # first
               /\ run' = [run EXCEPT !.pc = "delivering", !.total = first, !.opened = seenAt,
                                     !.group = items]
               /\ UNCHANGED <<worldVars, storeVars, transformVars>>

(* collectHttpSingle: everything at once; an empty answer ends it.  A       *)
(* declared metadata path may be missing.                                  *)
SingleAnswered ==
    /\ run.pc = "requesting"
    /\ kind = "single"
    /\ ~run.aborted /\ ~run.timedOut
    /\ \/ Give("invalid_response")
       \/ HasOversized(source) /\ Give("record_too_large")
       \/ ~HasOversized(source) /\ source = <<>> /\ Goto("finishing")
       \/ /\ ~HasOversized(source) /\ source # <<>>
          /\ run' = [run EXCEPT !.pc = "delivering", !.opened = changes, !.group = source]
          /\ UNCHANGED <<worldVars, storeVars, transformVars>>

-----------------------------------------------------------------------------
(* http-csv-source.                                                        *)

(* parseContentLength and decompressor refuse the headers.                 *)
HeaderFault == {"http_status", "length_mismatch", "download_too_large", "unsupported_encoding"}

(* What ends a download early, or shows at its end.                        *)
StreamFault == {"incomplete_download", "invalid_compression", "invalid_csv"}

ResponseRefused ==
    /\ run.pc = "requesting"
    /\ kind = "httpCsv"
    /\ \E fault \in HeaderFault \union {"network"} : Give(fault)

(* The response is open: its rows will be those of the source, or the first *)
(* ones of them before the stream breaks.                                  *)
ResponseOpened ==
    /\ run.pc = "requesting"
    /\ kind = "httpCsv"
    /\ ~run.aborted /\ ~run.timedOut
    /\ \E fault \in StreamFault \union {"ok"}, length \in 0..Len(source) :
        /\ fault = "ok" => length = Len(source)
        /\ run' = [run EXCEPT !.pc = "reading", !.verdict = fault, !.opened = changes,
                              !.body = SubSeq(source, 1, length)]
    /\ UNCHANGED <<worldVars, storeVars, transformVars>>

(* The stream fails while rows are awaited; normalizeFailure names the      *)
(* cause, the caller's signal first, then the timer.                       *)
StreamFails ==
    /\ run.pc \in {"reading", "sealing"}
    /\ kind = "httpCsv"
    /\ \/ run.aborted \/ run.timedOut
       \/ run.verdict # "ok" /\ run.position = Len(run.body)
    /\ Give(IF run.aborted \/ run.timedOut THEN CutOff ELSE run.verdict)

(* transportDone is awaited before the last batch is delivered.            *)
DownloadVerified ==
    /\ run.pc = "sealing"
    /\ kind = "httpCsv"
    /\ run.verdict = "ok"
    /\ run' = [run EXCEPT !.pc = "delivering", !.complete = TRUE]
    /\ UNCHANGED <<worldVars, storeVars, transformVars>>

-----------------------------------------------------------------------------
(* csv-reader and local-csv-source.                                        *)

FileRefused ==
    /\ run.pc = "requesting"
    /\ kind = "localCsv"
    /\ \E fault \in {"FILE_NOT_FOUND", "FILE_ACCESS", "CSV_LIMIT"} : Give(fault)

FileOpened ==
    /\ run.pc = "requesting"
    /\ kind = "localCsv"
    /\ ~run.aborted
    /\ run' = [run EXCEPT !.pc = "reading", !.opened = changes, !.body = source]
    /\ UNCHANGED <<worldVars, storeVars, transformVars>>

(* A row that is no CSV, or not of the header's width.                     *)
MalformedRow ==
    /\ run.pc = "reading"
    /\ kind = "localCsv"
    /\ run.position < Len(run.body)
    /\ Give("CSV_FORMAT")

(* Both CSV sources take the parser's limit for a record.                  *)
RowTooLarge ==
    /\ run.pc = "reading"
    /\ kind \in Csv
    /\ ~run.aborted /\ ~run.timedOut
    /\ run.position < Len(run.body)
    /\ run.body[run.position + 1] \in Oversized
    /\ Give(IF kind = "httpCsv" THEN "record_too_large" ELSE "CSV_LIMIT")

(* collectLocalCsv looks at the signal before and after each row.          *)
ReadAborted ==
    /\ run.pc \in {"reading", "sealing"}
    /\ kind = "localCsv"
    /\ run.aborted
    /\ Give("cancelled")

(* Mutant: the end of the rows is the end of the read.                      *)
FileTrusted ==
    /\ run.pc = "sealing"
    /\ kind = "localCsv"
    /\ ~run.aborted
    /\ run' = [run EXCEPT !.pc = "delivering", !.complete = TRUE]
    /\ UNCHANGED <<worldVars, storeVars, transformVars>>

(* The end of readCsvFile: the file read and the file at the path still     *)
(* are the file that was opened.                                           *)
FileVerified ==
    /\ run.pc = "sealing"
    /\ kind = "localCsv"
    /\ ~run.aborted
    /\ IF run.opened # changes
       THEN Give("FILE_CHANGED")
       ELSE /\ run' = [run EXCEPT !.pc = "delivering", !.complete = TRUE]
            /\ UNCHANGED <<worldVars, storeVars, transformVars>>

(* The file is written to, or another one takes its place.                 *)
SourceChanges ==
    /\ changes < MaxChanges
    /\ changes' = changes + 1
    /\ source' \in Content \ {source}
    /\ IF kind = "localCsv" /\ run.body # <<>> /\ ~run.complete
       THEN \E inPlace \in BOOLEAN :
                run' = [run EXCEPT !.body = IF inPlace THEN source' ELSE @]
       ELSE UNCHANGED run
    /\ UNCHANGED <<kind, runs, storeVars, transformVars>>

-----------------------------------------------------------------------------
(* The parser has a row after those that were read.                        *)
RowAhead ==
    /\ run.pc = "reading"
    /\ run.position < Len(run.body)
    /\ run.body[run.position + 1] \notin Oversized

TakeRow ==
    /\ run' = [run EXCEPT !.position = @ + 1,
                          !.group = Append(@, run.body[run.position + 1])]
    /\ UNCHANGED <<worldVars, storeVars, transformVars>>

(* Rows are read one ahead, so that the batch that ends with the last row   *)
(* is known to be the last.                                                *)
ReadRow ==
    /\ RowAhead
    /\ kind = "localCsv" => ~run.aborted
    /\ Len(run.group) < BatchSize
    /\ TakeRow

(* The batch is full and there is a row after it.                          *)
BatchFull ==
    /\ RowAhead
    /\ Len(run.group) = BatchSize
    /\ Goto("delivering")

(* The row iterator is done.                                               *)
RowsExhausted ==
    /\ run.pc = "reading"
    /\ run.position >= Len(run.body)
    /\ Goto("sealing")

-----------------------------------------------------------------------------
(* collectorFor: what a batch of the source becomes for the runner.         *)

Skipped == kind \in Csv /\ run.place + Len(run.group) <= run.consumed

BatchOf(group) ==
    CASE kind = "offset" ->
            [rows |-> group, start |-> run.expected, next |-> run.position + Len(group)]
      [] kind = "single" ->
            [rows |-> group, start |-> NoCheckpoint, next |-> Finished]
      [] OTHER ->
            LET rest == SubSeq(group, Max({0, run.consumed - run.place}) + 1, Len(group))
            IN  [rows |-> rest, start |-> run.expected, next |-> run.consumed + Len(rest)]

(* The handler throws, before or after its storage call.  Local CSV passes  *)
(* that on; the HTTP sources put an error of their own in its place.        *)
HandlerFails(error) ==
    /\ run' = [run EXCEPT
                !.pc = "failing",
                !.raised = error,
                !.cause = IF kind = "localCsv" THEN "none"
                          ELSE IF run.aborted THEN "cancelled"
                          ELSE IF kind = "httpCsv" /\ run.timedOut THEN "timeout"
                          ELSE "processing",
                !.code = IF kind = "localCsv" THEN error ELSE RunnerCode]
    /\ UNCHANGED <<worldVars, transformVars>>

Deliver ==
    /\ run.pc = "delivering"
    /\ LET next == BatchOf(run.group)
       IN  CASE Skipped ->
                    /\ run' = [run EXCEPT !.pc = "delivered", !.place = @ + Len(run.group)]
                    /\ UNCHANGED <<worldVars, storeVars, transformVars>>
             [] ~Skipped /\ run.aborted -> HandlerFails("cancelled") /\ UNCHANGED storeVars
             [] ~Skipped /\ ~run.aborted /\ next.start # run.local ->
                    HandlerFails("collection") /\ UNCHANGED storeVars
             [] OTHER ->
                    /\ run' = [run EXCEPT !.pc = "transforming", !.batch = next]
                    /\ BeginTransform(next.rows)
                    /\ UNCHANGED <<worldVars, storeVars>>

-----------------------------------------------------------------------------
(* The runner's handler: processRecords, then commitBatch.                 *)

Transform ==
    /\ run.pc = "transforming"
    /\ ~run.aborted
    /\ TransformRow
    /\ UNCHANGED <<worldVars, storeVars, run>>

(* The signal fired while the transform ran, and it threw.                 *)
TransformThrows ==
    /\ run.pc = "transforming"
    /\ run.aborted
    /\ TransformInterrupted
    /\ UNCHANGED <<worldVars, storeVars, run>>

Transformed ==
    /\ run.pc = "transforming"
    /\ EndTransform
    /\ run' = [run EXCEPT !.pc = "committing"]
    /\ UNCHANGED <<worldVars, storeVars>>

HandlerAborted ==
    /\ run.pc \in {"transforming", "committing"}
    /\ run.aborted
    /\ HandlerFails("cancelled")
    /\ UNCHANGED storeVars

(* validateCommitBatch and resolveRecordId: every key and issue can be held, *)
(* no key comes twice, and both ends of a relation are records, of this batch *)
(* or of an earlier one.  Here a number and its digits are two keys.         *)
Storable ==
    /\ (ToSet(HandedKeys) \union HandedEnds) \intersect Unusable = {}
    /\ ToSet(run.batch.rows) \intersect UnusableIssue = {}
    /\ IsInjective(HandedKeys)
    /\ HandedEnds \subseteq records \union ToSet(HandedKeys)

Stored ==
    /\ Storable
    /\ checkpoint' = run.batch.next
    /\ records' = records \union ToSet(HandedKeys)
    /\ IF run.batch.start = NoCheckpoint
       THEN ledger' = run.batch.rows /\ begun' = run.opened
       ELSE ledger' = ledger \o run.batch.rows /\ UNCHANGED begun
    /\ UNCHANGED status

(* Mutant: collectorFor keeps the checkpoint it started from.              *)
CommitForgotten ==
    /\ run.pc = "committing"
    /\ ~run.aborted
    /\ Stored
    /\ run' = [run EXCEPT
                !.pc = "delivered",
                !.local = run.batch.next,
                !.consumed = IF kind \in Csv THEN run.batch.next ELSE @,
                !.place = @ + Len(run.group),
                !.bad = @ \/ issues > 0]
    /\ UNCHANGED <<worldVars, transformVars>>

(* commitBatch is answered; a signal that fired meanwhile is seen then.     *)
CommitBatch ==
    /\ run.pc = "committing"
    /\ ~run.aborted
    /\ Stored
    /\ run' = [run EXCEPT
                !.pc = "delivered",
                !.local = run.batch.next,
                !.expected = run.batch.next,
                !.consumed = IF kind \in Csv THEN run.batch.next ELSE @,
                !.place = @ + Len(run.group),
                !.bad = @ \/ issues > 0]
    /\ UNCHANGED <<worldVars, transformVars>>

(* commitBatch is refused or fails, or it is stored and the answer is lost.  *)
CommitFails ==
    /\ run.pc = "committing"
    /\ ~run.aborted
    /\ HandlerFails("storage")
    /\ UNCHANGED storeVars \/ Stored

(* Back in the collector, after the handler.                               *)
AfterBatch ==
    /\ run.pc = "delivered"
    /\ LET last == CASE kind = "offset" -> run.position + Len(run.group) = run.total
                     [] kind = "single" -> TRUE
                     [] OTHER -> run.complete
       IN  CASE run.aborted /\ kind \in Http -> Give("cancelled")
             [] kind = "httpCsv" /\ run.timedOut /\ ~run.aborted -> Give("timeout")
             [] OTHER ->
                /\ run' = [run EXCEPT
                        !.pc = IF last THEN "finishing"
                               ELSE IF kind \in Csv THEN "reading" ELSE "opening",
                        !.position = IF kind = "offset" THEN @ + Len(run.group) ELSE @,
                        !.group = <<>>]
                /\ UNCHANGED <<worldVars, storeVars, transformVars>>

-----------------------------------------------------------------------------
(* The end of the run.                                                     *)

(* The collector returned: finishRun(success or partial) unless cancelled.  *)
FinishRun ==
    /\ run.pc = "finishing"
    /\ IF run.aborted
       THEN Fail("none", "cancelled")
       ELSE /\ status' = IF run.bad THEN "partial" ELSE "success"
            /\ Leave
            /\ UNCHANGED <<worldVars, checkpoint, records, ledger, begun>>

(* finishRun(failed), or the process dies and the lease expires.           *)
RecordFailure ==
    /\ run.pc = "failing"
    /\ status' = "failed"
    /\ Leave
    /\ UNCHANGED <<worldVars, checkpoint, records, ledger, begun>>

Crash ==
    /\ run.pc \notin {"idle", "failing"}
    /\ status' = "failed"
    /\ Leave
    /\ UNCHANGED <<worldVars, checkpoint, records, ledger, begun>>

Abort ==
    /\ run.pc \notin {"idle", "failing"}
    /\ ~run.aborted
    /\ run' = [run EXCEPT !.aborted = TRUE]
    /\ UNCHANGED <<worldVars, storeVars, transformVars>>

(* Mutant: only downloads have a timer.                                    *)
TimerOfDownload ==
    /\ kind = "httpCsv"
    /\ run.pc \in {"requesting", "reading", "sealing", "delivering", "transforming",
                   "committing", "delivered"}

(* A JSON request has a timer until it is answered, a CSV download until    *)
(* the last of its batches is stored.                                      *)
TimerArmed ==
    \/ kind \in {"offset", "single"} /\ run.pc = "requesting"
    \/ /\ kind = "httpCsv"
       /\ run.pc \in {"requesting", "reading", "sealing", "delivering", "transforming",
                      "committing", "delivered"}

Timeout ==
    /\ TimerArmed
    /\ ~run.timedOut
    /\ run' = [run EXCEPT !.timedOut = TRUE]
    /\ UNCHANGED <<worldVars, storeVars, transformVars>>

-----------------------------------------------------------------------------
(* Steps the process itself takes, whatever the source does.               *)
Proceed ==
    \/ AuthenticationFails \/ OpenSource \/ RequestCutOff
    \/ StreamFails \/ DownloadVerified
    \/ ReadAborted \/ FileVerified \/ RowsExhausted
    \/ Deliver
    \/ Transform \/ TransformThrows \/ Transformed \/ HandlerAborted
    \/ CommitBatch \/ CommitFails
    \/ AfterBatch \/ FinishRun \/ RecordFailure

(* Answers of the source, which may not come; a local file always answers.  *)
Answer ==
    \/ FetchFails \/ OffsetAnswered \/ SingleAnswered
    \/ ResponseRefused \/ ResponseOpened
    \/ FileRefused \/ FileOpened \/ MalformedRow \/ RowTooLarge \/ ReadRow \/ BatchFull

Next ==
    \/ StartRun
    \/ Proceed
    \/ Answer
    \/ SourceChanges \/ Crash \/ Abort \/ Timeout

Spec == Init /\ [][Next]_vars

(* Timers fire, files are read, storage calls and transforms return.  No    *)
(* fairness for the answers of a server.                                   *)
FairSpec ==
    /\ Spec
    /\ WF_vars(Proceed)
    /\ WF_vars(Timeout)
    /\ WF_vars(kind = "localCsv" /\ Answer)

-----------------------------------------------------------------------------
(* While the source stays as it was when the traversal began, the rows      *)
(* committed are its first rows, in order and each once, over any number of  *)
(* failed, cancelled and resumed runs, and all of them once a run completed: *)
(* collectorFor neither skips a row nor commits one twice, whatever part of  *)
(* a batch the checkpoint covers.                                          *)
TraversalIsExact ==
    begun = changes =>
        /\ IsPrefix(ledger, source)
        /\ status \in Completed /\ run.pc = "idle" => ledger = source

(* A CSV collection only completes on one whole content: the rows committed  *)
(* since it was opened are exactly the rows of the download that proved       *)
(* complete, or of the file that proved unchanged.                          *)
OneSnapshot ==
    run.pc = "finishing" /\ kind \in Csv /\ begun = run.opened =>
        /\ run.verdict = "ok"
        /\ ledger = run.body

(* The keys the output of a row names, of records and of relation ends.      *)
KeysOf(row) ==
    ToSet(Output[row].keys) \union UNION {ToSet(link) : link \in ToSet(Output[row].links)}

(* Rows whose transform writes each key in one way, as a number or as a      *)
(* string, and makes nothing of them that no storage holds.                 *)
Regular(rows) ==
    LET keys == UNION {KeysOf(row) : row \in rows}
    IN  /\ \A k, l \in keys : Scoped(k) = Scoped(l) => k = l
        /\ keys \intersect Unusable = {}
        /\ rows \intersect UnusableIssue = {}

(* What processRecords leaves for one commitBatch belongs together: no text   *)
(* of a key twice, the text of both ends of every relation among those of its *)
(* records, every row counted as accepted or isolated, and whatever is there  *)
(* comes from a row of which everything is there.  The storage tells numbers  *)
(* from their digits, which the texts do not; it takes the batch whenever the *)
(* transform keeps to one way of writing each key, whatever else it returns.  *)
CommitIsSelfContained ==
    run.pc = "committing" =>
        LET keys == ToSet(HandedKeys)
            links == ToSet(HandedLinks)
            rows == ToSet(run.batch.rows)
        IN  /\ IsInjective(Texts(HandedKeys))
            /\ \A end \in HandedEnds : \E key \in keys : Scoped(end) = Scoped(key)
            /\ accepted + issues = Len(run.batch.rows)
            /\ \A key \in keys : \E row \in rows :
                    key \in ToSet(Output[row].keys) /\ TakenWhole(row)
            /\ \A link \in links : \E row \in rows :
                    link \in ToSet(Output[row].links) /\ TakenWhole(row)
            /\ Regular(rows) => Storable

(* docs/platform-db.md:187: the number 1 and the string "1" are two keys; and *)
(* openspec/specs/plugin-transform-runtime/spec.md:79: no incomplete relation *)
(* reaches the storage boundary.  So every end of a relation handed to        *)
(* commitBatch is a key of a record it comes with.                          *)
LinksMeetRecords ==
    run.pc = "committing" => HandedEnds \subseteq ToSet(HandedKeys)

(* The runner never refuses a batch of collectorFor for its start            *)
(* checkpoint.                                                             *)
BatchesChain == run.raised # "collection"

(* Every run ends, answered or not: JSON requests and CSV downloads have      *)
(* timers, files end.                                                      *)
CollectionEnds == run.pc # "idle" ~> run.pc = "idle"

(* docs/collection-runner.md:51: a runner error returned by the handler is    *)
(* passed on as it is, neither wrapped nor replaced by an error of the        *)
(* source.  The HTTP collectors wrap it.                                    *)
RunnerErrorsKept ==
    run.pc = "failing" /\ run.raised # "none" => run.code = run.raised

(* docs/plugin-development.md:250: the input of the consumer is at most 100   *)
(* records or 1 MiB.  Outputs of relations alone are not handed over first.   *)
BatchWithinLimits ==
    \A i \in DOMAIN handed :
        Len(handed[i].keys) <= RecordLimit /\ handed[i].bytes <= ByteLimit

=============================================================================
