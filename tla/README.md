# A TLA+ model of the collection platform

The repository is a small data platform. Plugins describe a *source* (an HTTP
API, a CSV file, a live PostgreSQL table), the records it has and how they are
transformed. *Collectors* read a source in batches and store its records in a
platform database (PostgreSQL or MySQL); an API serves them to a web client. A
collection is started from the command line, when the API starts, every day at a
given time, or by a button in the client, and several processes and several
revisions of the configuration may do so at once against one database. Operators
install and update the whole as an offline bundle.

This directory holds TLA+ modules of those parts whose correctness depends on the
order of things: who may write under a lease, which rows of a source a resumed
run still has to store, what a crash leaves behind, what a shutdown waits for,
what a late answer may still change. TLC checks them on small instances; TLAPS
proves the main results for every value of the constants. `PROJECT.json` lists
components, runs, mutants, findings, hazards and theorems, and maps every
definition to the lines it models.

    tlc -workers 2 -config SourceRows.cfg MCSourceCollection.tla
    tlapm CollectionCoordinationProofs.tla


## 1. Inventory

Paths are below `packages/`, `apps/` or the root of the repository.

| part | state | operations | hard because |
|---|---|---|---|
| **Collection runner** `collection-engine/src/runner.ts` | local variables of `runCollection`: checkpoint, run id, counters, heartbeat timer, abort signal | read the checkpoint, start a run, renew it on a timer, transform and commit batches, finish or record a failure | each storage call is a point where the process may die, the answer may be lost, the lease may expire, or a signal may come; the heartbeat is not awaited |
| **Record storage** `platform-db/src/{postgres,mysql}-storage.ts` | tables `collection_runs`, `collection_checkpoints`, records and issues | `getCheckpoint`, `startRun`, `renewRun`, `commitBatch`, `finishRun`, `recordScheduledDuplicate` | several writers, two databases with different atomicity, ordering by the clocks of the writers |
| **Record transformation** `collection-engine/src/index.ts` | keys seen, records buffered, counters of one batch | `processRecords` | what is isolated must leave nothing behind; keys and relations are checked across rows; four limits |
| **HTTP collector** `http-collector` | offset, first total, timer of a request | `collectHttpOffset`, `collectHttpSingle` | requests that fail, hang or lie about the total; a source that changes between two pages |
| **CSV sources** `http-csv-source`, `local-csv-source`, `csv-reader` | rows read, the batch being filled, the verdict of the stream, the identity of the file | `collectHttpCsv`, `collectLocalCsv`, `readCsvFile` | rows are delivered before the download or the file has proved whole; rows are skipped by number on resumption |
| **Collector CLI** `collector-cli` | the checkpoint it expects next | `executeManualCollection`, `collectorFor`, exit codes, signals, the event for the parent | it joins collectors and runner, and is the child of the triggers |
| **Scheduled collection** `api/src/scheduled-collection.ts`, `collection-schedule.ts` | timer, due instant, children, pending results, closing | `start`, `wake`, a child's close, `close` | late timers, children that close late or never, a shutdown at any moment |
| **Startup collection, API lifecycle** `api/src/{startup-collection,main,app.module}.ts` | startup children, closing, the connection | `bootstrap`, `start`, `close`, `onApplicationShutdown` | a signal beside the bootstrap; an order of closing; a wait with no limit |
| **Manual synchronisation** `api/src/manual-sync.ts` | maps of requests, active requests, abort controllers, ended requests | `capability`, `start`, `run`, `prune`, `get`, shutdown | decisions taken before an await; other processes hold the lease |
| **Plugin configuration** `plugin-config/src/index.ts`, `source-loaders` | what was read so far, the errors | `validateRepository`, `preflightConfiguration` | the files are edited while they are read one by one; an error stops a plugin and not the rest |
| **Transform snapshot** `plugin-config/src/transform-snapshot.ts` | the module cache of a process | digest, capture, verification | the configuration of the API, of its children and on the disk may be three different ones |
| **Live query** `api/src/live-query.ts` | result cache, its bytes, pending queries, pools | `list`, `detail`, `close` | shared promises that fail, two cache limits, a source that changes between two queries |
| **Login** `api/src/{login-rate-limit,auth.service}.ts` | buckets of attempts by address and by login | `reserve`, `commit`, `release`, `success`, `prune` | an attempt settles when its window is over |
| **LDAP authenticator** `api/src/ldap-authenticator.ts` | connection of one request | TLS, bind, search, bind, unbind | any step fails, and the reserved attempt must be settled as what it was |
| **Sessions** `api/src/auth-session.ts`, `auth.guard.ts`, `auth.controller.ts`, `platform-db/src/sessions.ts` | table of sessions, cookie | create, find, revoke and clean up | lookups overlap logouts and expiry |
| **Record query** `platform-db/src/*query*.ts`, `*-sql.ts` | none | pages by number and cursor, filters, sorting | SQL built from conditions |
| **Web client** `web/src` | state of `RecordListSession`, effects and their dependencies, `AuthShell` | search, filter, sort, pages, retry, synchronise, poll; log in and out | handlers and effects see the state as it was rendered; answers come in any order |
| **Migrations** `platform-db/src/migrations.ts` | table of versions, the schema, an advisory lock | `runPostgresMigrations`, `runMysqlMigrations` | two runners; a session that outlives its client; DDL that commits implicitly |
| **Database connections** `platform-db/src/{postgres,mysql}.ts` | pool | connect, query, transaction, close | abandoned queries |
| **Offline bundle scripts** `release/bundle` | the file `migration-started`, containers, backup | `install.sh`, `update.sh`, `rollback.sh` | a script may be killed anywhere, and leaves its container |
| **Read-only endpoints** `api/src` | the frozen registry | health, plugins, menus, status | — |
| **Mock API, plugins, scripts, build tooling** | none | — | outside the running system |

How they interact. The three triggers inside the API, and every CLI, end in
`executeManualCollection` and `runCollection`: `collectorFor` hands the batches of
a source to the runner, the runner transforms them and talks only to the record
storage. The lease in `collection_runs` is the only thing that coordinates
processes; the checkpoint is the only thing a run learns of the one before.
Startup and scheduled collections are child processes, reached by signals, by a
snapshot of the definition on the standard input of a scheduled one, and by one
line on their standard output; a manual synchronisation runs inside the API
process, shares its module cache and is reached by an `AbortSignal`. The shutdown
hook closes scheduler, startup children, live pools and the connection, one after
the other; manual synchronisations have a hook of their own that waits for
nothing. The browser knows of all this a list, a capability and the status of a
run it polls. Migrations run before the services, in a container that a bundle
script starts.

What makes each part correct:

* runner and storage — at most one run of a target runs; a run that lost its
  lease confirms nothing; no batch is skipped whoever resumes whom; worker and
  storage agree on the outcome; a running row does not stay for ever;
* collectors — over any number of failed and resumed runs the rows stored are those of
  the source, in order and each once; a CSV completes on one whole content;
  every run ends, whether the source answers or not;
* transformation — what is handed over for a commit belongs together, and can be stored
  if the plugin writes each key in one way;
* configuration — taken whole or not at all; a scheduled collection runs what the
  API captured; a parent understands the result of its child;
* scheduler and lifecycle — one child per target and instant; nothing is alive and
  untold at the end; no result reaches a closed connection; every shutdown ends;
* manual synchronisation — requests, controllers and marks do not leak; a result
  stays until it is old or pushed out;
* live query — one query per key; total and page agree; the cache keeps its limits;
* login and sessions — counters and reservations are exact; a bound on what is
  admitted in any window and on memory; a logout is final; an attempt settles as
  what it was; only dead sessions are deleted;
* web list — rows appear only under what they were asked for with; a list at rest
  shows the data of the last run it saw; busy means that something is under way; a
  run shown as running is polled;
* migrations and bundle — the history is true; nothing recorded runs again; a
  release is started over its own schema only.


## 2. Modules

| module | models | code it follows |
|---|---|---|
| `CollectionCoordination` | `runCollection` in several processes against the storage | `runner.ts` 77–203, `postgres-storage.ts` 71–232, `mysql-storage.ts` 69–260 |
| `RunLease` | the abstract lease that `CollectionCoordination` implements | — |
| `RecordTransform` | `processRecords` | `collection-engine/src/index.ts` 62–187 |
| `SourceCollection` | the four kinds of source under `collectorFor` and `runCollection`; EXTENDS `RecordTransform` | `http-collector`, `http-csv-source`, `local-csv-source`, `csv-reader`, `collector-cli/src/index.ts` 192–257 |
| `ScheduledCollection` | `ScheduledCollectionManager` | `scheduled-collection.ts` 80–265 |
| `ApiLifecycle` | bootstrap, startup children and shutdown; EXTENDS `ScheduledCollection` and takes its steps | `main.ts` 46–60, `startup-collection.ts` 28–63, `app.module.ts` 21–29 |
| `ManualSync` | `ManualSyncManager`, the collection it runs, the running row | `manual-sync.ts` 39–117, `collector-cli/src/index.ts` 299–345 |
| `PluginConfiguration` | `validateRepository` | `plugin-config/src/index.ts` 58–666, `source-loaders` |
| `PluginRuntime` | the API and its collections on a directory that is edited; EXTENDS `PluginConfiguration` | `plugin-config/src/{index,transform-snapshot}.ts`, `plugin-runtime-registry.ts`, `collector-cli/src/index.ts` 36–436 |
| `LiveQuery` | `LiveQueryManager.list` of a cached source | `live-query.ts` 16–156 |
| `LoginRateLimiter` | the limiter under `AuthService.login` | `login-rate-limit.ts` 3–119, `auth.service.ts` 31–51 |
| `AuthSessions` | login, session lookup and logout from the browser to the table | `auth-shell.tsx`, `auth.guard.ts`, `auth.controller.ts`, `auth.service.ts` 31–65, `ldap-authenticator.ts` 60–137, `sessions.ts` 44–83 |
| `RecordList` | `RecordListSession`, its search, requests, polls and effects | `record-list.tsx` 65–289, `record-search.tsx` 35–119, `manual-sync.ts` 24–45 |
| `Migrations` | both migration runners under `migrate-cli` | `migrations.ts` 9–112 |
| `BundleUpdate` | the bundle scripts around them; EXTENDS `Migrations` | `release/bundle/lib.sh` 4–78 |

A module `XProofs` holds theorems about `X` and their proofs (`ApiProofs` those
about `ApiLifecycle`, `ScheduledCollection` and `PluginRuntime`, `LoginProofs` those
about `LoginRateLimiter` and `AuthSessions`, `BundleUpdateProofs` also those about
`Migrations`). Each `MC…` module gives names to the values TLC needs. An operator
whose comment begins with "Mutant:" is a plausible error in the operator after it;
it belongs to no behaviour and shows, put in the other's place, that a property
can fail.

### CollectionCoordination

One target: a plugin, a source and the full scope. Variables of the first group are
columns (`status`, `revision`, `startedAt`, `age`, `processed`, `isolated`) and
tables (`checkpoint`, `lastSeen`), those of the second the local variables of
`runCollection` in each worker. `pc[w]` is the storage call that comes next:

    idle --ReadLatestRun--> reading --ReadCheckpoint--> loaded --StartRun--> collecting
                       \--- the latest run completed ---/
    collecting --DeliverBatch--> transformed --CommitBatch--> collecting
    collecting --ExhaustSource--> finishing --FinishRun--> idle
    collecting, transformed --FailCollection--> failing --RecordFailure--> idle

* Every storage call that writes is a transaction and one action; its `…Unanswered` form
  commits and loses the answer. `getCheckpoint` is two queries without a transaction: what
  others store or finish in between is seen by the second only. On MySQL `startRun` is no transaction: it
  fails the expired runs and inserts in two statements under a named lock, and
  `StartRunInterrupted` is the first without the second.
* `Crash` forgets the worker and leaves the rows. `renewals` are calls of
  `renewRun` that nobody waits for; they arrive in any later state or never.
* The lease is two minutes of the database clock, `LeaseTicks` ticks; `age` counts
  since `heartbeat_at` and is kept at 0 on rows that do not run, where nothing
  reads it. Both adapters compare with the time at which the transaction began;
  a transaction being one action, that is the time of the action.
* `started_at` comes from the clock of the worker, ties are broken by a random id.
  `startedAt` is the place of a row in that order: twice its number on time, less
  `ClockSkew` (odd, so that there are no ties) when its worker's clock lags.
* Batch `b` is followed by checkpoint `b`. Whether records of a batch are isolated
  is a choice (`bad`). `lastSeen` is the run that last wrote the records of a
  batch.
* Whatever stops a run before `startRun` is called (a query of `getCheckpoint` that fails, a
  death, a signal) changes nothing that others see, and is `GiveUpStart`. A signal
  that comes while `startRun` is awaited is read by the first check after it, one that comes
  while `finishRun` is awaited by none.

### RecordTransform and SourceCollection

`CollectionCoordination` takes the source as a sequence of batches. Here the
batches are made. `source` is a sequence of rows that changes at most `MaxChanges`
times; `Output[row]` is what the plugin's transform makes of a row. `run` holds the
locals of the run under way: those of the collector (`position`, `total`, `body`,
`verdict`, `group`), of `collectorFor` (`expected`, `consumed`, `place`) and of the
runner (`local`, `batch`, `bad`). The ledger is a history variable: the rows
committed since the first batch of the traversal, and `begun` the age of the
source at that time.

    opening -> requesting -> delivering -> transforming -> committing -> delivered
                  |  (JSON)     ^                                         |
                  v             |                                         v
               reading  --> BatchFull, or sealing at the end   opening / reading / finishing

* A request fails in one of the ways of `FetchFault`, `HeaderFault`, `StreamFault`;
  which bytes make it fail is left out. A response opens with its verdict decided
  and hidden: the rows may all be there before the stream turns out to be broken,
  as `collectHttpCsv` awaits `transportDone` only before its last batch.
* A local file is edited in place (the rows still to be read change) or replaced
  (they do not); `FileVerified` is the comparison of both identities at the end of
  `readCsvFile`.
* `BatchOf` is `collectorFor`: CSV rows are skipped up to the number in the
  checkpoint, which may cut a batch in two; a single source has the checkpoint
  `{complete: true}`.
* An error of the runner's handler is replaced by the HTTP collectors
  (`HandlerFails`), and `normalizeError` keeps only the runner's own codes.
* The timer of a JSON request covers the request, that of a download everything until
  its last batch is stored. `Timeout` may come before the time for which it stands,
  never after.
* `RecordTransform` has the rows of one batch in `todo`; a step takes a row whole,
  isolates it whole, or hands the buffer over first when it does not fit. Fields
  that do not fit the declarations are the one fact `malformed`. A buffer without records
  and relations is not handed over, and keeps its bytes.
* A key is a pair of a text and a kind. `processRecords` compares the text
  `type:String(key)` (`Scoped`), the storage the pair: the number 1 and the string
  "1" are two records. `seen` has texts, as in the code. `Unusable` are keys that are too long
  or hold a NUL, which nothing checks before the storage does, and `UnusableIssue` rows whose issue
  is too long to be stored. `Storable` is what `commitBatch` asks of a whole batch: keys
  and issues that it can hold, no key twice, and each end of a relation a record of the
  batch or stored before. It refuses any other batch, and the run fails.
* `HandedKeys` and `HandedLinks` are what was handed over, by batch and place in it.
  `CommitIsSelfContained` says of them, when they are about to be committed, that no text of a
  key occurs twice, that the texts of both ends of every relation are among those of the keys,
  that every row was accepted or isolated, and that whatever is there comes from a row of which
  everything is there. They are `Storable` if the transform is `Regular`: it writes each
  key either as a number or as a string, and nothing the storage cannot hold.
* One run at a time and a storage that fails, refuses or loses answers: leases and
  competing runs are the subject of the other module.

### ScheduledCollection and ApiLifecycle

A child is the n-th process of a target; `process` is what the operating system
knows of it, `children` and `listening` what the manager does. The instants of the
calendar are a given set: `NextInstant` is `nextScheduledInstant`. The timer's
cap of twelve hours, which re-arms it without effect, is a stutter. A result matters
when it parses as a duplicate that must be stored; all others are only logged. A
child may survive SIGKILL (stuck in the kernel) and its close event may never come.
`close()` is called once, by the shutdown hook.

`ApiLifecycle` adds the process around it. A signal may come while `listen` is
awaited; the rest of `bootstrap` then runs beside the shutdown, which is why
`start` of both managers looks at `closing`. `SpawnStartup` and `CloseStartup` are
`StartupCollectionManager`. A second `app.close()` while the first runs, and the
end of the process after `done`, are not modelled.

### ManualSync

`caller` is a POST between its awaits: `asked` (the record query is under way),
`read` (its answer is there and the last success is queried), `decided`. For a
plugin without a menu there is no query, and `Post` decides at once. In either case what was
decided is awaited (`manual-sync.ts:89`) before `Accept` makes the entry, and is not looked at
again: two POSTs that are dispatched together are both accepted, and the lease fails the
second. A plugin has one collection definition. `row` is the
running row of the target, which other processes use too; that its lease has
expired is in the model and not in what the code sees. The answer "latest run" is
abstracted to the running row: there is at most one, and it is the latest
(`RowsInOrder` of the core), unless clocks disagree. Shutdown aborts the requests
and waits for nothing, so it is `Restart`; an abort is also one of the reasons of
`FailToStart` and `FailCollecting`.

### PluginConfiguration and PluginRuntime

`NewLoad` holds the locals of `validateRepository`. It reads the connections, the
registry, each plugin, and says at the end what does not fit between them; an error
stops the file it is about, and the load goes on to find more. What is wrong
inside a file is a member of a set of faults, grouped by the point at which the
loader complains, since that decides what it looks at next.

`PluginRuntime` runs that load in the API, in every startup child, and again in the
API for each manual run, on a `disk` that `EditFiles` replaces between any two
reads. `ReadTransform` takes bytes and digest, `LoadModule` what `require` gives: the
file as it is then, or the process's cached module. The API freezes its `registry`
(`CreateRegistry`), captures a snapshot for each scheduled target
(`CaptureSnapshot`, by place in the registry) and starts collections of three kinds; `Execute` is
`executeManualCollection` from the snapshot on stdin, possibly cut off, to the
event on stdout. The event arrives whole or not (`SpoilOutput`: missing, cut off, more than
16 KiB, or not alone), the child may be killed at any time before it exited (`ChildDies`: what it
has written stays), and `HearResult` is what the parent makes of output and exit
code. A child that cannot be spawned is heard as nothing and left out. A module that throws is
not kept by `require`, one that lacks the export is (`CachesAfter`; `import` is left with either).
A collection without a database configuration exits with 1, one without a connection with 3.
Digests are injective.

### LiveQuery

A key is a page, the rest of the request being fixed. `Ask` … `Finish` is one
transaction on the source; its snapshot is taken by the count (REPEATABLE READ), and
`Write` changes the source at any time. The size of a result is its number of rows
and one. All results have the same time to live. `Evicted` is the loop that makes
place, `Put` is `Map.set`. Details, lists without a cache and the limit of five
connections share no state with this and are left out.

### LoginRateLimiter and AuthSessions

A bucket counts the attempts of an address or of a login in a window; an attempt
reserves in both, and is committed, released or forgotten when the directory has
answered. Ids are normalised; the clock does not go back. `check` and `failure`
have no caller in the repository.

`AuthSessions` takes the attempt as pending, committed or released and adds what is
around it. A slot of `Request` is a chain of requests in which one answer causes the
next: a 401 the question for the session, a login that question, the app its menus.
The directory answers or fails at each of `SecureConnection`, `BindService`,
`SearchUser`, `BindUser`; `Unbind` is the `finally` that settles the attempt.
`FindSession`, `SelectSession` and `DeleteSession` are the statements of
`sessions.ts`, `CleanUp` deletes some of the expired rows. An answer may be
lost, with its cookie header. The browser has one cookie, `shell` is what
`AuthShell` renders. That a cookie names a session is taken as given (HMAC, random
ids).

### RecordList

`ui` is the state of the component, `shown` what React rendered last; handlers,
effects and timers see `shown` (closures), `setState` changes `ui`. `Render` and
`RunEffects` are steps of their own, and callbacks may run between them; `urgent`
makes what a click changes render first, as React does for discrete events.
`Dependencies` are the dependency arrays of the three effects; an effect whose
dependencies did not change does not run, and neither does its clean-up. `listing`,
`asking` and `poll` are what was not cancelled: an answer to anything else changes
nothing. Text, filters and sizes are small sets; `Valid` is
`buildSearchConditions`. A list has up to `MaxPages` pages when it is answered, and
`stored` is the age of the data, so that a result carries the age it was read at.
Runs are numbered (`run`, `pollRun`): a 409 names the run of whichever manual request is
under way, of this tab or another, and it is followed from then on; a run of another
trigger is not named. `lost` is history: the last poll failed. Every answer about the
run is an object of its own, which is how the effect that polls notices it; `answers` counts them modulo four, as no more than three come between two
renders (proved, see `PollInvariance`).

### Migrations and BundleUpdate

A runner connects, makes its table, takes the lock, reads the history, and executes
what is left of the files of its release. PostgreSQL wraps statement and row in a
transaction; MySQL commits the statement with itself, each file being one. A process
that dies (`Crash`) leaves a session which the database serves until it notices:
`EndSession` executes what was asked last or not, rolls back and drops the lock.
A MySQL statement that was executed without its row may fail when it is executed again, or not
(`0001` selects and `0014` updates, the others create or alter): which is left open.
A COMMIT that `query_timeout` gave up may still happen.

`BundleUpdate` has one operator, who follows `docs/offline-bundle.md`: backs up
before an update, never steps back from a release that was tried except through the
restored backup, and restores when nothing migrates. `Preflight`, `RunMigration` (which writes
`migration-started` first), `StartServices` and `VerifyRunning` are the steps of `lib.sh`; each
may fail, and `Kill` ends a script anywhere and leaves the container that runs its
migration, unless somebody removes it.



## 3. Runs

| run | instance | question |
|---|---|---|
| `coordination_resume` | 2 workers, 1 revision, 2 batches, 3 runs, clocks that disagree | no batch is skipped; worker and storage agree on the outcome; a cancelled run does not complete |
| `coordination_progress` | 2 workers, 2 revisions, 2 batches, 2 runs, fairness | one run at a time, only the current one confirms; implements `RunLease`; a running row is closed |
| `coordination_traversal` | 1 worker, 1 batch, 3 runs | **violated**: does a completed run collect the source? |
| `source_rows` | 4 kinds of source, 7 contents of 0 to 4 rows, batches of 3, 3 runs, 1 change, fairness | the rows stored are those of the source; a CSV is one content; commits are self-contained; every run ends |
| `config_runtime` | 2 plugin folders, 6 directories, 1 edit, 2 collections | what is accepted is complete; scheduled runs run what was captured; parent and child agree |
| `api_shutdown` | 1 target with a startup child and 2 scheduled ones, 2 instants, fairness | once per instant; no child outlives the shutdown untold; a closed connection is not used; no duplicate is dropped while it waits; the shutdown ends |
| `sync_requests` | 2 POSTs, a plugin with a menu and one without, 2 requests, clock 2 | nothing leaks; a mark is an open request; results stay as long as they should |
| `live_lists` | 2 lists, 3 pages, a source of 0 to 2 rows, cache of 2 results and 3 bytes, clock 3 | one query per key, pages agree with totals, cache within limits |
| `login_attempts` | 3 logins, 2 addresses, 2 login ids, limit 2, window 2, 3 buckets, clock 3 | exact counters; bounded admissions and memory |
| `auth_sessions` | 2 chains of requests, 2 sessions, lifetime 1, clock 2 | a logout is final; a login settles |
| `record_lists` | 3 texts, 3 filter drafts, 2 page sizes, 2 pages, 3 inputs, 1 run | rows under their conditions; the list at rest is current; busy and polling mean something |
| `bundle_updates` | 3 releases (one checksum may change), 2 runners, 1 crash, 5 scripts, both databases | the history is true; nothing runs twice; services start over their own schema |

Deadlock is checked except in the six runs where the system may stop: an API that
has shut down, and the instances whose bounds on runs, edits, inputs, time or
scripts end every behaviour (`api_shutdown`, `source_rows`, `config_runtime`,
`record_lists`, `auth_sessions`, `bundle_updates`).

**Why the bounds are enough.**

* *Coordination.* Three runs are the shortest history in which a run completes, one
  fails and one resumes, or in which the owner of a run comes back two takeovers
  late. A third worker adds no new conflict: only one run is running and only one
  can be taking over, others are refused. Two batches separate the first batch of a
  run (where a null checkpoint is compared with history) from a later one. A lease
  of one tick makes expiry possible at any step; longer leases delay it. A skew of 3
  puts a run before the one inserted just before it. Two revisions are needed to see
  that the lease is shared and the checkpoint is not.
* *Sources.* Batches of three against contents of 0, 2, 3 and 4 rows give the empty
  source, one batch that is not full, one that is exactly full, and two; with three
  runs a checkpoint can lie in the middle of the rows and be resumed twice. The rows
  are good ones that relate records, one that names a record by a number where
  its key is a string, malformed ones (of one the issue is too long), a repeated key, a key that is
  too long and one over the limit; limits of 2 records, 1 relation and 4 bytes make every buffer of
  `processRecords` overflow. One change of the source can fall into any step of any
  run, and the content before and after it may be any two.
* *Configuration.* Two plugins are needed for duplicate ids and menus. The directories
  differ in what the properties tell apart: code, source, schedule, an unusable
  file, code that answers differently each time. One edit between any two reads
  is what a reader can take for a state that never was.
* *API.* Two children of one target at once (the one of the previous instant lingers)
  and a startup child show every interleaving of closing; targets do not interact
  otherwise.
* *Requests, caches and limits.* Two POSTs or lists are one and another that meets
  it; three pages in a cache of two fill it; limit and window of two let a window
  straddle two buckets and one reservation be released while another counts; three
  buckets for four keys make the map full.
* *Sessions.* A slot runs one request after the other, so two of them are a login
  and what overlaps it, or a lookup and a logout; a lifetime of one lets a session
  expire between any two statements.
* *Browser.* Three inputs are what it takes to have an answer under way, change the
  conditions, and change them back. One run is one synchronisation with
  polls that answer, fail or do not come.
* *Bundle.* Three releases allow an update onto an update and a rollback; a runner
  whose script was killed, and a second one, are all that can run at once, as every script
  waits for or removes the container it knows of; five scripts are an install, two
  updates, a rollback and a repetition.

**What the violated run shows.** `getCheckpoint` looks only at the latest run. After a completed run, one that fails before its first batch makes the next one
resume at the end of the source: it collects nothing and is a success. Until the run after
that, changes of the source are missed.


## 4. Fairness

* `RunsEnd`: a worker keeps calling (schedules recur, a collector ends or times
  out), sent heartbeats arrive or are lost, the database clock runs, and
  `startRun` is not refused for ever although it is possible again and again
  (strong fairness: a run that others renew disables it in between). The
  bound on runs leaves the last row without a successor.
* `ShutdownEnds`: timers of the event loop fire and its continuations run, a
  startup child told to terminate exits and closes, and the connection closes when it is
  told to. The second is an assumption about the child: `process.ts` aborts the run on
  SIGTERM, and nothing in the API bounds the wait. The third (`WF(CloseDatabase)`) is one
  about the database: closing the pool waits for the queries under way, such as the store of a
  duplicate that close() gave up. PostgreSQL has a query timeout; MySQL has none
  (`mysql.ts:10-27`), so an answer that never comes is not covered by this property.
* `CollectionEnds`: the process goes on (`Proceed`), timers fire, and a local file
  answers. Nothing is assumed of a server: a request that is never answered is
  ended by its timer.

The other runs state no fairness. A property such as `SettledViewIsCurrent` is an
invariant about the states at rest, which no fairness is needed to reach.


## 5. What is proved

Eight modules of proofs hold for every value of the constants: any number of workers,
requests, callers, children, runs, revisions, batches and changes, any content of a source, any
limit. The assumptions are those on the constants, named in the modules.

| module | theorem | says |
|---|---|---|
| `CollectionCoordinationProofs` | `TypeCorrect`, `SingleRun` | types; at most one run of the target is running |
| | `NoLateConflict` | after its first batch, a running run and the storage agree on the checkpoint |
| | `TerminalRunsAreFinal`, `NewestRecordsWin` | success, partial and failed are final; an older run never overwrites records of a newer one |
| | `StaleRunsConfirmNothing` | only the newest run, running under a valid lease, confirms anything |
| | `OutcomesAgree`, `CancelledRunsDoNotComplete` | finishRun never refuses the outcome its worker computed; a cancelled run does not complete |
| | `NoGap`, `CompletedRunsAreStored` | every batch before a stored checkpoint was stored, and all of them after a completed run |
| | `Refinement` | `Spec => Lease!Spec` |
| `SourceCollectionProofs` | `RowsAreExact` | the rows stored are the first rows of an unchanged source, each once, and all of them after a completed run |
| | `OneContent` | a CSV completes on one verified content |
| | `BatchesAlwaysChain` | no batch is refused for its start checkpoint |
| | `CommitsAreSelfContained` | what is committed belongs together: each text of a key once, relations among them, rows whole; and it can be stored if the transform writes each key in one way |
| `ApiProofs` | `CollectedOnce` | a target is collected once per instant |
| | `NoChildForgotten`, `DatabaseClosesLast`, `NoResultAfterClose` | what is alive at the end was killed; the connection closes last and is not used afterwards |
| | `DuplicatesAreKept`, `ClosedManagersRest` | a duplicate that comes while close() waits is stored or being stored; nothing is spawned after it began |
| | `ConfigurationIsWhole` | a configuration that is accepted is complete and was read so |
| | `SchedulesRunCaptured`, `ParentsHearResults` | a scheduled collection runs what the API captured; a parent takes only the outcome its child ended with, and finds it invalid only if the snapshot was refused, the child killed, or the event not whole |
| | `RuntimeTypes` | types of `PluginRuntime` |
| `ManualSyncProofs` | `NothingLeaks`, `NoStaleMark` | open requests are exactly the tracked ones; a mark is an open request |
| | `ResultsStay` | a result does not change and is dropped only when old, or when as many as are kept ended since |
| `LiveQueryProofs` | `QueriesAreShared`, `PagesFitTotals` | one query per key; a page fits its total, for any page size |
| | `CacheStaysWithinLimits` | entries and bytes of the cache are within any two limits |
| `LoginProofs` | `AttemptsAreCounted` | a bucket counts the failures and open attempts of its window |
| | `AttemptsAreBounded` | no stretch of time of the length of a window admits more than twice the limit |
| | `MemoryIsBounded`, `PendingAreOpen` | never more buckets than the map may have; what is pending is open |
| | `TypeCorrectness` | types of `LoginRateLimiter` |
| | `LoggedOutForGood`, `LoginsSettle`, `LiveSessionsStay` | a logout is final; an attempt is settled as what it was; live sessions stay |
| `RecordListProofs` | `RowsBelong` | rows are shown only under what they were asked with |
| | `BusyListsWait`, `SettledListsAreCurrent` | a busy list waits for something that comes; a list at rest shows its page, no older than the last run seen to end |
| | `RunsArePolled` | a run believed active is being asked about, or will be, unless the last poll failed |
| `BundleUpdateProofs` | `HistoryStaysTrue`, `NoMigrationTwice` | the history is true; nothing recorded is begun again |
| | `CodeFitsSchema` | services start only over exactly the migrations of their release |

Each rests on a theorem `Invariance == Spec => []IInv` of its module, or of its part of the
module (`RuntimeInvariance`, `LimiterInvariance`, `SessionInvariance`), and where a second or third
layer is needed on one that adds it (`DataInvariance`, `BatchInvariance`, `ResultInvariance`,
`OrderInvariance`, `ListInvariance`, `PollInvariance`, `ReleasesFit`). Why the
properties are not inductive by themselves, and what is added:

* **CollectionCoordination.** `startRun` fails all runs it finds expired, which says
  nothing of a row inserted out of order or of a worker that finishes a run it does not
  own. `RowsInOrder` (rows are inserted in order, only the last one runs),
  `Ownership` (a worker between `startRun` and its end owns a run that exists, belongs
  to its revision and to no other worker) and `OwnerInSync` (the stored checkpoint is
  the worker's once it has committed, which `Refinement` needs: every stored
  checkpoint follows the one before, or is the first after a completed run).
  A second layer, `JInv` (theorem `DataInvariance`), speaks of the data on top of the
  first. A checkpoint is `Covered` when every batch up to it was stored by its
  revision or later; the stored checkpoints and those that workers carry are covered
  (`StoredIsCovered`, `CarriedIsCovered`: a worker may carry one that was overtaken, and a
  batch it stores extends its own). `CountsAgree` has the worker's counter and the row's from
  `startRun` on, `FinishesUncancelled` has the signal and the status up to the end. Records only
  get newer and rows keep their revision (`StorageGrows`), so the order of clocks
  is needed nowhere.
* **SourceCollection.** All is about places. `Slice(s, n, t)` says that `s` is what
  `t` has after its first `n` elements. What the run holds (`group`, `batch.rows`) is a slice
  of what it has open (`body`, a page), at the place where the stored checkpoint
  ends; what is open is a slice of the source as long as the source has not changed
  since it was opened; the ledger is a slice at 0 and as long as the checkpoint
  says. So a commit appends a slice to a slice (`SliceConcat`), what
  `collectorFor` skips is what is stored (`SliceRest`), and a run that ends has reached
  the end (`LastIsWhole`). A change of the source makes every claim about the
  traversal under way vacuous, except for a CSV that was verified, whose `body` stays.
* **RecordTransform.** A second layer, `TInv` (theorem `BatchInvariance`), is about the
  batch that is being transformed. `Held`: what was handed over and what is in the
  buffer hold each text of a key once, so that handing the buffer over moves keys and taking
  a row adds texts that nobody has. `Consistent`: every key and relation comes from a row that was
  fit and of which everything is there; the texts of the ends of relations are among those of
  the keys. `Progress`: the rows taken, isolated and left are those of the batch, and `seen` is the
  texts of what is handed over or buffered (`Records`). If the rows are `Regular`, equal texts
  are equal keys, which gives what the storage asks for. Nothing is summed over a
  sequence: the handed keys are one function of
  batch and place, and "once" is that their texts are injective. The assumption on what a transform
  returns (`OutputAssumption`) is that it consists of sequences; whether the
  keys differ and the relations fit is for the code to check.
* **ApiLifecycle, ScheduledCollection.** Children are numbered, instants of older
  children lie before those of newer ones, a child alive is tracked until it was
  killed, and the stages of the shutdown imply what the earlier ones established. The second
  layer, `Heard`, has every child that has not closed listened to until close() gives up.
* **PluginConfiguration, PluginRuntime.** A load that found something wrong claims nothing;
  as long as nothing was wrong, it says of what was read so far what `AcceptedIsComplete` says at
  the end (`LoadFits`), about values that were read and never about the directory,
  which may have changed since. What was captured is the entry of the registry at its place, with
  code of that digest. `FromSnapshot` says what a scheduled run works on at each step
  until its parent has heard: the snapshot it was given, or nothing when that was
  cut off. It is assumed that the model's `Nothing` is no id, status or code
  (`NothingAssumption`), and that a registry is a sequence of folders.
* **ManualSync.** Ids grow; a request is open and has a controller, or is ended and
  in the list to be dropped, once; a mark names an open request of its own plugin. That list is
  in the order of the times at which requests ended (`OrderInv`), so what `prune` drops is the
  oldest, and as many stay as it leaves (`CountLemma`).
* **LiveQuery.** Pending keys and requests that work are matched one to one.
  `PageAgreesWithTotal` needs that count and page are read from one snapshot, and a
  lemma on what a page of a number of rows has. For the limits, `cacheBytes` is at least the
  bytes in the cache: more after a result was put over an expired one (section 6), never less,
  and where everything had to be evicted one result fits. `BytesOf` counts
  the pairs of an entry and a unit of its size, so that no sum is needed.
* **LoginRateLimiter.** A bucket knows one window, and the bound is about every stretch of
  time of that length. The invariant says of each key that its bucket counts
  the failures and open attempts of its window exactly, that nothing of the key is later than
  that window, and that the window length before it had at most the limit; without a
  bucket, the same of the window length before now (`BucketFits`, `NoBucketFits`). A stretch
  in which an attempt is admitted is covered by the two, hence twice the limit.
* **AuthSessions.** What a slot holds depends on the kind and stage of its request; the
  outcome of each failed step says how the attempt is settled; a session whose
  logout was answered is in no row, and no step can insert it again.
* **RecordList.** Every request carries the session it was sent in, the session
  changes with the conditions, and `VisibleResult` compares them. The second layer,
  `JInv` (theorem `ListInvariance`), is about the effect that loads the list: the
  version and retry counters of the state are ahead of those that were rendered or equal to
  them, and while the last render's dependencies are those the effect ran with, the state
  differs from that render or the list is at rest or waits for an answer. It assumes that
  `Null` is no request and no status (`NullAssumption`). The third, `PInv` (theorem
  `PollInvariance`), is about the effect that polls. One answer can come between a render and its
  effects (of the poll they are about to cancel), one after them, and one to the click
  that started a run; `Room` counts how many of these are still possible. So at most three separate
  the state from the last render, and the effect notices each of them.
* **BundleUpdate, Migrations.** One holder of the lock, abandoned sessions included;
  history and schema differ by what one transaction, or one MySQL runner, has open;
  the backup was taken when nothing was open. The second layer, `JInv` (theorem
  `ReleasesFit`), bounds the releases that any runner, abandoned ones included, can be
  at by the one tried last (`Limits`), has a runner leave no file out (`Passed`), and
  has the database as it was backed up as long as no migration was marked, and after
  a restore (`HostFits`). So what an update starts is at least its release and at most it.

Only model-checked:

* liveness (`RunsEnd`, `ShutdownEnds`, `CollectionEnds`), which the prover does not
  reach;
* `CompletedRunTraversesSource`, which is violated (section 3).

Every other property of a run is a theorem.


## 6. Where code and documents differ

The run `coordination_traversal` is recorded as a finding (section 3). The modules define more
properties that state what a document says and the code does not do; they are in no run.
Adding one to the configuration of the run of its module shows a
counterexample.

| property | document | code |
|---|---|---|
| `NewTraversalAfterCompletion` | `openspec/specs/platform-record-storage/spec.md:59` | the checkpoint is read before the run exists and not again (`runner.ts:95`): a run that completes in between leaves its final checkpoint to its successor |
| `OneOpenRequest` | `openspec/specs/plugin-manual-sync/spec.md:37` | an await lies between the check and the entry in the map (`manual-sync.ts:89`), so two POSTs, for a plugin with a menu or without, are both accepted; the lease fails the second |
| `ExpiredRunIsNoConflict` | `openspec/specs/collection-run-coordination/spec.md:44` | the row of a dead process answers 409 until another trigger starts a run (`manual-sync.ts:76`) |
| `EvictsOnlyAtLimit` | `docs/live-postgres-plugin.md:19` | a result stored over an expired one is counted twice (`live-query.ts:139`): `cacheBytes` grows with every refresh until each store empties the cache |
| `RunnerErrorsKept` | `docs/collection-runner.md:51` | HTTP collectors put an error of their own in the place of the handler's |
| `BatchWithinLimits` | `docs/plugin-development.md:250` | outputs that hold relations only are not handed over before the limit |
| `LinksMeetRecords` | `openspec/specs/plugin-transform-runtime/spec.md:79`, `docs/platform-db.md:187` | `validateOutput` compares ends of relations as text (`collection-engine/src/index.ts:137`), so that an end with the key 1 passes beside a record with the key "1"; the storage, for which these are two records, refuses the whole batch, and the run fails where one row should have been isolated |
| `RunsUseSnapshot` | `docs/server-development.md:197` | a manual collection reads the directory again (`manual-sync.ts:139`), with the module cache of the API |
| `PollsUntilFinal` | `docs/client-development.md:150` | a poll that fails is the last one |
| `LoginIsShown` | `docs/superpowers/specs/2026-09-19-ldap-session-auth-design.md:143` | a question for the session from before the login, answered after it, takes the app away |
| `MysqlRetrySucceeds` | `docs/platform-db.md:73` | all but two of the files create tables, columns or constraints without a condition: after a crash between such a statement and its version row every later runner fails |
| `RollbackBeforeMigration` | `docs/superpowers/specs/2026-09-13-offline-bundle-design.md:95` | the file `migration-started` of the installation is still there, so a rollback asks for a restored database although nothing was migrated |

Met while modelling and stated by no property:

* a manual request that loses the lease ends `failed` and names no run, where
  `collection-run-coordination/spec.md:66` promises a duplicate that refers to the
  run under way;
* a refreshed live result keeps its place in the map, so that it is dropped first;
* a menu asks for `file:` and the declared path (`plugin-config/src/index.ts:595`), and a
  collection stores the path relative to the directory (`collector-cli/src/index.ts:176`);
* an offset source that shrank below its checkpoint fails with `count_mismatch` in every
  later run of the revision; a CSV that was replaced is resumed by its row number;
* in the list, typing clears the error of a filter that stays invalid
  (`record-search.tsx:98`), and clearing the search while a filter is invalid keeps
  the old search applied (116–119);
* `client-development.md:152` has a run restored that is already under way, which the client
  does not do; `client-development.md:92` shows the login on a 401 at once, where the
  client asks for the session first;
* two runners may both find no version table; the second `CREATE TABLE IF NOT EXISTS`
  of PostgreSQL can then fail;
* `update.sh` of an older bundle is not refused over a newer schema; a script that is
  killed leaves the container of its migration running.

Other definitions that are in no run hold. Proved are `NoSurvivor` and
`NothingStartsAfterClose` of `ScheduledCollection`, `OnlyDeadSessionsDeleted` of
`AuthSessions` and `PendingIsOpen` of
`LoginRateLimiter`. `CloseReturns` of `ScheduledCollection` holds with the fairness of
the timers. The type invariants hold: one is in a run and three are proved.


## 7. What is not modelled

* **The statements inside `startRun`** are one action (two on MySQL): the unique
  index, the triggers and `GET_LOCK` make them so. Runs from before leases
  existed are left out.
* **The search in the calendar**: `nextScheduledInstant` is taken as the least of a
  set of instants; what local times mean on the day of a clock change is a property of
  the time zone data.
* **SQL building**, allow-lists of columns, cursors: strings made from conditions; the
  models take a query by what it returns.
* **Connection pools and query timeouts**: a query is an action that is answered or
  is not. That an abandoned one may still run is in `Migrations` and in the
  unanswered calls of the coordination, and nowhere else.
* **Parsing**: command lines, CSV dialects, JSON paths, content encodings, LDAP and TLS
  settings. What a parser refuses is a choice among its error codes.
* **The web client** beyond the list and the session: detail and plugin pages show
  what they fetched. React itself is external: render, effects and clean-up are
  modelled as the list depends on them. The browser's side of `AuthSessions` (cookie and shell)
  is there for `LoginIsShown` only, which is in no run.
* **Read-only endpoints** serve the frozen registry, **mock API, plugins, scripts and
  build tooling** are not part of the running system.
