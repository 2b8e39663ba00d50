----------------------------- MODULE ManualSync -----------------------------
(***************************************************************************)
(* Manual synchronisation of one API process: ManualSyncManager of          *)
(* apps/api/src and the collection it starts (executeManualCollection of    *)
(* apps/collector-cli), against the running row of the target in            *)
(* collection_runs, which other processes use too.                         *)
(*                                                                         *)
(* The maps of the manager change only between two awaits.  A POST decides  *)
(* after the record query, if there is one, and makes its entry after one   *)
(* more await, if only of what it decided; the collection runs in the        *)
(* background.  A restart forgets everything but     *)
(* the row, whose lease expires later.                                     *)
(***************************************************************************)
EXTENDS Integers, Sequences, FiniteSets, SequencesExt

CONSTANTS
    Caller,         \* POSTs that may be under way at once
    Plugin,         \* plugins with a collection target
    WithMenu,       \* those of them with a menu, whose status is queried
    Nobody,         \* no request, or no run
    OtherProcess,   \* owner of the runs of every other process
    KeepTicks,      \* how long a result is kept: an hour
    KeepCount,      \* how many results are kept: 100
    MaxRequests,    \* bound: requests accepted
    MaxTime         \* bound: the clock

ASSUME PluginAssumption == WithMenu \subseteq Plugin
ASSUME KeepAssumption == KeepTicks \in Nat /\ KeepCount \in Nat
ASSUME BoundAssumption == MaxRequests \in Nat /\ MaxTime \in Nat
ASSUME OwnerAssumption == {Nobody, OtherProcess} \intersect Nat = {}

RequestId == 1..MaxRequests
Open == {"accepted", "running"}
Terminal == {"success", "partial", "failed"}
NoRow == [state |-> "none", owner |-> Nobody]

VARIABLES
    requests,       \* requests: a Map, its keys are its domain
    activeByPlugin, \* activeByPlugin
    controllers,    \* requests with an AbortController
    terminalOrder,  \* requests that ended, in the order they did
    collecting,     \* requests whose collection got a run
    nextId,         \* the next requestId
    caller,         \* where each POST is, and what it has read
    row,            \* the running row of each target, and whether its lease holds
    clock           \* Date.now()

managerVars == <<requests, activeByPlugin, controllers, terminalOrder, nextId>>
vars == <<managerVars, collecting, caller, row, clock>>

IdleCaller == [pc |-> "idle", plugin |-> Nobody, seen |-> "none", allowed |-> FALSE]
RowState == {"none", "live", "expired"}

TypeOK ==
    /\ DOMAIN requests \subseteq RequestId
    /\ \A q \in DOMAIN requests :
        requests[q] \in [plugin : Plugin, status : Open \union Terminal,
                         run : RequestId \union {Nobody}, finishedAt : 0..MaxTime]
    /\ activeByPlugin \in [Plugin -> RequestId \union {Nobody}]
    /\ controllers \subseteq RequestId
    /\ terminalOrder \in Seq(RequestId)
    /\ collecting \subseteq controllers
    /\ nextId \in 1..(MaxRequests + 1)
    /\ caller \in [Caller -> [pc : {"idle", "asked", "read", "decided"},
                              plugin : Plugin \union {Nobody},
                              seen : RowState, allowed : BOOLEAN]]
    /\ row \in [Plugin -> [state : RowState,
                           owner : RequestId \union {Nobody, OtherProcess}]]
    /\ clock \in 0..MaxTime

Init ==
    /\ requests = << >>
    /\ activeByPlugin = [p \in Plugin |-> Nobody]
    /\ controllers = {}
    /\ terminalOrder = << >>
    /\ collecting = {}
    /\ nextId = 1
    /\ caller = [c \in Caller |-> IdleCaller]
    /\ row = [p \in Plugin |-> NoRow]
    /\ clock = 0

-----------------------------------------------------------------------------
OpenRequests == {q \in DOMAIN requests : requests[q].status \in Open}

(* Mutant: one result too many is dropped.                                 *)
MayStopBelowLimit(reqs, order, n) ==
    n < Len(order) =>
        /\ Len(order) - n < KeepCount
        /\ reqs[order[n + 1]].finishedAt >= clock - KeepTicks

(* prune may stop after the n oldest results: those left are few and recent.  *)
MayStop(reqs, order, n) ==
    n < Len(order) =>
        /\ Len(order) - n <= KeepCount
        /\ reqs[order[n + 1]].finishedAt >= clock - KeepTicks

(* The requests and the order become these, pruned.                        *)
Prune(reqs, order) ==
    \E n \in 0..Len(order) :
        /\ MayStop(reqs, order, n)
        /\ \A m \in 0..(n - 1) : ~MayStop(reqs, order, m)
        /\ terminalOrder' = SubSeq(order, n + 1, Len(order))
        /\ requests' = [q \in DOMAIN reqs \ {order[m] : m \in 1..n} |-> reqs[q]]

(* GET of a request, or a POST for a plugin that has no target.            *)
LookUp ==
    /\ Prune(requests, terminalOrder)
    /\ UNCHANGED <<activeByPlugin, controllers, nextId, collecting, caller, row, clock>>

(* POST sync-runs, up to its first query.  Without a menu there is none, and *)
(* canExecute is decided at once: no request of this process is open.       *)
Post(c, p) ==
    /\ caller[c].pc = "idle"
    /\ Prune(requests, terminalOrder)
    /\ caller' = [caller EXCEPT ![c] =
            IF p \in WithMenu THEN [IdleCaller EXCEPT !.pc = "asked", !.plugin = p]
            ELSE [IdleCaller EXCEPT !.pc = "decided", !.plugin = p,
                                    !.allowed = activeByPlugin[p] \notin DOMAIN requests']]
    /\ UNCHANGED <<activeByPlugin, controllers, nextId, collecting, row, clock>>

(* The status of the latest run; that its lease expired is not in the answer. *)
ReadRow(c) ==
    LET p == caller[c].plugin
    IN /\ caller[c].pc = "asked"
       /\ caller' = [caller EXCEPT ![c].pc = "read", ![c].seen = row[p].state]
       /\ UNCHANGED <<managerVars, collecting, row, clock>>

NoActiveRequest(p) == activeByPlugin[p] \notin DOMAIN requests

(* canExecute: no request of this process is open, no run was running; the *)
(* last success is queried next.                                           *)
ReadActive(c) ==
    /\ caller[c].pc = "read"
    /\ caller' = [caller EXCEPT
         ![c].pc = "decided",
         ![c].allowed = NoActiveRequest(caller[c].plugin) /\ caller[c].seen = "none"]
    /\ UNCHANGED <<managerVars, collecting, row, clock>>

(* 202: what was decided is awaited, and nothing is looked at again.        *)
Accept(c) ==
    LET p == caller[c].plugin
    IN /\ caller[c].pc = "decided"
       /\ caller[c].allowed
       /\ nextId \in RequestId
       /\ requests' = [q \in DOMAIN requests \union {nextId} |->
            IF q = nextId
            THEN [plugin |-> p, status |-> "accepted", run |-> Nobody, finishedAt |-> 0]
            ELSE requests[q]]
       /\ activeByPlugin' = [activeByPlugin EXCEPT ![p] = nextId]
       /\ controllers' = controllers \union {nextId}
       /\ nextId' = nextId + 1
       /\ caller' = [caller EXCEPT ![c] = IdleCaller]
       /\ UNCHANGED <<terminalOrder, collecting, row, clock>>

(* 409 SYNC_ALREADY_RUNNING                                                *)
Conflict(c) ==
    /\ caller[c].pc = "decided"
    /\ ~caller[c].allowed
    /\ caller' = [caller EXCEPT ![c] = IdleCaller]
    /\ UNCHANGED <<managerVars, collecting, row, clock>>

(* A query fails or the client gives up: the POST answers an error.        *)
FailPost(c) ==
    /\ caller[c].pc \in {"asked", "read"}
    /\ caller' = [caller EXCEPT ![c] = IdleCaller]
    /\ UNCHANGED <<managerVars, collecting, row, clock>>

-----------------------------------------------------------------------------
(* run, in the background.                                                 *)

Begin(q) ==
    /\ q \in DOMAIN requests
    /\ requests[q].status = "accepted"
    /\ requests' = [requests EXCEPT ![q].status = "running"]
    /\ UNCHANGED <<activeByPlugin, controllers, terminalOrder, nextId,
                   collecting, caller, row, clock>>

Executing(q) == q \in DOMAIN requests /\ requests[q].status = "running"

(* Mutant: a result is recorded but the request still counts as active.    *)
EndKeepingActive(q, status, run) ==
    /\ Prune([requests EXCEPT ![q].status = status, ![q].run = run, ![q].finishedAt = clock],
             Append(terminalOrder, q))
    /\ controllers' = controllers \ {q}
    /\ collecting' = collecting \ {q}
    /\ UNCHANGED <<activeByPlugin, nextId, caller, clock>>

(* Mutant: the AbortController of a request that ended is kept.            *)
EndKeepingController(q, status, run) ==
    /\ Prune([requests EXCEPT ![q].status = status, ![q].run = run, ![q].finishedAt = clock],
             Append(terminalOrder, q))
    /\ activeByPlugin' = [activeByPlugin EXCEPT ![requests[q].plugin] = Nobody]
    /\ collecting' = collecting \ {q}
    /\ UNCHANGED <<controllers, nextId, caller, clock>>

(* The result is recorded, and whatever request is active for the plugin    *)
(* is so no more.                                                          *)
End(q, status, run) ==
    /\ Prune([requests EXCEPT ![q].status = status, ![q].run = run, ![q].finishedAt = clock],
             Append(terminalOrder, q))
    /\ activeByPlugin' = [activeByPlugin EXCEPT ![requests[q].plugin] = Nobody]
    /\ controllers' = controllers \ {q}
    /\ collecting' = collecting \ {q}
    /\ UNCHANGED <<nextId, caller, clock>>

(* startRun is granted: no running row has a valid lease.                  *)
Acquire(q) ==
    /\ Executing(q)
    /\ q \notin collecting
    /\ row[requests[q].plugin].state /= "live"
    /\ row' = [row EXCEPT ![requests[q].plugin] = [state |-> "live", owner |-> q]]
    /\ collecting' = collecting \union {q}
    /\ UNCHANGED <<managerVars, caller, clock>>

(* startRun is refused: a duplicate that was not scheduled has failed.     *)
Refused(q) ==
    /\ Executing(q)
    /\ q \notin collecting
    /\ row[requests[q].plugin].state = "live"
    /\ End(q, "failed", Nobody)
    /\ UNCHANGED row

(* The configuration, the connection or the abort signal prevents the run. *)
FailToStart(q) ==
    /\ Executing(q)
    /\ q \notin collecting
    /\ End(q, "failed", Nobody)
    /\ UNCHANGED row

OwnsLease(q) == row[requests[q].plugin] = [state |-> "live", owner |-> q]

Complete(q, status) ==
    /\ q \in collecting
    /\ OwnsLease(q)
    /\ End(q, status, q)
    /\ row' = [row EXCEPT ![requests[q].plugin] = NoRow]

(* The run is failed, or fails and is left behind in its row.              *)
FailCollecting(q) ==
    /\ q \in collecting
    /\ End(q, "failed", Nobody)
    /\ \/ UNCHANGED row
       \/ OwnsLease(q) /\ row' = [row EXCEPT ![requests[q].plugin] = NoRow]

-----------------------------------------------------------------------------
(* The rest of the world.                                                  *)

(* Two minutes without a heartbeat.                                        *)
Expire(p) ==
    /\ row[p].state = "live"
    /\ row' = [row EXCEPT ![p].state = "expired"]
    /\ UNCHANGED <<managerVars, collecting, caller, clock>>

(* A CLI or the child of an API instance gets the run, or ends it.         *)
OtherRun(p) ==
    /\ \/ /\ row[p].state /= "live"
          /\ row' = [row EXCEPT ![p] = [state |-> "live", owner |-> OtherProcess]]
       \/ /\ row[p] = [state |-> "live", owner |-> OtherProcess]
          /\ row' = [row EXCEPT ![p] = NoRow]
    /\ UNCHANGED <<managerVars, collecting, caller, clock>>

(* The process ends, by a signal or a crash, and a new one starts: neither *)
(* the requests nor the collections are waited for.                        *)
Restart ==
    /\ requests' = << >>
    /\ activeByPlugin' = [p \in Plugin |-> Nobody]
    /\ controllers' = {}
    /\ terminalOrder' = << >>
    /\ collecting' = {}
    /\ caller' = [c \in Caller |-> IdleCaller]
    /\ UNCHANGED <<nextId, row, clock>>

Tick ==
    /\ clock < MaxTime
    /\ clock' = clock + 1
    /\ UNCHANGED <<managerVars, collecting, caller, row>>

Next ==
    \/ LookUp
    \/ \E c \in Caller, p \in Plugin : Post(c, p)
    \/ \E c \in Caller :
        ReadRow(c) \/ ReadActive(c) \/ Accept(c) \/ Conflict(c) \/ FailPost(c)
    \/ \E q \in RequestId :
        \/ Begin(q) \/ Acquire(q) \/ Refused(q) \/ FailToStart(q) \/ FailCollecting(q)
        \/ Complete(q, "success") \/ Complete(q, "partial")
    \/ \E p \in Plugin : Expire(p) \/ OtherRun(p)
    \/ Restart
    \/ Tick

Spec == Init /\ [][Next]_vars

-----------------------------------------------------------------------------
(* Nothing is lost or leaked: the open requests are those that can still be *)
(* aborted, and every other one waits in the order to be dropped, once.     *)
RequestsAreTracked ==
    /\ OpenRequests = controllers
    /\ ToSet(terminalOrder) = DOMAIN requests \ OpenRequests
    /\ IsInjective(terminalOrder)

(* A plugin is never refused for the sake of a request that has ended.     *)
ActiveIsOpen ==
    \A p \in Plugin :
        activeByPlugin[p] /= Nobody =>
            /\ activeByPlugin[p] \in OpenRequests
            /\ requests[activeByPlugin[p]].plugin = p

Ended(q) == q \in DOMAIN requests /\ requests[q].status \in Terminal

(* A result does not change, and stays available for an hour unless a       *)
(* hundred later ones have pushed it out or the process ended.              *)
ResultsKept ==
    [][\A q \in DOMAIN requests :
        LET endedAt == IF Ended(q) THEN requests[q].finishedAt ELSE clock
        IN  ~Restart =>
                \/ q \in DOMAIN requests' /\ (Ended(q) => requests'[q] = requests[q])
                \/ clock - endedAt > KeepTicks
                \/ Cardinality({p \in DOMAIN requests' :
                        requests'[p].status \in Terminal
                        /\ requests'[p].finishedAt >= endedAt}) >= KeepCount]_vars

(* plugin-manual-sync: while a request of the plugin is open, a second one   *)
(* is answered 409 and not accepted.                                       *)
OneOpenRequest ==
    \A p, q \in OpenRequests : requests[p].plugin = requests[q].plugin => p = q

(* collection-run-coordination: a run whose process is gone and whose lease *)
(* has expired does not keep a later request from the target.               *)
ExpiredRunIsNoConflict ==
    [][\A c \in Caller :
        /\ ReadActive(c)
        /\ NoActiveRequest(caller[c].plugin)
        /\ caller[c].seen = "expired"
        => caller'[c].allowed]_vars
=============================================================================
