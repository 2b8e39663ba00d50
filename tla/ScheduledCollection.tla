------------------------ MODULE ScheduledCollection ------------------------
(***************************************************************************)
(* The daily collection of one API process: ScheduledCollectionManager of   *)
(* apps/api/src, its timer, the collector processes it spawns, the results   *)
(* they report when they close, and its shutdown.                           *)
(*                                                                         *)
(* A child is the n-th process spawned for a target.  It exits by itself or *)
(* by a signal, and its close event, when its stdio is closed too, comes    *)
(* later or never.  A result that matters is a duplicate: the parent stores *)
(* a reference to the run that was under way.  Every other result, and one  *)
(* that does not parse or does not match, is only logged.                   *)
(***************************************************************************)
EXTENDS Integers, FiniteSets, FiniteSetsExt

CONSTANTS
    Target,     \* collection definitions with storage
    DueInstant, \* the instants the schedule yields
    MaxTime,    \* bound: the clock
    MaxSpawns   \* bound: processes spawned for a target

ASSUME TimeAssumption == MaxTime \in Nat /\ DueInstant \subseteq 0..MaxTime
ASSUME SpawnAssumption == MaxSpawns \in Nat

Never == MaxTime + 1
Child == Target \X (1..MaxSpawns)

VARIABLES
    clock,      \* now()
    started, closing, finalized,
    dueAt,      \* dueAt
    timer,      \* is the timer armed?
    process,    \* each child: where it is, what it was spawned for, its signal
    children,   \* children
    listening,  \* children with a resultOnClose listener
    pending,    \* children whose duplicate is being stored
    settled,    \* children whose duplicate was stored, or could not be
    closer,     \* where close() is
    wait        \* what close() waits for of each child

timerVars == <<clock, started, dueAt, timer>>
resultVars == <<children, listening, pending, settled>>
closeVars == <<closing, finalized, closer, wait>>
vars == <<timerVars, process, resultVars, closeVars>>

Unborn == [phase |-> "unborn", at |-> 0, signal |-> "none", duplicate |-> FALSE]
Phase == {"unborn", "running", "exited", "failed", "closed", "late"}

TypeOK ==
    /\ clock \in 0..MaxTime
    /\ started \in BOOLEAN /\ closing \in BOOLEAN /\ finalized \in BOOLEAN
    /\ dueAt \in 0..Never
    /\ timer \in BOOLEAN /\ (timer => started /\ ~closing)
    /\ process \in [Child -> [phase : Phase, at : 0..MaxTime,
                              signal : {"none", "term", "kill"}, duplicate : BOOLEAN]]
    /\ children \subseteq Child /\ children = listening
    /\ pending \subseteq Child /\ settled \subseteq Child
    /\ closer \in {"open", "waiting", "draining", "returned"}
    /\ wait \in [Child -> {"none", "grace", "kill", "done"}]

Init ==
    /\ clock = 0
    /\ started = FALSE /\ closing = FALSE /\ finalized = FALSE
    /\ dueAt = 0
    /\ timer = FALSE
    /\ process = [k \in Child |-> Unborn]
    /\ children = {} /\ listening = {} /\ pending = {} /\ settled = {}
    /\ closer = "open"
    /\ wait = [k \in Child |-> "none"]

-----------------------------------------------------------------------------
(* Mutant: the instant that is due now is the next one again.              *)
NextOrSameInstant(now) == Min({d \in DueInstant : d >= now} \union {Never})

(* The first instant of the schedule after now.                            *)
NextInstant(now) == Min({d \in DueInstant : d > now} \union {Never})

Start ==
    /\ ~started /\ ~closing
    /\ started' = TRUE
    /\ dueAt' = NextInstant(clock)
    /\ timer' = TRUE
    /\ UNCHANGED <<clock, process, resultVars, closeVars>>

Spawned(t) == Cardinality({n \in 1..MaxSpawns : process[<<t, n>>].phase /= "unborn"})

(* One process for every target, some of which cannot be spawned at all     *)
(* and some of which fail right away.                                       *)
StartTargets(at) ==
    \E spawns \in SUBSET Target : \E failing \in SUBSET spawns :
        LET born == {<<t, Spawned(t) + 1>> : t \in spawns}
        IN /\ born \subseteq Child
           /\ process' = [k \in Child |->
                IF k \in born
                THEN [Unborn EXCEPT !.phase = IF k[1] \in failing THEN "failed" ELSE "running",
                                    !.at = at]
                ELSE process[k]]
           /\ children' = children \union born
           /\ listening' = listening \union born

(* The timer fires at the due instant or, when the process or its host was  *)
(* held up, later: the instants missed in between are skipped.              *)
Wake ==
    /\ timer
    /\ clock >= dueAt
    /\ StartTargets(dueAt)
    /\ dueAt' = NextInstant(clock)
    /\ UNCHANGED <<clock, started, timer, pending, settled, closeVars>>

Exit(k) ==
    /\ process[k].phase = "running"
    /\ \E dup \in BOOLEAN :
        process' = [process EXCEPT ![k].phase = "exited", ![k].duplicate = dup]
    /\ UNCHANGED <<timerVars, resultVars, closeVars>>

(* Does the close event of the child reach handleResult?                   *)
Handles(k) == k \in listening /\ process[k].phase /= "failed" /\ ~finalized

(* The close event: the result is handled, up to the call of the storage,   *)
(* and then close() stops waiting for the child.                            *)
CloseChild(k) ==
    /\ process[k].phase \in {"exited", "failed"}
    /\ process' = [process EXCEPT ![k].phase = IF finalized THEN "late" ELSE "closed"]
    /\ children' = IF k \in listening THEN children \ {k} ELSE children
    /\ listening' = listening \ {k}
    /\ pending' = IF Handles(k) /\ process[k].duplicate THEN pending \union {k} ELSE pending
    /\ wait' = [wait EXCEPT ![k] = IF @ \in {"grace", "kill"} THEN "done" ELSE @]
    /\ UNCHANGED <<timerVars, settled, closing, finalized, closer>>

(* recordScheduledDuplicate succeeds or fails.                             *)
Settle(k) ==
    /\ k \in pending
    /\ pending' = pending \ {k}
    /\ settled' = settled \union {k}
    /\ UNCHANGED <<timerVars, process, children, listening, closeVars>>

-----------------------------------------------------------------------------
Alive(k) == process[k].phase = "running"

(* Mutant: close forgets the results of the children it waits for.          *)
BeginCloseDeaf ==
    /\ closer = "open"
    /\ closing' = TRUE
    /\ timer' = FALSE
    /\ process' = [k \in Child |->
         IF k \in children /\ Alive(k) THEN [process[k] EXCEPT !.signal = "term"]
         ELSE process[k]]
    /\ wait' = [k \in Child |-> IF k \in children THEN "grace" ELSE "none"]
    /\ closer' = "waiting"
    /\ listening' = {}
    /\ UNCHANGED <<clock, started, dueAt, children, pending, settled, finalized>>

BeginClose ==
    /\ closer = "open"
    /\ closing' = TRUE
    /\ timer' = FALSE
    /\ process' = [k \in Child |->
         IF k \in children /\ Alive(k) THEN [process[k] EXCEPT !.signal = "term"]
         ELSE process[k]]
    /\ wait' = [k \in Child |-> IF k \in children THEN "grace" ELSE "none"]
    /\ closer' = "waiting"
    /\ UNCHANGED <<clock, started, dueAt, resultVars, finalized>>

(* Five seconds after SIGTERM.                                             *)
EndGrace(k) ==
    /\ wait[k] = "grace"
    /\ wait' = [wait EXCEPT ![k] = "kill"]
    /\ process' = IF Alive(k) THEN [process EXCEPT ![k].signal = "kill"] ELSE process
    /\ UNCHANGED <<timerVars, resultVars, closing, finalized, closer>>

(* One more second: the child may be stuck in the kernel, or its stdio held *)
(* open by a process of its own.                                           *)
EndKillWait(k) ==
    /\ wait[k] = "kill"
    /\ wait' = [wait EXCEPT ![k] = "done"]
    /\ UNCHANGED <<timerVars, process, resultVars, closing, finalized, closer>>

Finalize ==
    /\ closer = "waiting"
    /\ \A k \in Child : wait[k] \in {"none", "done"}
    /\ finalized' = TRUE
    /\ listening' = {}
    /\ children' = {}
    /\ closer' = "draining"
    /\ UNCHANGED <<timerVars, process, pending, settled, closing, wait>>

(* All pending results have settled, or the second for them is over.       *)
Drain ==
    /\ closer = "draining"
    /\ closer' = "returned"
    /\ UNCHANGED <<timerVars, process, resultVars, closing, finalized, wait>>

Tick ==
    /\ clock < MaxTime
    /\ clock' = clock + 1
    /\ UNCHANGED <<started, dueAt, timer, process, resultVars, closeVars>>

(* What happens by itself once the manager was started, or is closing.     *)
Work ==
    \/ Wake \/ Tick
    \/ \E k \in Child : Exit(k) \/ CloseChild(k) \/ Settle(k)
    \/ Finalize \/ Drain
    \/ \E k \in Child : EndGrace(k) \/ EndKillWait(k)

Next == Start \/ BeginClose \/ Work

Spec == Init /\ [][Next]_vars

(* The timers of the event loop fire and its continuations run; nothing is  *)
(* assumed of the children or of the storage.                               *)
Fairness ==
    /\ WF_vars(Finalize) /\ WF_vars(Drain)
    /\ \A k \in Child : WF_vars(EndGrace(k)) /\ WF_vars(EndKillWait(k))

FairSpec == Spec /\ Fairness

-----------------------------------------------------------------------------
(* Each target is collected at most once for an instant, however late the   *)
(* timer fires.                                                             *)
OncePerInstant ==
    \A j, k \in Child :
        /\ j[1] = k[1] /\ j[2] < k[2]
        /\ process[k].phase /= "unborn"
        => process[j].at < process[k].at

(* scheduled-full-collection: after close has begun no child is spawned, and *)
(* once it gave up waiting no result is handled, whenever the child closes. *)
NothingStartsAfterClose ==
    [][/\ closing => {k \in Child : process'[k].phase = "unborn"}
                = {k \in Child : process[k].phase = "unborn"}
       /\ finalized => pending' \subseteq pending]_vars

(* When close returns, a child that is still alive has been killed.         *)
NoSurvivor ==
    closer = "returned" =>
        \A k \in Child : Alive(k) => process[k].signal = "kill"

(* A duplicate reported by a child that closed while close() was waiting is *)
(* not dropped.                                                            *)
DuplicatesAreHandled ==
    \A k \in Child :
        process[k].phase = "closed" /\ process[k].duplicate => k \in pending \union settled

(* close() returns, though a child never closes or the storage never answers. *)
CloseReturns == closing ~> closer = "returned"
=============================================================================
