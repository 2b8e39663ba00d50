------------------------------- MODULE ApiProofs -------------------------------
(***************************************************************************)
(* Proofs about the API process and its collections.                        *)
(*                                                                         *)
(* Of ApiLifecycle and the ScheduledCollection it extends, for any number of *)
(* targets, instants and processes: a target is collected once for an        *)
(* instant, a scheduled child that outlives close() has been killed, no      *)
(* startup child outlives the connection of the API, and no result reaches a *)
(* connection that is closed.  The invariant has a part for each: which      *)
(* children the scheduler still knows and what it waits for of them          *)
(* (Tracked), that the processes of a target are numbered without a gap and  *)
(* are older than the instant that is due (Once), and how far the scheduler  *)
(* and the startup children are at each stage of the shutdown hook (Staged). *)
(*                                                                         *)
(* Of PluginRuntime, for any directories, any edits of them and any number    *)
(* of collections: a configuration is taken whole or not at all, a scheduled *)
(* collection works on what was captured, and its parent hears what it        *)
(* reported.  The invariant says of a loader what it has found in the files  *)
(* it has read, as long as nothing was wrong (LoadFits), and of a scheduled  *)
(* run which snapshot it works on (RunFits).                                *)
(***************************************************************************)
EXTENDS ApiLifecycle, PluginRuntime, FiniteSetTheorems, WellFoundedInduction, TLAPS

-----------------------------------------------------------------------------
(* ApiLifecycle.                                                           *)

Shapes ==
    /\ clock \in 0..MaxTime /\ dueAt \in Nat
    /\ process \in [Child -> [phase : Phase, at : Nat, signal : {"none", "term", "kill"},
                              duplicate : BOOLEAN]]
    /\ wait \in [Child -> {"none", "grace", "kill", "done"}]

(* What close() has done to the manager.                                   *)
Managed ==
    /\ timer => started /\ closer = "open"
    /\ closer = "open" \/ closing
    /\ closer \in {"draining", "returned"} => finalized

(* A child that is alive is known until close() begins and waited for after; *)
(* when the wait for it is over it has been killed.                         *)
Tracked ==
    /\ closer = "open" => \A k \in Child : Alive(k) => k \in children
    /\ closer # "open" => \A k \in Child : Alive(k) =>
            wait[k] = "grace" \/ (wait[k] \in {"kill", "done"} /\ process[k].signal = "kill")
    /\ closer \in {"draining", "returned"} => \A k \in Child : wait[k] \in {"none", "done"}

Born(k) == process[k].phase # "unborn"

(* The processes of a target have the numbers from one on.                 *)
Numbered ==
    \A t \in Target : \A m, n \in 1..MaxSpawns : m < n /\ Born(<<t, n>>) => Born(<<t, m>>)

(* Every process was spawned for an instant before the one that is due.     *)
Older ==
    /\ ~started => \A k \in Child : ~Born(k)
    /\ timer => \A k \in Child : Born(k) => process[k].at < dueAt

Once == Numbered /\ Older /\ OncePerInstant

ScheduledInv == Shapes /\ Managed /\ Tracked /\ Once

(* What each stage of the shutdown hook waited for.                        *)
Staged ==
    /\ startup \in [Target -> {"none", "running", "terminating", "exited", "closed"}]
    /\ shutdown \in {"none", "begun"} => closer = "open"
    /\ shutdown \notin {"startup", "live", "done"} => \A t \in Target : startup[t] # "terminating"
    /\ shutdown \in {"startup", "live", "done"} =>
        /\ closer = "returned" /\ startupClosing
        /\ \A t \in Target : startup[t] # "running" /\ (startup[t] = "terminating" => t \in awaited)
    /\ shutdown \in {"live", "done"} => \A t \in Target : t \in awaited => startup[t] = "closed"
    /\ ~dbOpen => shutdown = "done"

IInv == ScheduledInv /\ Staged

-----------------------------------------------------------------------------
(* A set of numbers has a least element.                                   *)
LEMMA Least ==
    ASSUME NEW S \in SUBSET Nat, S # {}
    PROVE  Min(S) \in S /\ \A y \in S : Min(S) <= y
  <1>. DEFINE Less == {p \in Nat \X Nat : p[1] < p[2]}
  <1>1. IsWellFoundedOn(Less, Nat)
    BY NatLessThanWellFounded DEF OpToRel
  <1>2. \E x \in S : \A y \in S : ~(<<y, x>> \in Less)
    <2>. HIDE DEF Less
    <2>. QED  BY <1>1, WFMin
  <1>3. PICK x \in S : \A y \in S : ~(<<y, x>> \in Less)
    BY <1>2
  <1>4. ASSUME NEW y \in S PROVE x <= y
    <2>1. x \in Nat /\ y \in Nat
      OBVIOUS
    <2>2. y < x => <<y, x>> \in Less
      BY <2>1
    <2>. QED  BY <1>3, <2>1, <2>2
  <1>. QED  BY <1>4 DEF Min

(* The next instant lies ahead.                                            *)
LEMMA NextIsAhead ==
    ASSUME NEW now \in 0..MaxTime
    PROVE  NextInstant(now) \in Nat /\ NextInstant(now) > now
  <1>. DEFINE S == {d \in DueInstant : d > now} \union {Never}
  <1>0. Never \in Nat /\ Never > now /\ DueInstant \subseteq Nat
    BY TimeAssumption DEF Never
  <1>1. S \in SUBSET Nat /\ S # {} /\ \A d \in S : d > now
    BY <1>0
  <1>2. Min(S) \in S
    <2>. HIDE DEF S
    <2>. QED  BY <1>1, Least
  <1>. QED  BY <1>1, <1>2 DEF NextInstant

(* The number a process gets is the first that no process of the target has. *)
LEMMA FirstUnborn ==
    ASSUME Numbered, NEW t \in Target, <<t, Spawned(t) + 1>> \in Child
    PROVE  /\ ~Born(<<t, Spawned(t) + 1>>)
           /\ \A m \in 1..MaxSpawns : m < Spawned(t) + 1 <=> Born(<<t, m>>)
  <1>. DEFINE B == {n \in 1..MaxSpawns : process[<<t, n>>].phase # "unborn"}
              U == (1..MaxSpawns) \ B
  <1>0. \A n \in 1..MaxSpawns : n \in B <=> Born(<<t, n>>)
    BY DEF Born
  <1>1. Spawned(t) = Cardinality(B)
    BY DEF Spawned
  <1>2. \A m, n \in 1..MaxSpawns : m < n /\ n \in B => m \in B
    BY <1>0 DEF Numbered
  <1>3. PICK u \in Nat \ {0} : B = 1..(u - 1)
    <2>1. CASE U = {}
      <3>1. B = 1..MaxSpawns /\ MaxSpawns + 1 \in Nat \ {0}
        BY <2>1, SpawnAssumption
      <3>. QED  BY <3>1, SpawnAssumption
    <2>2. CASE U # {}
      <3>1. U \in SUBSET Nat
        BY SpawnAssumption
      <3>2. PICK u \in U : \A y \in U : u <= y
        <4>. HIDE DEF U
        <4>. QED  BY <2>2, <3>1, Least
      <3>. HIDE DEF B
      <3>3. u \in 1..MaxSpawns /\ u \notin B /\ B \subseteq 1..MaxSpawns
        BY <3>2 DEF B
      <3>4. ASSUME NEW n \in 1..(u - 1) PROVE n \in B
        <4>1. n \in 1..MaxSpawns /\ n < u
          BY <3>3, SpawnAssumption
        <4>. QED  BY <3>2, <3>3, <4>1
      <3>5. ASSUME NEW n \in B PROVE n \in 1..(u - 1)
        <4>1. n \in 1..MaxSpawns /\ ~(u < n) /\ n # u
          BY <1>2, <3>3
        <4>. QED  BY <3>3, <4>1
      <3>6. B = 1..(u - 1)
        BY <3>4, <3>5
      <3>7. u \in Nat \ {0}
        BY <3>3, SpawnAssumption
      <3>. QED  BY <3>6, <3>7
    <2>. QED  BY <2>1, <2>2
  <1>4. Cardinality(1..(u - 1)) = u - 1
    <2>1. Cardinality(1..(u - 1)) = IF 1 > u - 1 THEN 0 ELSE (u - 1) - 1 + 1
      BY FS_Interval
    <2>. QED  BY <2>1
  <1>5. Spawned(t) = u - 1
    BY <1>1, <1>3, <1>4
  <1>6. u \in 1..MaxSpawns
    BY <1>5 DEF Child
  <1>. QED  BY <1>0, <1>3, <1>5, <1>6

-----------------------------------------------------------------------------
(* The scheduler.                                                          *)

(* A step that spawns nothing keeps the numbering and the instants.         *)
LEMMA OnceStays ==
    ASSUME Once, UNCHANGED <<dueAt, started>>, timer' => timer,
           \A k \in Child : process'[k].at = process[k].at /\ (Born(k)' <=> Born(k))
    PROVE  Once'
  <1>1. \A t \in Target, n \in 1..MaxSpawns : <<t, n>> \in Child
    BY DEF Child
  <1>2. Numbered'
    BY <1>1 DEF Once, Numbered
  <1>3. Older'
    BY DEF Once, Older
  <1>4. OncePerInstant'
    BY DEF Once, OncePerInstant, Born
  <1>. QED  BY <1>2, <1>3, <1>4 DEF Once

LEMMA Starting == ScheduledInv /\ Start => ScheduledInv'
  <1>. SUFFICES ASSUME ScheduledInv, Start PROVE ScheduledInv'
    OBVIOUS
  <1>1. UNCHANGED <<clock, process, children, closing, finalized, closer, wait>>
    BY DEF Start, resultVars, closeVars
  <1>2. Shapes'
    BY <1>1, NextIsAhead DEF ScheduledInv, Shapes, Start
  <1>3. Managed'
    BY <1>1 DEF ScheduledInv, Managed, Start
  <1>4. Tracked'
    BY <1>1 DEF ScheduledInv, Tracked, Alive
  <1>5. \A k \in Child : ~Born(k)
    BY DEF Start, ScheduledInv, Once, Older
  <1>6. Once'
    BY <1>1, <1>5 DEF ScheduledInv, Once, Numbered, Older, OncePerInstant, Born, Start
  <1>. QED  BY <1>2, <1>3, <1>4, <1>6 DEF ScheduledInv

LEMMA Waking == ScheduledInv /\ Wake => ScheduledInv'
  <1>. SUFFICES ASSUME ScheduledInv, Wake PROVE ScheduledInv'
    OBVIOUS
  <1>1. /\ timer /\ clock >= dueAt /\ dueAt' = NextInstant(clock)
        /\ UNCHANGED <<clock, started, timer, closing, finalized, closer, wait>>
    BY DEF Wake, closeVars
  <1>2. NextInstant(clock) \in Nat /\ NextInstant(clock) > clock /\ clock \in Nat /\ dueAt \in Nat
    BY NextIsAhead DEF ScheduledInv, Shapes
  <1>3. PICK spawns \in SUBSET Target : \E failing \in SUBSET spawns :
            LET born == {<<t, Spawned(t) + 1>> : t \in spawns}
            IN /\ born \subseteq Child
               /\ process' = [k \in Child |->
                    IF k \in born
                    THEN [Unborn EXCEPT !.phase = IF k[1] \in failing THEN "failed" ELSE "running",
                                        !.at = dueAt]
                    ELSE process[k]]
               /\ children' = children \union born
    BY DEF Wake, StartTargets
  <1>. DEFINE born == {<<t, Spawned(t) + 1>> : t \in spawns}
  <1>4. born \subseteq Child /\ children' = children \union born
    BY <1>3
  <1>5. /\ \A k \in born : /\ process'[k] \in [phase : Phase, at : Nat,
                                    signal : {"none", "term", "kill"}, duplicate : BOOLEAN]
                           /\ process'[k].phase # "unborn" /\ process'[k].at = dueAt
        /\ \A k \in Child \ born : process'[k] = process[k]
        /\ process' = [k \in Child |-> process'[k]]
    BY <1>2, <1>3 DEF Unborn, Phase
  <1>6. \A k \in born : ~Born(k) /\ \A m \in 1..MaxSpawns : m < k[2] <=> Born(<<k[1], m>>)
    BY <1>4, FirstUnborn DEF ScheduledInv, Once
  <1>. HIDE DEF born
  <1>7. Shapes'
    BY <1>1, <1>2, <1>4, <1>5 DEF ScheduledInv, Shapes
  <1>8. Managed'
    BY <1>1 DEF ScheduledInv, Managed
  <1>9. Tracked'
    BY <1>1, <1>4, <1>5 DEF ScheduledInv, Managed, Tracked, Alive
  <1>10. \A k \in Child : Born(k)' <=> Born(k) \/ k \in born
    BY <1>4, <1>5 DEF Born
  <1>11. \A k \in Child : Born(k) /\ k \notin born => process'[k].at = process[k].at /\ process[k].at < dueAt
    BY <1>1, <1>5 DEF ScheduledInv, Once, Older
  <1>12. Numbered'
    <2>. SUFFICES ASSUME NEW t \in Target, NEW m \in 1..MaxSpawns, NEW n \in 1..MaxSpawns,
                         m < n, Born(<<t, n>>)'
                  PROVE  Born(<<t, m>>)'
      BY DEF Numbered
    <2>1. <<t, m>> \in Child /\ <<t, n>> \in Child
      BY DEF Child
    <2>2. CASE Born(<<t, n>>)
      BY <1>10, <2>1, <2>2 DEF ScheduledInv, Once, Numbered
    <2>3. CASE <<t, n>> \in born
      BY <1>6, <1>10, <2>1, <2>3
    <2>. QED  BY <1>10, <2>1, <2>2, <2>3
  <1>13. Older'
    BY <1>1, <1>2, <1>5, <1>10, <1>11 DEF ScheduledInv, Shapes, Managed, Older
  <1>14. OncePerInstant'
    <2>. SUFFICES ASSUME NEW j \in Child, NEW k \in Child, j[1] = k[1], j[2] < k[2], Born(k)'
                  PROVE  process'[j].at < process'[k].at
      BY DEF OncePerInstant, Born
    <2>1. /\ j = <<k[1], j[2]>> /\ k = <<k[1], k[2]>> /\ k[1] \in Target
          /\ j[2] \in 1..MaxSpawns /\ k[2] \in 1..MaxSpawns
      BY DEF Child
    <2>2. CASE k \in born
      <3>1. Born(j)
        BY <1>6, <2>1, <2>2
      <3>2. j \notin born
        BY <1>6, <3>1
      <3>. QED  BY <1>5, <1>11, <2>2, <3>1, <3>2
    <2>3. CASE k \notin born
      <3>1. Born(k)
        BY <1>10, <2>3
      <3>2. Born(j)
        BY <2>1, <3>1 DEF ScheduledInv, Once, Numbered
      <3>3. j \notin born
        BY <1>6, <3>2
      <3>4. process[j].at < process[k].at
        BY <3>1 DEF ScheduledInv, Once, OncePerInstant, Born
      <3>. QED  BY <1>11, <2>3, <3>1, <3>2, <3>3, <3>4
    <2>. QED  BY <2>2, <2>3
  <1>. QED  BY <1>7, <1>8, <1>9, <1>12, <1>13, <1>14 DEF ScheduledInv, Once

LEMMA Children ==
    ASSUME ScheduledInv, NEW k \in Child, Exit(k) \/ CloseChild(k) \/ Settle(k)
    PROVE  ScheduledInv'
  <1>1. UNCHANGED <<clock, started, dueAt, timer, closing, finalized, closer>>
    BY DEF Exit, CloseChild, Settle, timerVars, closeVars
  <1>2. Shapes'
    BY <1>1 DEF ScheduledInv, Shapes, Exit, CloseChild, Settle, closeVars, Phase
  <1>3. \A x \in Child : /\ process'[x].at = process[x].at /\ (Born(x)' <=> Born(x))
                         /\ process'[x].signal = process[x].signal
                         /\ (Alive(x)' => Alive(x))
    BY DEF ScheduledInv, Shapes, Exit, CloseChild, Settle, Born, Alive
  <1>4. Once'
    BY <1>1, <1>3, OnceStays DEF ScheduledInv
  <1>5. \A x \in Child : /\ wait'[x] = wait[x] \/ wait'[x] = "done"
                         /\ Alive(x)' => wait'[x] = wait[x] /\ (x \in children => x \in children')
    BY DEF ScheduledInv, Shapes, Exit, CloseChild, Settle, Alive, closeVars, resultVars
  <1>6. Tracked'
    BY <1>1, <1>3, <1>5 DEF ScheduledInv, Tracked
  <1>7. Managed'
    BY <1>1 DEF ScheduledInv, Managed
  <1>. QED  BY <1>2, <1>4, <1>6, <1>7 DEF ScheduledInv

LEMMA Beginning == ScheduledInv /\ BeginClose => ScheduledInv'
  <1>. SUFFICES ASSUME ScheduledInv, BeginClose PROVE ScheduledInv'
    OBVIOUS
  <1>1. Shapes'
    BY DEF ScheduledInv, Shapes, BeginClose
  <1>2. \A x \in Child : /\ process'[x].at = process[x].at /\ (Born(x)' <=> Born(x))
                         /\ (Alive(x)' <=> Alive(x))
    BY DEF ScheduledInv, Shapes, BeginClose, Born, Alive
  <1>3. Once'
    BY <1>2, OnceStays DEF ScheduledInv, BeginClose
  <1>4. Tracked'
    <2>1. \A x \in Child : Alive(x) => x \in children
      BY DEF ScheduledInv, Tracked, BeginClose
    <2>2. closer' = "waiting" /\ \A x \in Child : x \in children => wait'[x] = "grace"
      BY DEF BeginClose
    <2>. QED  BY <1>2, <2>1, <2>2 DEF Tracked
  <1>5. Managed'
    BY DEF Managed, BeginClose
  <1>. QED  BY <1>1, <1>3, <1>4, <1>5 DEF ScheduledInv

LEMMA Waiting ==
    ASSUME ScheduledInv, NEW k \in Child, EndGrace(k) \/ EndKillWait(k)
    PROVE  ScheduledInv'
  <1>1. UNCHANGED <<clock, started, dueAt, timer, children, closing, finalized, closer>>
    BY DEF EndGrace, EndKillWait, timerVars, resultVars
  <1>2. Shapes'
    BY <1>1 DEF ScheduledInv, Shapes, EndGrace, EndKillWait
  <1>3. \A x \in Child : /\ process'[x].at = process[x].at /\ (Born(x)' <=> Born(x))
                         /\ (Alive(x)' <=> Alive(x))
                         /\ process'[x].signal = IF EndGrace(k) /\ x = k /\ Alive(k) THEN "kill"
                                                 ELSE process[x].signal
    BY DEF ScheduledInv, Shapes, EndGrace, EndKillWait, Born, Alive
  <1>4. Once'
    BY <1>1, <1>3, OnceStays DEF ScheduledInv
  <1>5. /\ \A x \in Child \ {k} : wait'[x] = wait[x]
        /\ \/ EndGrace(k) /\ wait[k] = "grace" /\ wait'[k] = "kill"
           \/ ~EndGrace(k) /\ wait[k] = "kill" /\ wait'[k] = "done"
    BY DEF ScheduledInv, Shapes, EndGrace, EndKillWait
  <1>6. Tracked'
    BY <1>1, <1>3, <1>5 DEF ScheduledInv, Tracked
  <1>7. Managed'
    BY <1>1 DEF ScheduledInv, Managed
  <1>. QED  BY <1>2, <1>4, <1>6, <1>7 DEF ScheduledInv

LEMMA Ending == ScheduledInv /\ (Finalize \/ Drain \/ Tick \/ UNCHANGED vars) => ScheduledInv'
  <1>. SUFFICES ASSUME ScheduledInv, Finalize \/ Drain \/ Tick \/ UNCHANGED vars
                PROVE  ScheduledInv'
    OBVIOUS
  <1>1. UNCHANGED <<started, dueAt, timer, process, closing, wait>>
    BY DEF Finalize, Drain, Tick, vars, timerVars, closeVars
  <1>2. clock' = clock \/ (clock < MaxTime /\ clock' = clock + 1)
    <2>1. Finalize \/ Drain \/ UNCHANGED vars => clock' = clock
      BY DEF Finalize, Drain, vars, timerVars
    <2>. QED  BY <2>1 DEF Tick
  <1>3. Shapes'
    BY <1>1, <1>2, TimeAssumption DEF ScheduledInv, Shapes
  <1>4. Once'
    BY <1>1, OnceStays DEF ScheduledInv, Born
  <1>5. \/ closer = "waiting" /\ closer' = "draining" /\ finalized'
           /\ \A k \in Child : wait[k] \in {"none", "done"}
        \/ closer = "draining" /\ closer' = "returned" /\ finalized' = finalized /\ children' = children
        \/ closer' = closer /\ finalized' = finalized /\ children' = children
    BY DEF Finalize, Drain, Tick, vars, resultVars, closeVars
  <1>6. Managed'
    BY <1>1, <1>5 DEF ScheduledInv, Managed
  <1>7. Tracked'
    BY <1>1, <1>5 DEF ScheduledInv, Tracked, Alive
  <1>. QED  BY <1>3, <1>4, <1>6, <1>7 DEF ScheduledInv

LEMMA Scheduling == ScheduledInv /\ (Start \/ BeginClose \/ Work \/ UNCHANGED vars) => ScheduledInv'
  BY Starting, Waking, Children, Beginning, Waiting, Ending DEF Work

-----------------------------------------------------------------------------
(* The shutdown hook.                                                      *)

(* close() never goes back, and has not begun unless the hook called it.    *)
LEMMA CloserMoves ==
    Start \/ Work \/ UNCHANGED vars =>
        /\ closer = "open" => closer' = "open"
        /\ closer = "returned" => closer' = "returned"
  BY DEF Start, Work, Wake, Exit, CloseChild, Settle, Finalize, Drain, EndGrace, EndKillWait, Tick,
        vars, closeVars

LEMMA StagedStep == Staged /\ [ApiNext]_allVars => Staged'
  <1>. SUFFICES ASSUME Staged, [ApiNext]_allVars PROVE Staged'
    OBVIOUS
  <1>1. CASE Listen
    <2>1. Start \/ UNCHANGED vars
      BY <1>1 DEF Listen
    <2>2. UNCHANGED <<shutdown, dbOpen, startupClosing, awaited>>
      BY <1>1 DEF Listen
    <2>3. /\ startup' \in [Target -> {"none", "running", "terminating", "exited", "closed"}]
          /\ startupClosing => \A t \in Target : startup'[t] = startup[t]
          /\ \A t \in Target : startup'[t] # "terminating" \/ startup'[t] = startup[t]
      BY <1>1 DEF Listen, SpawnStartup, Staged
    <2>. QED  BY <2>1, <2>2, <2>3, CloserMoves DEF Staged
  <1>2. CASE FailToListen \/ Signal
    <2>1. closer' = closer
      BY <1>2 DEF FailToListen, Signal, vars, closeVars
    <2>. QED  BY <1>2, <2>1 DEF FailToListen, Signal, Staged
  <1>3. CASE CloseScheduled
    BY <1>3 DEF CloseScheduled, BeginClose, Staged
  <1>4. CASE CloseStartup
    <2>1. closer' = closer
      BY <1>4 DEF CloseStartup, vars, closeVars
    <2>. QED  BY <1>4, <2>1 DEF CloseStartup, Staged
  <1>5. CASE CloseLive \/ CloseDatabase
    <2>1. closer' = closer
      BY <1>5 DEF CloseLive, CloseDatabase, vars, closeVars
    <2>. QED  BY <1>5, <2>1 DEF CloseLive, CloseDatabase, Staged
  <1>6. CASE \E t \in Target : ExitStartup(t) \/ CloseStartupChild(t)
    <2>1. PICK t \in Target : ExitStartup(t) \/ CloseStartupChild(t)
      BY <1>6
    <2>2. closer' = closer /\ UNCHANGED <<shutdown, dbOpen, startupClosing, awaited>>
      BY <2>1 DEF ExitStartup, CloseStartupChild, vars, closeVars
    <2>. QED  BY <2>1, <2>2 DEF ExitStartup, CloseStartupChild, Staged
  <1>7. CASE ScheduledWork \/ UNCHANGED allVars
    <2>1. UNCHANGED apiVars /\ (Work \/ UNCHANGED vars)
      BY <1>7 DEF ScheduledWork, allVars
    <2>. QED  BY <2>1, CloserMoves DEF apiVars, Staged
  <1>. QED  BY <1>1, <1>2, <1>3, <1>4, <1>5, <1>6, <1>7 DEF ApiNext

LEMMA StepOfScheduler == [ApiNext]_allVars => Start \/ BeginClose \/ Work \/ UNCHANGED vars
  BY DEF ApiNext, Listen, FailToListen, Signal, CloseScheduled, CloseStartup, CloseLive, CloseDatabase,
        ExitStartup, CloseStartupChild, ScheduledWork, allVars

LEMMA Initially == ApiInit => IInv
  <1>. SUFFICES ASSUME ApiInit PROVE IInv
    OBVIOUS
  <1>1. Shapes
    BY TimeAssumption DEF ApiInit, Init, Shapes, Unborn, Phase
  <1>2. Managed /\ Tracked
    BY DEF ApiInit, Init, Managed, Tracked, Alive, Unborn
  <1>3. \A k \in Child : ~Born(k)
    BY DEF ApiInit, Init, Born, Unborn
  <1>4. Once
    <2>1. \A t \in Target, n \in 1..MaxSpawns : <<t, n>> \in Child
      BY DEF Child
    <2>. QED  BY <1>3, <2>1 DEF ApiInit, Init, Once, Numbered, Older, OncePerInstant, Born
  <1>5. Staged
    BY DEF ApiInit, Init, Staged
  <1>. QED  BY <1>1, <1>2, <1>4, <1>5 DEF IInv, ScheduledInv

-----------------------------------------------------------------------------
(* The inductive invariant holds.                                          *)
THEOREM Invariance == ApiSpec => []IInv
  <1>1. IInv /\ [ApiNext]_allVars => IInv'
    BY Scheduling, StepOfScheduler, StagedStep DEF IInv
  <1>. QED  BY Initially, <1>1, PTL DEF ApiSpec

(* No two collections of a target are for the same instant.                 *)
THEOREM CollectedOnce == ApiSpec => []OncePerInstant
  <1>1. IInv => OncePerInstant
    BY DEF IInv, ScheduledInv, Once
  <1>. QED  BY Invariance, <1>1, PTL

LEMMA Killed == IInv => NoSurvivor
  BY DEF IInv, ScheduledInv, Tracked, NoSurvivor

(* When close() of the scheduler has returned, a child still alive was killed. *)
THEOREM NoChildForgotten == ApiSpec => []NoSurvivor
  BY Invariance, Killed, PTL

(* The connection is closed after the collections of the process are over.  *)
THEOREM DatabaseClosesLast == ApiSpec => []NoCollectionOutlivesShutdown
  <1>1. IInv => NoCollectionOutlivesShutdown
    BY Killed DEF IInv, Staged, NoSurvivor, NoCollectionOutlivesShutdown
  <1>. QED  BY Invariance, <1>1, PTL

(* No step hands a result to the storage once the connection is closed.     *)
THEOREM NoResultAfterClose == ApiSpec => ResultsUseOpenDatabase
  <1>1. ASSUME IInv, [ApiNext]_allVars, ~dbOpen PROVE pending' \subseteq pending
    <2>1. finalized /\ closer = "returned" /\ ~timer
      BY <1>1 DEF IInv, ScheduledInv, Managed, Staged
    <2>2. Start \/ BeginClose \/ Work \/ UNCHANGED vars
      BY <1>1, StepOfScheduler
    <2>3. ASSUME NEW k \in Child, CloseChild(k) PROVE pending' = pending
      BY <2>1, <2>3 DEF CloseChild, Handles
    <2>4. ASSUME NEW k \in Child, Settle(k) PROVE pending' \subseteq pending
      BY <2>4 DEF Settle
    <2>5. ASSUME NEW k \in Child, Exit(k) \/ EndGrace(k) \/ EndKillWait(k) PROVE pending' = pending
      BY <2>5 DEF Exit, EndGrace, EndKillWait, resultVars
    <2>6. Start \/ BeginClose \/ Wake \/ Tick \/ Finalize \/ Drain \/ UNCHANGED vars => pending' = pending
      BY DEF Start, BeginClose, Wake, Tick, Finalize, Drain, vars, resultVars
    <2>. QED  BY <2>2, <2>3, <2>4, <2>5, <2>6 DEF Work
  <1>2. IInv /\ [ApiNext]_allVars => [~dbOpen => pending' \subseteq pending]_allVars
    BY <1>1
  <1>. QED  BY Invariance, <1>2, PTL DEF ApiSpec, ResultsUseOpenDatabase

-----------------------------------------------------------------------------
(* What close() listens for: until it gives up waiting, a child that has not  *)
(* closed is heard.                                                        *)
Heard ==
    /\ closing <=> closer # "open"
    /\ \A k \in Child :
        /\ process[k].phase \in {"running", "exited"} /\ ~finalized => k \in listening
        /\ process[k].phase \in {"running", "failed"} => ~process[k].duplicate
    /\ DuplicatesAreHandled

(* The children are as they were, or some more were not heard of before.    *)
LEMMA StillHeard ==
    ASSUME Heard, closing' <=> closer' # "open", finalized => finalized',
           \A k \in Child : process'[k].phase = process[k].phase
                          /\ process'[k].duplicate = process[k].duplicate,
           finalized' \/ listening \subseteq listening',
           UNCHANGED <<pending, settled>>
    PROVE  Heard'
  BY DEF Heard, DuplicatesAreHandled

LEMMA WakeHeard == ASSUME Shapes, Heard, Wake PROVE Heard'
  <1>1. PICK spawns \in SUBSET Target, failing \in SUBSET Target :
            LET born == {<<t, Spawned(t) + 1>> : t \in spawns}
            IN  /\ process' = [k \in Child |->
                        IF k \in born
                        THEN [Unborn EXCEPT !.phase = IF k[1] \in failing THEN "failed"
                                                                         ELSE "running",
                                            !.at = dueAt]
                        ELSE process[k]]
                /\ listening' = listening \union born
    BY DEF Wake, StartTargets
  <1>. DEFINE born == {<<t, Spawned(t) + 1>> : t \in spawns}
  <1>2. \A k \in Child :
            \/ process'[k] = process[k] /\ k \notin born
            \/ k \in born /\ process'[k].phase \in {"failed", "running"}
                          /\ ~process'[k].duplicate
    BY <1>1 DEF Unborn
  <1>3. listening' = listening \union born
    BY <1>1
  <1>4. UNCHANGED <<closing, closer, finalized, pending, settled>>
    BY DEF Wake, closeVars
  <1>. HIDE DEF born
  <1>. QED  BY <1>2, <1>3, <1>4 DEF Heard, DuplicatesAreHandled

LEMMA ChildHeard ==
    ASSUME Shapes, Heard, NEW k \in Child, Exit(k) \/ CloseChild(k) \/ Settle(k)
    PROVE  Heard'
  <1>1. CASE Exit(k)
    <2>1. \A j \in Child : j # k => process'[j] = process[j]
      BY <1>1 DEF Exit, Shapes
    <2>2. process[k].phase = "running" /\ process'[k].phase = "exited"
      BY <1>1 DEF Exit, Shapes
    <2>3. UNCHANGED <<closing, closer, finalized, listening, pending, settled>>
      BY <1>1 DEF Exit, resultVars, closeVars
    <2>. QED  BY <2>1, <2>2, <2>3 DEF Heard, DuplicatesAreHandled
  <1>2. CASE CloseChild(k)
    <2>1. \A j \in Child : j # k => process'[j] = process[j]
      BY <1>2 DEF CloseChild, Shapes
    <2>2. /\ process[k].phase \in {"exited", "failed"}
          /\ process'[k].phase = IF finalized THEN "late" ELSE "closed"
          /\ process'[k].duplicate = process[k].duplicate
      BY <1>2 DEF CloseChild, Shapes
    <2>3. /\ UNCHANGED <<closing, closer, finalized, settled>>
          /\ listening' = listening \ {k} /\ pending \subseteq pending'
          /\ Handles(k) /\ process[k].duplicate => k \in pending'
      BY <1>2 DEF CloseChild
    <2>4. ~finalized /\ process[k].duplicate => Handles(k)
      BY <2>2 DEF Heard, Handles
    <2>. QED  BY <2>1, <2>2, <2>3, <2>4 DEF Heard, DuplicatesAreHandled
  <1>3. CASE Settle(k)
    <2>1. /\ UNCHANGED <<closing, closer, finalized, process, listening>>
          /\ pending' \union settled' = pending \union settled
      BY <1>3 DEF Settle, closeVars
    <2>. QED  BY <2>1 DEF Heard, DuplicatesAreHandled
  <1>. QED  BY <1>1, <1>2, <1>3

LEMMA ClosingHeard ==
    ASSUME Shapes, Heard,
           \/ BeginClose \/ Finalize \/ Drain
           \/ \E k \in Child : EndGrace(k) \/ EndKillWait(k)
    PROVE  Heard'
  <1>1. CASE BeginClose
    <2>1. \A k \in Child : process'[k].phase = process[k].phase
                          /\ process'[k].duplicate = process[k].duplicate
      BY <1>1 DEF BeginClose, Shapes
    <2>2. closing' /\ closer' = "waiting" /\ UNCHANGED <<finalized, listening, pending, settled>>
      BY <1>1 DEF BeginClose, resultVars
    <2>. QED  BY <2>1, <2>2, StillHeard
  <1>2. CASE \E k \in Child : EndGrace(k) \/ EndKillWait(k)
    <2>1. PICK k \in Child : EndGrace(k) \/ EndKillWait(k)
      BY <1>2
    <2>2. \A j \in Child : process'[j].phase = process[j].phase
                          /\ process'[j].duplicate = process[j].duplicate
      BY <2>1 DEF EndGrace, EndKillWait, Shapes
    <2>3. UNCHANGED <<closing, closer, finalized, listening, pending, settled>>
      BY <2>1 DEF EndGrace, EndKillWait, resultVars
    <2>. QED  BY <2>2, <2>3, StillHeard DEF Heard
  <1>3. CASE Finalize \/ Drain
    <2>1. /\ closer # "open" /\ closer' # "open" /\ (finalized => finalized')
          /\ UNCHANGED <<closing, process, pending, settled>>
          /\ finalized' \/ listening' = listening
      BY <1>3 DEF Finalize, Drain, resultVars
    <2>. QED  BY <2>1, StillHeard DEF Heard
  <1>. QED  BY <1>1, <1>2, <1>3

LEMMA SchedulerHeard ==
    ASSUME Shapes, Heard, Start \/ BeginClose \/ Work \/ UNCHANGED vars
    PROVE  Heard'
  <1>1. CASE Start \/ Tick \/ UNCHANGED vars
    <2>1. UNCHANGED <<closing, closer, finalized, process, listening, pending, settled>>
      BY <1>1 DEF Start, Tick, vars, timerVars, resultVars, closeVars
    <2>. QED  BY <2>1, StillHeard DEF Heard
  <1>2. CASE Wake
    BY <1>2, WakeHeard
  <1>3. CASE \E k \in Child : Exit(k) \/ CloseChild(k) \/ Settle(k)
    BY <1>3, ChildHeard
  <1>4. CASE \/ BeginClose \/ Finalize \/ Drain
             \/ \E k \in Child : EndGrace(k) \/ EndKillWait(k)
    BY <1>4, ClosingHeard
  <1>. QED  BY <1>1, <1>2, <1>3, <1>4 DEF Work

(* The second layer: what is heard of the children.                         *)
THEOREM ResultInvariance == ApiSpec => [](IInv /\ Heard)
  <1>1. ApiInit => Heard
    BY DEF ApiInit, Init, Heard, DuplicatesAreHandled, Unborn
  <1>2. IInv /\ Heard /\ [ApiNext]_allVars => Heard'
    BY StepOfScheduler, SchedulerHeard DEF IInv, ScheduledInv
  <1>. QED  BY Invariance, <1>1, <1>2, PTL DEF ApiSpec

(* A duplicate told by a child that closed before close() gave up is stored or *)
(* being stored.                                                           *)
THEOREM DuplicatesAreKept == ApiSpec => []DuplicatesAreHandled
  <1>1. Heard => DuplicatesAreHandled
    BY DEF Heard
  <1>. QED  BY ResultInvariance, <1>1, PTL

Rest ==
    /\ closing => {k \in Child : process'[k].phase = "unborn"}
                = {k \in Child : process[k].phase = "unborn"}
    /\ finalized => pending' \subseteq pending

(* After a shutdown has begun no child is spawned, and no result is taken once *)
(* it gave up waiting, also when it began while the server was to listen.    *)
THEOREM ClosedManagersRest == ApiSpec => NothingStartsAfterClose
  <1>1. ASSUME IInv, Heard, [ApiNext]_allVars PROVE [Rest]_vars
    <2>1. Start \/ BeginClose \/ Work \/ UNCHANGED vars
      BY <1>1, StepOfScheduler
    <2>2. closing => ~timer
      BY <1>1 DEF IInv, ScheduledInv, Managed, Heard
    <2>3. CASE Start \/ Tick \/ Finalize \/ Drain
      BY <2>3 DEF Start, Tick, Finalize, Drain, resultVars, Rest
    <2>4. CASE Wake
      <3>1. ~closing /\ UNCHANGED pending
        BY <2>2, <2>4 DEF Wake
      <3>. QED  BY <3>1 DEF Rest
    <2>5. ASSUME NEW k \in Child, Exit(k) \/ CloseChild(k) \/ Settle(k) PROVE Rest
      <3>1. \A j \in Child : process'[j].phase = "unborn" <=> process[j].phase = "unborn"
        BY <1>1, <2>5 DEF Exit, CloseChild, Settle, IInv, ScheduledInv, Shapes
      <3>2. finalized => pending' \subseteq pending
        BY <2>5 DEF Exit, CloseChild, Settle, Handles, resultVars
      <3>. QED  BY <3>1, <3>2 DEF Rest
    <2>6. ASSUME BeginClose \/ \E k \in Child : EndGrace(k) \/ EndKillWait(k) PROVE Rest
      <3>1. \A j \in Child : process'[j].phase = process[j].phase
        BY <1>1, <2>6 DEF BeginClose, EndGrace, EndKillWait, IInv, ScheduledInv, Shapes
      <3>2. UNCHANGED pending
        BY <2>6 DEF BeginClose, EndGrace, EndKillWait, resultVars
      <3>. QED  BY <3>1, <3>2 DEF Rest
    <2>. QED  BY <2>1, <2>3, <2>4, <2>5, <2>6 DEF Work
  <1>2. IInv /\ Heard /\ [ApiNext]_allVars => [Rest]_vars
    BY <1>1
  <1>. QED  BY ResultInvariance, <1>2, PTL DEF ApiSpec, NothingStartsAfterClose, Rest

-----------------------------------------------------------------------------
(***************************************************************************)
(* PluginRuntime.                                                          *)

Declared == {d.plugin[f] : d \in Disk, f \in Folder}

(* What the loader makes of them, with a digest or without.                 *)
Known == [id : {declared.id : declared \in Declared}, folder : Folder, declared : Declared,
          digest : {DigestOf(code) : code \in Codes} \union {Nothing}]

LoadShape(l) ==
    /\ DOMAIN l = DOMAIN NewLoad
    /\ l.pc \in {"connections", "registry", "plugins", "transforms", "loading",
                 "rejected", "accepted"}
    /\ l.failed \in BOOLEAN /\ l.schedule \in BOOLEAN
    /\ l.entries \in Seq(Folder)
    /\ l.read \in Seq(Declared)
    /\ l.definitions \in Seq(Known)
    /\ l.next \in Nat \ {0}
    /\ l.bytes \in Codes \union {Nothing}

(* How far the loader is.                                                  *)
Phased(l) ==
    /\ l.pc \in {"connections", "registry"} =>
        /\ l.read = << >> /\ l.definitions = << >>
        /\ l.ids = {} /\ l.paths = {} /\ l.menus = {}
    /\ l.pc \in {"connections", "registry", "plugins"} => l.next = 1
    /\ Len(l.read) <= Len(l.entries)
    /\ l.pc \in {"transforms", "loading", "accepted"} => Len(l.read) = Len(l.entries)
    /\ l.pc = "loading" =>
        /\ l.bytes \in Codes
        /\ l.schedule => Live(l.definitions[l.next].declared)
    /\ l.pc = "accepted" => ~l.failed /\ l.next > Len(l.definitions)

(* What was read and is used once, and what was made of it.                 *)
Distinct(read, ids, paths) ==
    /\ ids = {read[i].id : i \in DOMAIN read}
    /\ paths = UNION {MenuPaths(read[i]) : i \in DOMAIN read}
    /\ \A i, j \in DOMAIN read : i # j =>
        /\ read[i].id # read[j].id
        /\ MenuPaths(read[i]) \intersect MenuPaths(read[j]) = {}

Defined(read, definitions, menus) ==
    /\ {definitions[i].declared : i \in DOMAIN definitions} =
            {read[i] : i \in {j \in DOMAIN read : read[j].enabled}}
    /\ \A menu \in menus : \E i \in DOMAIN definitions : definitions[i].id = menu.id

(* The definitions before the one looked at have passed.                    *)
Screened(definitions, next, schedule) ==
    \A i \in DOMAIN definitions :
        i < next /\ schedule /\ ~Live(definitions[i].declared) =>
            \E code \in Pure : definitions[i].digest = DigestOf(code)

Sound(l) ==
    /\ Distinct(l.read, l.ids, l.paths)
    /\ Defined(l.read, l.definitions, l.menus)
    /\ Screened(l.definitions, l.next, l.schedule)

LoadFits(l) == LoadShape(l) /\ Phased(l) /\ (~l.failed => Sound(l))

(* What was captured is what the registry has.                             *)
CapturedFit ==
    /\ registry \in Seq(Known)
    /\ DOMAIN captured \subseteq DOMAIN registry
    /\ \A i \in DOMAIN captured :
        /\ captured[i].definition = registry[i]
        /\ DigestOf(captured[i].code) = registry[i].digest
    /\ api = "loading" => DOMAIN captured = {}
    /\ api \in {"loading", "capturing", "up", "failed"}

RunShape(r) ==
    /\ DOMAIN r = DOMAIN NoRun
    /\ r.pc \in {"none", "verifying", "loading", "connecting", "running",
                 "transforming", "ended", "heard"}
    /\ r.outcome \in Status \union {Nothing}
    /\ r.exit \in {-1, 0, 1, 2, 3, 130}
    /\ r.event \in {r.outcome, Nothing}
    /\ r.exit # -1 => r.outcome # Nothing /\ (r.exit = 2 <=> r.outcome = "partial")
    /\ r.pc \notin {"ended", "heard"} => r.outcome = Nothing /\ r.exit = -1
    /\ r.heard \in Status \union {Nothing, "invalid"}
    /\ r.pc = "none" \/ api = "up"

(* A scheduled run works on a snapshot, and ends before it knows the plugin, *)
(* without an exit code, or with one that its parent understands.           *)
Working == {"connecting", "running", "transforming"}

Understandable(r) ==
    CASE r.outcome \in {"success", "duplicate"} -> r.exit = 0
      [] r.outcome = "partial" -> r.exit = 2
      [] OTHER -> r.exit \notin {0, 2}

FromSnapshot(r, snapshot) ==
    /\ r.expected = Revision(snapshot.definition)
    /\ r.input \in {snapshot, Nothing}
    /\ r.pc = "verifying" => r.definition = NoDefinition
    /\ r.pc \in Working => r.definition = snapshot.definition /\ r.code = snapshot.code
    /\ r.pc \in Working \union {"verifying"} => r.id = snapshot.definition.id
    /\ r.pc = "ended" =>
        \/ r.exit = -1
        \/ r.id = Nothing /\ r.definition = NoDefinition
        \/ r.id # Nothing /\ Understandable(r)
    /\ r.pc = "heard" =>
        \/ /\ r.heard = r.outcome
           /\ r.outcome \in {"success", "duplicate"} => r.exit = 0
           /\ r.outcome = "partial" => r.exit = 2
        \/ /\ r.heard = "invalid"
           /\ r.definition = NoDefinition \/ r.exit = -1 \/ r.event = Nothing

RunFits(r) ==
    /\ RunShape(r)
    /\ r.pc \in {"verifying", "heard"} => r.kind = "scheduled"
    /\ r.pc # "none" /\ r.kind = "scheduled" =>
        r.pc # "loading" /\ \E i \in DOMAIN captured : FromSnapshot(r, captured[i])

RuntimeInv ==
    /\ disk \in Disk /\ edits \in 0..MaxEdits
    /\ DOMAIN load = Process /\ DOMAIN run = Slot
    /\ \A p \in Process : LoadFits(load[p])
    /\ cache \in [Process -> [Folder -> Codes \union {Nothing}]]
    /\ CapturedFit
    /\ \A s \in Slot : RunFits(run[s])

-----------------------------------------------------------------------------
(* The loader.                                                             *)

LEMMA FreshFits == LoadFits(NewLoad)
  <1>. DEFINE l == NewLoad
  <1>1. LoadShape(l)
    BY DEF NewLoad, LoadShape
  <1>2. Phased(l)
    <2>1. l.entries = << >> /\ l.read = << >>
      BY DEF NewLoad
    <2>. QED  BY <2>1 DEF Phased, NewLoad
  <1>3. Sound(l)
    <2>1. l.read = << >> /\ l.definitions = << >> /\ l.ids = {} /\ l.paths = {} /\ l.menus = {}
      BY DEF NewLoad
    <2>2. DOMAIN l.read = {} /\ DOMAIN l.definitions = {}
      BY <2>1
    <2>. QED  BY <2>1, <2>2 DEF Sound, Distinct, Defined, Screened
  <1>. QED  BY <1>1, <1>2, <1>3 DEF LoadFits

(* All but the phase, the fault and the connections.                        *)
SameFinds(l, after) ==
    /\ DOMAIN after = DOMAIN l
    /\ after.read = l.read /\ after.ids = l.ids /\ after.paths = l.paths
    /\ after.definitions = l.definitions /\ after.menus = l.menus
    /\ after.next = l.next /\ after.bytes = l.bytes

LEMMA NothingFound ==
    ASSUME NEW l, l.read = << >>, l.definitions = << >>,
           l.ids = {}, l.paths = {}, l.menus = {}
    PROVE  Sound(l)
  <1>1. DOMAIN l.read = {} /\ DOMAIN l.definitions = {}
    OBVIOUS
  <1>. QED  BY <1>1 DEF Sound, Distinct, Defined, Screened

LEMMA ConnectionsFit ==
    ASSUME NEW l, LoadFits(l), l.pc = "connections", NEW d
    PROVE  LoadFits(LoadConnections(l, d))
  <1>. DEFINE after == LoadConnections(l, d)
  <1>0. LoadShape(l) /\ Phased(l)
    BY DEF LoadFits
  <1>1. PICK first : \E fault \in BOOLEAN :
            after = [l EXCEPT !.pc = "registry", !.connections = first, !.failed = fault]
    BY Zenon DEF LoadConnections
  <1>2. /\ after.pc = "registry" /\ after.failed \in BOOLEAN
        /\ after.entries = l.entries /\ after.schedule = l.schedule
        /\ SameFinds(l, after)
    <2>. HIDE DEF after
    <2>. QED  BY <1>0, <1>1 DEF LoadShape, NewLoad, SameFinds
  <1>. HIDE DEF after
  <1>3. LoadShape(after) /\ Phased(after)
    BY <1>0, <1>2 DEF LoadShape, Phased, SameFinds
  <1>4. LoadFits(after)
    BY <1>0, <1>2, <1>3, NothingFound DEF LoadFits, Phased, SameFinds
  <1>. QED  BY <1>4 DEF after

LEMMA RegistryFits ==
    ASSUME NEW l, LoadFits(l), l.pc = "registry", NEW d \in Disk
    PROVE  LoadFits(LoadRegistry(l, d))
  <1>. DEFINE after == LoadRegistry(l, d)
  <1>0. LoadShape(l) /\ Phased(l)
    BY DEF LoadFits
  <1>1. /\ after.pc = "plugins" /\ after.failed \in BOOLEAN
        /\ after.entries \in Seq(Folder) /\ after.schedule \in BOOLEAN
        /\ SameFinds(l, after)
    BY <1>0, RegistryAssumption DEF LoadRegistry, Failed, LoadShape, NewLoad, SameFinds
  <1>. HIDE DEF after
  <1>3. LoadShape(after) /\ Phased(after)
    <2>1. Len(after.read) = 0 /\ Len(after.entries) \in Nat
      BY <1>0, <1>1 DEF Phased, SameFinds
    <2>. QED  BY <1>0, <1>1, <2>1 DEF LoadShape, Phased, SameFinds
  <1>4. LoadFits(after)
    BY <1>0, <1>1, <1>3, NothingFound DEF LoadFits, Phased, SameFinds
  <1>. QED  BY <1>4 DEF after

LEMMA Appended ==
    ASSUME NEW S, NEW s \in Seq(S), NEW e \in S, NEW t, t = Append(s, e)
    PROVE  /\ t \in Seq(S)
           /\ Len(s) \in Nat /\ DOMAIN s = 1..Len(s)
           /\ Len(t) = Len(s) + 1 /\ DOMAIN t = 1..(Len(s) + 1)
           /\ t[Len(s) + 1] = e
           /\ \A i \in 1..Len(s) : t[i] = s[i]
  OBVIOUS

(* What reading a plugin leaves alone.                                     *)
Same(l, after) ==
    /\ DOMAIN after = DOMAIN l
    /\ after.pc = l.pc /\ after.schedule = l.schedule /\ after.entries = l.entries
    /\ after.next = l.next /\ after.bytes = l.bytes

LEMMA PluginEffect ==
    ASSUME NEW l, LoadShape(l), NEW folder, NEW declared, NEW after,
           after = LoadPlugin(l, folder, declared)
    PROVE  /\ DOMAIN after = DOMAIN l
           /\ after.pc = l.pc /\ after.schedule = l.schedule /\ after.entries = l.entries
           /\ after.next = l.next /\ after.bytes = l.bytes
           /\ after.read = Append(l.read, declared)
           /\ after.failed \in BOOLEAN
           /\ after.definitions \in
                {l.definitions, Append(l.definitions, Definition(folder, declared))}
           /\ ~after.failed =>
                /\ ~l.failed /\ declared.id \notin l.ids
                /\ MenuPaths(declared) \intersect l.paths = {}
                /\ after.ids = l.ids \union {declared.id}
                /\ after.paths = l.paths \union MenuPaths(declared)
                /\ declared.enabled =>
                    /\ after.definitions = Append(l.definitions, Definition(folder, declared))
                    /\ after.menus = l.menus \union Menus(declared)
                /\ ~declared.enabled =>
                    after.definitions = l.definitions /\ after.menus = l.menus
  <1>. DEFINE seen == [l EXCEPT !.read = Append(@, declared)]
              known == [seen EXCEPT !.ids = @ \union {declared.id}]
              listed == [known EXCEPT !.paths = @ \union MenuPaths(declared)]
              shown == Shown(listed, declared)
              full == [shown EXCEPT !.definitions = Append(@, Definition(folder, declared)),
                                    !.menus = @ \union Menus(declared)]
  <1>1. after = IF Has(declared, FileFaults) \/ declared.id \in l.ids THEN Failed(seen)
                ELSE IF Has(declared, TransformFaults) THEN Failed(known)
                ELSE IF \/ Has(declared, ReferenceFaults)
                        \/ MenuPaths(declared) \intersect l.paths # {}
                        \/ RefusedSource(l, declared)
                     THEN Failed(listed)
                ELSE IF ~declared.enabled THEN shown
                ELSE IF Has(declared, DefinitionFaults) THEN Failed(shown)
                ELSE full
    BY Zenon DEF LoadPlugin
  <1>2. /\ DOMAIN l = DOMAIN NewLoad /\ l.failed \in BOOLEAN
    BY DEF LoadShape
  <1>3. /\ Same(l, seen) /\ seen.failed = l.failed /\ seen.ids = l.ids
        /\ seen.paths = l.paths /\ seen.menus = l.menus
        /\ seen.definitions = l.definitions
        /\ seen.read = Append(l.read, declared)
    BY <1>2 DEF NewLoad, Same
  <1>4. /\ Same(l, known) /\ known.failed = l.failed /\ known.ids = l.ids \union {declared.id}
        /\ known.paths = l.paths /\ known.menus = l.menus
        /\ known.definitions = l.definitions
        /\ known.read = Append(l.read, declared)
    <2>. HIDE DEF seen
    <2>. QED  BY <1>2, <1>3 DEF NewLoad, Same
  <1>5. /\ Same(l, listed) /\ listed.failed = l.failed
        /\ listed.ids = l.ids \union {declared.id}
        /\ listed.paths = l.paths \union MenuPaths(declared)
        /\ listed.menus = l.menus
        /\ listed.definitions = l.definitions
        /\ listed.read = Append(l.read, declared)
    <2>. HIDE DEF known
    <2>. QED  BY <1>2, <1>4 DEF NewLoad, Same
  <1>6. /\ Same(l, shown) /\ shown.failed = l.failed
        /\ shown.ids = l.ids \union {declared.id}
        /\ shown.paths = l.paths \union MenuPaths(declared)
        /\ shown.menus = l.menus
        /\ shown.definitions = l.definitions
        /\ shown.read = Append(l.read, declared)
    <2>. HIDE DEF listed
    <2>. QED  BY <1>2, <1>5 DEF NewLoad, Same, Shown
  <1>7. /\ Same(l, full) /\ full.failed = l.failed
        /\ full.ids = l.ids \union {declared.id}
        /\ full.paths = l.paths \union MenuPaths(declared)
        /\ full.menus = l.menus \union Menus(declared)
        /\ full.definitions = Append(l.definitions, Definition(folder, declared))
        /\ full.read = Append(l.read, declared)
    <2>. HIDE DEF shown
    <2>. QED  BY <1>2, <1>6 DEF NewLoad, Same
  <1>8. ASSUME NEW x, Same(l, x), x.read = Append(l.read, declared),
               x.definitions = l.definitions
        PROVE  /\ Same(l, Failed(x)) /\ Failed(x).failed = TRUE
               /\ Failed(x).definitions = l.definitions
               /\ Failed(x).read = Append(l.read, declared)
    BY <1>2, <1>8 DEF NewLoad, Same, Failed
  <1>. HIDE DEF seen, known, listed, shown, full
  <1>9. CASE after \in {Failed(seen), Failed(known), Failed(listed), Failed(shown)}
    <2>1. PICK x \in {seen, known, listed, shown} : after = Failed(x)
      BY <1>9
    <2>2. Same(l, x) /\ x.read = Append(l.read, declared) /\ x.definitions = l.definitions
      BY <1>3, <1>4, <1>5, <1>6, <2>1
    <2>3. /\ Same(l, after) /\ after.failed = TRUE
          /\ after.definitions = l.definitions /\ after.read = Append(l.read, declared)
      BY <1>8, <2>1, <2>2
    <2>. QED  BY <2>3 DEF Same
  <1>10. CASE /\ declared.id \notin l.ids /\ MenuPaths(declared) \intersect l.paths = {}
              /\ ~declared.enabled /\ after = shown
    BY <1>10, <1>6, <1>2 DEF Same
  <1>11. CASE /\ declared.id \notin l.ids /\ MenuPaths(declared) \intersect l.paths = {}
              /\ declared.enabled /\ after = full
    BY <1>11, <1>7, <1>2 DEF Same
  <1>. QED  BY <1>1, <1>9, <1>10, <1>11

LEMMA DistinctStays ==
    ASSUME NEW l, LoadShape(l), Distinct(l.read, l.ids, l.paths), NEW declared \in Declared, NEW after,
           after.read = Append(l.read, declared),
           declared.id \notin l.ids, MenuPaths(declared) \intersect l.paths = {},
           after.ids = l.ids \union {declared.id},
           after.paths = l.paths \union MenuPaths(declared)
    PROVE  Distinct(after.read, after.ids, after.paths)
  <1>. DEFINE n == Len(l.read)
              r == l.read
              a == after.read
  <1>1. /\ n \in Nat /\ DOMAIN r = 1..n
        /\ DOMAIN a = 1..(n + 1) /\ a[n + 1] = declared
        /\ \A i \in 1..n : a[i] = r[i]
    BY Appended DEF LoadShape
  <1>2. \A i \in DOMAIN r : r[i].id \in l.ids /\ MenuPaths(r[i]) \subseteq l.paths
    BY DEF Distinct
  <1>3. after.ids = {a[i].id : i \in DOMAIN a}
    BY <1>1 DEF Distinct
  <1>4. after.paths = UNION {MenuPaths(a[i]) : i \in DOMAIN a}
    <2>1. l.paths = UNION {MenuPaths(r[i]) : i \in DOMAIN r}
      BY DEF Distinct
    <2>2. /\ n + 1 \in DOMAIN a /\ \A i \in DOMAIN r : i \in DOMAIN a /\ a[i] = r[i]
          /\ \A i \in DOMAIN a : i \in DOMAIN r \/ i = n + 1
      BY <1>1
    <2>3. ASSUME NEW x \in after.paths PROVE \E i \in DOMAIN a : x \in MenuPaths(a[i])
      <3>1. CASE x \in l.paths
        <4>1. PICK i \in DOMAIN r : x \in MenuPaths(r[i])
          BY <2>1, <3>1
        <4>. QED  BY <2>2, <4>1
      <3>2. CASE x \in MenuPaths(declared)
        BY <1>1, <2>2, <3>2
      <3>. QED  BY <2>3, <3>1, <3>2
    <2>4. ASSUME NEW i \in DOMAIN a, NEW x \in MenuPaths(a[i]) PROVE x \in after.paths
      <3>1. CASE i \in DOMAIN r
        BY <1>2, <2>2, <2>4, <3>1
      <3>2. CASE i = n + 1
        BY <1>1, <2>4, <3>2
      <3>. QED  BY <2>2, <3>1, <3>2
    <2>. HIDE DEF a, r
    <2>. QED  BY <2>3, <2>4
  <1>5. ASSUME NEW i \in DOMAIN a, NEW j \in DOMAIN a, i # j
        PROVE  a[i].id # a[j].id /\ MenuPaths(a[i]) \intersect MenuPaths(a[j]) = {}
    <2>1. CASE i \in 1..n /\ j \in 1..n
      <3>1. /\ r[i].id # r[j].id
            /\ MenuPaths(r[i]) \intersect MenuPaths(r[j]) = {}
        BY <2>1, <1>1, <1>5 DEF Distinct
      <3>. QED  BY <1>1, <2>1, <3>1
    <2>2. CASE i = n + 1 /\ j \in 1..n
      BY <2>2, <1>1, <1>2
    <2>3. CASE j = n + 1 /\ i \in 1..n
      BY <2>3, <1>1, <1>2
    <2>4. i \in 1..(n + 1) /\ j \in 1..(n + 1)
      BY <1>1, <1>5
    <2>. HIDE DEF n, r, a
    <2>. QED  BY <1>1, <1>5, <2>1, <2>2, <2>3, <2>4
  <1>. QED  BY <1>3, <1>4, <1>5 DEF Distinct

LEMMA DefinedStays ==
    ASSUME NEW l, LoadShape(l), Defined(l.read, l.definitions, l.menus),
           NEW declared \in Declared, NEW after,
           NEW new \in Known, new.declared = declared, new.id = declared.id,
           after.read = Append(l.read, declared),
           declared.enabled =>
                /\ after.definitions = Append(l.definitions, new)
                /\ after.menus = l.menus \union Menus(declared),
           ~declared.enabled => after.definitions = l.definitions /\ after.menus = l.menus
    PROVE  Defined(after.read, after.definitions, after.menus)
  <1>. DEFINE n == Len(l.read)
              m == Len(l.definitions)
  <1>1. /\ n \in Nat /\ DOMAIN l.read = 1..n
        /\ DOMAIN after.read = 1..(n + 1) /\ after.read[n + 1] = declared
        /\ \A i \in 1..n : after.read[i] = l.read[i]
    BY Appended DEF LoadShape
  <1>0. m \in Nat /\ DOMAIN l.definitions = 1..m
    BY DEF LoadShape
  <1>2. CASE declared.enabled
    <2>1. /\ DOMAIN after.definitions = 1..(m + 1) /\ after.definitions[m + 1] = new
          /\ \A i \in 1..m : after.definitions[i] = l.definitions[i]
      <3>1. after.definitions = Append(l.definitions, new) /\ l.definitions \in Seq(Known)
        BY <1>2 DEF LoadShape
      <3>. QED  BY <1>0, <3>1, Appended
    <2>2. new.declared = declared /\ new.id = declared.id
      OBVIOUS
    <2>3. \A menu \in Menus(declared) : menu.id = declared.id
      BY DEF Menus
    <2>. HIDE DEF n, m
    <2>4. {after.definitions[i].declared : i \in DOMAIN after.definitions} =
            {l.definitions[i].declared : i \in DOMAIN l.definitions} \union {declared}
      <3>. DEFINE A == {after.definitions[i].declared : i \in DOMAIN after.definitions}
                  B == {l.definitions[i].declared : i \in DOMAIN l.definitions}
      <3>1. \A i \in 1..m : after.definitions[i].declared = l.definitions[i].declared
        BY <2>1
      <3>2. after.definitions[m + 1].declared = declared
        BY <2>1, <2>2
      <3>3. 1..(m + 1) = (1..m) \union {m + 1}
        BY <1>0
      <3>4. A = {after.definitions[i].declared : i \in (1..m) \union {m + 1}}
        BY <2>1, <3>3, Zenon
      <3>5. B = {l.definitions[i].declared : i \in 1..m}
        BY <1>0, Zenon
      <3>6. ASSUME NEW x \in A PROVE x \in B \union {declared}
        <4>1. PICK i \in (1..m) \union {m + 1} : x = after.definitions[i].declared
          BY <3>4, <3>6, Zenon
        <4>2. CASE i \in 1..m
          <5>1. x = l.definitions[i].declared
            BY <3>1, <4>1, <4>2, Zenon
          <5>. QED  BY <3>5, <4>2, <5>1, Zenon
        <4>. QED  BY <3>2, <4>1, <4>2, Zenon
      <3>7. ASSUME NEW x \in B PROVE x \in A
        <4>1. PICK i \in 1..m : x = l.definitions[i].declared
          BY <3>5, <3>7, Zenon
        <4>2. x = after.definitions[i].declared
          BY <3>1, <4>1, Zenon
        <4>. QED  BY <3>4, <4>2, Zenon
      <3>8. declared \in A
        BY <3>2, <3>4, Zenon
      <3>. QED  BY <3>6, <3>7, <3>8
    <2>5. {after.read[i] : i \in {j \in DOMAIN after.read : after.read[j].enabled}} =
            {l.read[i] : i \in {j \in DOMAIN l.read : l.read[j].enabled}} \union {declared}
      <3>1. {j \in DOMAIN after.read : after.read[j].enabled} =
                {j \in DOMAIN l.read : l.read[j].enabled} \union {n + 1}
        BY <1>1, <1>2
      <3>. QED  BY <1>1, <3>1
    <2>6. \A menu \in after.menus :
            \E i \in DOMAIN after.definitions : after.definitions[i].id = menu.id
      <3>. SUFFICES ASSUME NEW menu \in after.menus
                    PROVE  \E i \in DOMAIN after.definitions : after.definitions[i].id = menu.id
        OBVIOUS
      <3>1. CASE menu \in l.menus
        <4>1. PICK i \in DOMAIN l.definitions : l.definitions[i].id = menu.id
          BY <3>1 DEF Defined
        <4>. QED  BY <1>0, <2>1, <4>1
      <3>2. CASE menu \in Menus(declared)
        BY <1>0, <2>1, <2>2, <2>3, <3>2
      <3>. QED  BY <1>2, <3>1, <3>2
    <2>. QED  BY <2>4, <2>5, <2>6 DEF Defined
  <1>3. CASE ~declared.enabled
    <2>1. {after.read[i] : i \in {j \in DOMAIN after.read : after.read[j].enabled}} =
            {l.read[i] : i \in {j \in DOMAIN l.read : l.read[j].enabled}}
      <3>. HIDE DEF n
      <3>1. {j \in DOMAIN after.read : after.read[j].enabled} =
                {j \in DOMAIN l.read : l.read[j].enabled}
        BY <1>1, <1>3
      <3>. QED  BY <1>1, <3>1
    <2>2. after.definitions = l.definitions /\ after.menus = l.menus
      BY <1>3
    <2>3. {after.definitions[i].declared : i \in DOMAIN after.definitions} =
            {l.definitions[i].declared : i \in DOMAIN l.definitions}
      BY <2>2
    <2>4. \A menu \in after.menus :
            \E i \in DOMAIN after.definitions : after.definitions[i].id = menu.id
      BY <2>2 DEF Defined
    <2>. QED  BY <2>1, <2>3, <2>4 DEF Defined
  <1>. QED  BY <1>2, <1>3

LEMMA PluginFits ==
    ASSUME NEW l, LoadFits(l), l.pc = "plugins", Len(l.read) < Len(l.entries),
           NEW folder \in Folder, NEW declared \in Declared
    PROVE  LoadFits(LoadPlugin(l, folder, declared))
  <1>. DEFINE after == LoadPlugin(l, folder, declared)
              new == Definition(folder, declared)
  <1>0. LoadShape(l) /\ Phased(l)
    BY DEF LoadFits
  <1>. HIDE DEF after
  <1>1. after = LoadPlugin(l, folder, declared)
    BY DEF after
  <1>2. /\ DOMAIN after = DOMAIN l
        /\ after.pc = l.pc /\ after.schedule = l.schedule /\ after.entries = l.entries
        /\ after.next = l.next /\ after.bytes = l.bytes
        /\ after.read = Append(l.read, declared)
        /\ after.failed \in BOOLEAN
        /\ after.definitions \in {l.definitions, Append(l.definitions, new)}
    BY <1>0, <1>1, PluginEffect
  <1>3. new \in Known /\ new.declared = declared /\ new.id = declared.id
    BY DEF Definition, Known
  <1>. HIDE DEF new
  <1>4. LoadShape(after)
    <2>1. after.read \in Seq(Declared)
      BY <1>0, <1>2, Appended DEF LoadShape
    <2>2. after.definitions \in Seq(Known)
      BY <1>0, <1>2, <1>3, Appended DEF LoadShape
    <2>. QED  BY <1>0, <1>2, <2>1, <2>2 DEF LoadShape
  <1>5. Phased(after)
    <2>1. Len(after.read) = Len(l.read) + 1
      BY <1>0, <1>2 DEF LoadShape
    <2>2. Len(l.read) \in Nat /\ Len(l.entries) \in Nat
      BY <1>0 DEF LoadShape
    <2>. QED  BY <1>0, <1>2, <2>1, <2>2 DEF Phased
  <1>6. ASSUME ~after.failed PROVE Sound(after)
    <2>1. /\ ~l.failed /\ declared.id \notin l.ids
          /\ MenuPaths(declared) \intersect l.paths = {}
          /\ after.ids = l.ids \union {declared.id}
          /\ after.paths = l.paths \union MenuPaths(declared)
          /\ declared.enabled =>
                /\ after.definitions = Append(l.definitions, new)
                /\ after.menus = l.menus \union Menus(declared)
          /\ ~declared.enabled => after.definitions = l.definitions /\ after.menus = l.menus
      BY <1>0, <1>1, <1>6, PluginEffect DEF new
    <2>2. Distinct(l.read, l.ids, l.paths) /\ Defined(l.read, l.definitions, l.menus)
      BY <2>1 DEF LoadFits, Sound
    <2>3. Distinct(after.read, after.ids, after.paths)
      BY <1>0, <1>2, <2>1, <2>2, DistinctStays
    <2>4. Defined(after.read, after.definitions, after.menus)
      <3>1. after.read = Append(l.read, declared) /\ LoadShape(l)
        BY <1>0, <1>2
      <3>2. /\ declared.enabled =>
                /\ after.definitions = Append(l.definitions, new)
                /\ after.menus = l.menus \union Menus(declared)
            /\ ~declared.enabled => after.definitions = l.definitions /\ after.menus = l.menus
        BY <2>1
      <3>. QED  BY <1>3, <2>2, <3>1, <3>2, DefinedStays
    <2>5. Screened(after.definitions, after.next, after.schedule)
      <3>1. \A i \in DOMAIN after.definitions : i \in Nat /\ ~(i < 1)
        BY <1>4 DEF LoadShape
      <3>. QED  BY <1>0, <1>2, <3>1 DEF Screened, Phased
    <2>. QED  BY <2>3, <2>4, <2>5 DEF Sound
  <1>7. LoadFits(after)
    BY <1>4, <1>5, <1>6 DEF LoadFits
  <1>. QED  BY <1>7 DEF after

(* A definition gets its digest, and nothing else of it changes.            *)
LEMMA Digested ==
    ASSUME NEW defs \in Seq(Known), NEW n \in DOMAIN defs, NEW code \in Codes, NEW new,
           new = [defs EXCEPT ![n].digest = DigestOf(code)]
    PROVE  /\ new \in Seq(Known) /\ Len(new) = Len(defs) /\ DOMAIN new = DOMAIN defs
           /\ \A i \in DOMAIN defs : new[i].declared = defs[i].declared /\ new[i].id = defs[i].id
           /\ new[n].digest = DigestOf(code)
           /\ \A i \in DOMAIN defs : i # n => new[i] = defs[i]
  <1>. DEFINE value == [defs[n] EXCEPT !.digest = DigestOf(code)]
  <1>1. defs[n] \in Known
    OBVIOUS
  <1>2. /\ value \in Known /\ value.digest = DigestOf(code)
        /\ value.declared = defs[n].declared /\ value.id = defs[n].id
    BY <1>1 DEF Known
  <1>3. new = [defs EXCEPT ![n] = value]
    OBVIOUS
  <1>. HIDE DEF value
  <1>4. new \in Seq(Known) /\ Len(new) = Len(defs) /\ DOMAIN new = DOMAIN defs
    BY <1>2, <1>3
  <1>5. new[n] = value /\ \A i \in DOMAIN defs : i # n => new[i] = defs[i]
    BY <1>3
  <1>. QED  BY <1>2, <1>4, <1>5

LEMMA SameFits ==
    ASSUME NEW l, NEW after, LoadFits(l),
           after.failed = l.failed, after.schedule = l.schedule,
           after.read = l.read, after.ids = l.ids, after.paths = l.paths,
           after.definitions = l.definitions, after.menus = l.menus, after.next = l.next
    PROVE  ~after.failed => Sound(after)
  BY DEF LoadFits, Sound

LEMMA EndFits ==
    ASSUME NEW l, LoadFits(l), l.pc = "plugins", Len(l.read) = Len(l.entries)
    PROVE  LoadFits(EndLoad(l))
  <1>. DEFINE after == EndLoad(l)
  <1>0. LoadShape(l) /\ Phased(l)
    BY DEF LoadFits
  <1>1. /\ DOMAIN after = DOMAIN l /\ after.pc \in {"rejected", "transforms"}
        /\ after.failed = l.failed /\ after.schedule = l.schedule /\ after.entries = l.entries
        /\ after.read = l.read /\ after.ids = l.ids /\ after.paths = l.paths
        /\ after.definitions = l.definitions /\ after.menus = l.menus
        /\ after.next = l.next /\ after.bytes = l.bytes
    BY <1>0 DEF EndLoad, LoadShape, NewLoad
  <1>. HIDE DEF after
  <1>2. LoadShape(after) /\ Phased(after)
    BY <1>0, <1>1 DEF LoadShape, Phased
  <1>3. LoadFits(after)
    BY <1>0, <1>1, <1>2, SameFits DEF LoadFits
  <1>. QED  BY <1>3 DEF after

LEMMA BytesFit ==
    ASSUME NEW l, LoadFits(l), l.pc = "transforms", l.next <= Len(l.definitions),
           NEW code \in Codes, l.schedule => Live(l.definitions[l.next].declared)
    PROVE  LoadFits([l EXCEPT !.pc = "loading", !.bytes = code])
  <1>. DEFINE after == [l EXCEPT !.pc = "loading", !.bytes = code]
  <1>0. LoadShape(l) /\ Phased(l)
    BY DEF LoadFits
  <1>1. /\ DOMAIN after = DOMAIN l /\ after.pc = "loading"
        /\ after.failed = l.failed /\ after.schedule = l.schedule /\ after.entries = l.entries
        /\ after.read = l.read /\ after.ids = l.ids /\ after.paths = l.paths
        /\ after.definitions = l.definitions /\ after.menus = l.menus
        /\ after.next = l.next /\ after.bytes = code
    BY <1>0 DEF LoadShape, NewLoad
  <1>. HIDE DEF after
  <1>2. LoadShape(after) /\ Phased(after)
    BY <1>0, <1>1 DEF LoadShape, Phased
  <1>3. LoadFits(after)
    BY <1>0, <1>1, <1>2, SameFits DEF LoadFits
  <1>. QED  BY <1>3 DEF after

LEMMA UnfitFits ==
    ASSUME NEW l, LoadFits(l), l.pc \in {"transforms", "loading"}
    PROVE  LoadFits(Failed([l EXCEPT !.pc = "transforms", !.next = @ + 1, !.bytes = Nothing]))
  <1>. DEFINE after == Failed([l EXCEPT !.pc = "transforms", !.next = @ + 1, !.bytes = Nothing])
  <1>0. LoadShape(l) /\ Phased(l)
    BY DEF LoadFits
  <1>1. /\ DOMAIN after = DOMAIN l /\ after.pc = "transforms"
        /\ after.failed = TRUE /\ after.schedule = l.schedule /\ after.entries = l.entries
        /\ after.read = l.read /\ after.definitions = l.definitions
        /\ after.next = l.next + 1 /\ after.bytes = Nothing
    BY <1>0 DEF Failed, LoadShape, NewLoad
  <1>. HIDE DEF after
  <1>2. LoadShape(after)
    <2>1. l.next + 1 \in Nat \ {0}
      BY <1>0 DEF LoadShape
    <2>. QED  BY <1>0, <1>1, <2>1 DEF LoadShape
  <1>4. Phased(after)
    BY <1>0, <1>1 DEF LoadShape, Phased
  <1>3. LoadFits(after)
    BY <1>1, <1>2, <1>4 DEF LoadFits
  <1>. QED  BY <1>3 DEF after

LEMMA CheckedFits ==
    ASSUME NEW l, LoadFits(l), l.pc \in {"transforms", "loading"},
           l.next <= Len(l.definitions), NEW code \in Codes,
           l.schedule /\ ~Live(l.definitions[l.next].declared) => code \in Pure
    PROVE  LoadFits([l EXCEPT !.pc = "transforms", !.next = @ + 1, !.bytes = Nothing,
                              !.definitions[l.next].digest = DigestOf(code)])
  <1>. DEFINE n == l.next
              defs == l.definitions
              new == [defs EXCEPT ![n].digest = DigestOf(code)]
              after == [l EXCEPT !.pc = "transforms", !.next = @ + 1, !.bytes = Nothing,
                                 !.definitions[l.next].digest = DigestOf(code)]
  <1>0. LoadShape(l) /\ Phased(l)
    BY DEF LoadFits
  <1>1. /\ DOMAIN after = DOMAIN l /\ after.pc = "transforms"
        /\ after.failed = l.failed /\ after.schedule = l.schedule /\ after.entries = l.entries
        /\ after.read = l.read /\ after.ids = l.ids /\ after.paths = l.paths
        /\ after.definitions = new /\ after.menus = l.menus
        /\ after.next = n + 1 /\ after.bytes = Nothing
    BY <1>0 DEF LoadShape, NewLoad
  <1>2. defs \in Seq(Known) /\ n \in DOMAIN defs /\ n \in Nat
    BY <1>0 DEF LoadShape
  <1>3. /\ new \in Seq(Known) /\ Len(new) = Len(defs) /\ DOMAIN new = DOMAIN defs
        /\ \A i \in DOMAIN defs : new[i].declared = defs[i].declared /\ new[i].id = defs[i].id
        /\ new[n].digest = DigestOf(code)
        /\ \A i \in DOMAIN defs : i # n => new[i] = defs[i]
    <2>1. new = [defs EXCEPT ![n].digest = DigestOf(code)]
      OBVIOUS
    <2>. HIDE DEF new, defs
    <2>. QED  BY <1>2, <2>1, Digested
  <1>4. LoadShape(after) /\ Phased(after)
    <2>. HIDE DEF new, after
    <2>. QED  BY <1>0, <1>1, <1>3 DEF LoadShape, Phased
  <1>5. ASSUME ~after.failed PROVE Sound(after)
    <2>1. Sound(l)
      BY <1>1, <1>5 DEF LoadFits
    <2>. HIDE DEF new, after
    <2>2. Distinct(after.read, after.ids, after.paths)
      BY <1>1, <2>1 DEF Sound
    <2>3. {new[i].declared : i \in DOMAIN new} = {defs[i].declared : i \in DOMAIN defs}
      BY <1>3, Zenon
    <2>4. Defined(after.read, after.definitions, after.menus)
      <3>1. Defined(l.read, new, l.menus)
        BY <2>1, <2>3, <1>3 DEF Sound, Defined
      <3>. QED  BY <1>1, <3>1
    <2>5. Screened(after.definitions, after.next, after.schedule)
      <3>. SUFFICES ASSUME NEW i \in DOMAIN defs, i < n + 1, l.schedule,
                           ~Live(new[i].declared)
                    PROVE  \E c \in Pure : new[i].digest = DigestOf(c)
        BY <1>1, <1>3 DEF Screened
      <3>1. i \in Nat
        BY <1>2
      <3>2. CASE i = n
        BY <3>2, <1>3
      <3>3. CASE i < n
        BY <3>3, <1>2, <1>3, <2>1 DEF Sound, Screened
      <3>. QED  BY <3>1, <3>2, <3>3, <1>2
    <2>. QED  BY <2>2, <2>4, <2>5 DEF Sound
  <1>6. LoadFits(after)
    BY <1>4, <1>5 DEF LoadFits
  <1>. QED  BY <1>6 DEF after

LEMMA DoneFits ==
    ASSUME NEW l, LoadFits(l), l.pc = "transforms", ~(l.next <= Len(l.definitions))
    PROVE  LoadFits([l EXCEPT !.pc = IF l.failed THEN "rejected" ELSE "accepted"])
  <1>. DEFINE after == [l EXCEPT !.pc = IF l.failed THEN "rejected" ELSE "accepted"]
  <1>0. LoadShape(l) /\ Phased(l)
    BY DEF LoadFits
  <1>1. /\ DOMAIN after = DOMAIN l
        /\ after.pc = IF l.failed THEN "rejected" ELSE "accepted"
        /\ after.failed = l.failed /\ after.schedule = l.schedule /\ after.entries = l.entries
        /\ after.read = l.read /\ after.ids = l.ids /\ after.paths = l.paths
        /\ after.definitions = l.definitions /\ after.menus = l.menus
        /\ after.next = l.next /\ after.bytes = l.bytes
    BY <1>0 DEF LoadShape, NewLoad
  <1>. HIDE DEF after
  <1>2. LoadShape(after) /\ Phased(after)
    BY <1>0, <1>1 DEF LoadShape, Phased
  <1>3. LoadFits(after)
    BY <1>0, <1>1, <1>2, SameFits DEF LoadFits
  <1>. QED  BY <1>3 DEF after

-----------------------------------------------------------------------------
(* The steps.                                                              *)

CacheShape == cache \in [Process -> [Folder -> Codes \union {Nothing}]]

LEMMA CodeOf == ASSUME NEW d \in Disk, NEW f \in Folder PROVE d.code[f] \in Codes
  BY DEF Codes

LEMMA LoadMoves ==
    ASSUME RuntimeInv, NEW p \in Process, NEW after, LoadFits(after),
           load' = [load EXCEPT ![p] = after],
           UNCHANGED <<disk, edits, api, registry, captured, run>>, CacheShape'
    PROVE  RuntimeInv'
  <1>1. DOMAIN load' = Process /\ \A q \in Process : load'[q] = IF q = p THEN after ELSE load[q]
    BY DEF RuntimeInv
  <1>2. \A q \in Process : LoadFits(load'[q])
    BY <1>1 DEF RuntimeInv
  <1>3. CapturedFit'
    BY DEF RuntimeInv, CapturedFit
  <1>4. \A s \in Slot : RunFits(run[s])'
    BY DEF RuntimeInv, RunFits, RunShape, FromSnapshot, Revision, Understandable
  <1>. QED  BY <1>1, <1>2, <1>3, <1>4 DEF RuntimeInv, CacheShape

LEMMA HomeIs == ASSUME NEW p \in Process PROVE Home(p) \in Process
  BY DEF Home, Process, Api

LEMMA RequiredIs ==
    ASSUME RuntimeInv, NEW p \in Process, NEW folder \in Folder
    PROVE  Required(p, folder) \in Codes
  <1>1. disk.code[folder] \in Codes
    BY CodeOf DEF RuntimeInv
  <1>2. cache[Home(p)][folder] \in Codes \union {Nothing}
    BY HomeIs DEF RuntimeInv
  <1>. QED  BY <1>1, <1>2 DEF Required

LEMMA Caching ==
    ASSUME RuntimeInv, NEW p \in Process, NEW folder, NEW code,
           folder \in Folder => code \in Codes,
           cache' = [cache EXCEPT ![Home(p)][folder] = code]
    PROVE  CacheShape'
  <1>. DEFINE h == Home(p)
              kept == [cache[h] EXCEPT ![folder] = code]
  <1>1. h \in Process /\ cache[h] \in [Folder -> Codes \union {Nothing}]
    BY HomeIs DEF RuntimeInv
  <1>2. kept \in [Folder -> Codes \union {Nothing}]
    BY <1>1
  <1>3. cache' = [cache EXCEPT ![h] = kept]
    OBVIOUS
  <1>. HIDE DEF h, kept
  <1>. QED  BY <1>1, <1>2, <1>3 DEF RuntimeInv, CacheShape

LEMMA Loading ==
    ASSUME RuntimeInv, NEW p \in Process, Preflight(p)
    PROVE  RuntimeInv'
  <1>. DEFINE l == load[p]
  <1>0. LoadFits(l) /\ LoadShape(l) /\ Phased(l) /\ disk \in Disk
    BY DEF RuntimeInv, LoadFits
  <1>a. cache' = cache => CacheShape'
    BY DEF RuntimeInv, CacheShape
  <1>1. CASE ReadConnections(p)
    <2>1. LoadFits(LoadConnections(l, disk))
      BY <1>0, <1>1, ConnectionsFit DEF ReadConnections, LoadStep
    <2>. QED  BY <1>1, <1>a, <2>1, LoadMoves DEF ReadConnections, LoadStep
  <1>2. CASE ReadRegistry(p)
    <2>1. LoadFits(LoadRegistry(l, disk))
      BY <1>0, <1>2, RegistryFits DEF ReadRegistry, LoadStep
    <2>. QED  BY <1>2, <1>a, <2>1, LoadMoves DEF ReadRegistry, LoadStep
  <1>3. CASE ReadPlugin(p)
    <2>. DEFINE folder == l.entries[Len(l.read) + 1]
                declared == disk.plugin[folder]
    <2>1. Len(l.read) < Len(l.entries) /\ l.pc = "plugins"
      BY <1>3 DEF ReadPlugin, LoadStep
    <2>2. folder \in Folder
      BY <1>0, <2>1 DEF LoadShape
    <2>3. declared \in Declared
      BY <1>0, <2>2 DEF Declared
    <2>4. LoadFits(LoadPlugin(l, folder, declared))
      <3>. HIDE DEF folder, declared
      <3>. QED  BY <1>0, <2>1, <2>2, <2>3, PluginFits
    <2>5. LoadStep(p, "plugins", LoadPlugin(l, folder, declared)) /\ cache' = cache
      BY <1>3 DEF ReadPlugin
    <2>. HIDE DEF folder, declared
    <2>. QED  BY <1>a, <2>4, <2>5, LoadMoves DEF LoadStep
  <1>4. CASE EndPlugins(p)
    <2>1. LoadFits(EndLoad(l))
      BY <1>0, <1>4, EndFits DEF EndPlugins, LoadStep
    <2>. QED  BY <1>4, <1>a, <2>1, LoadMoves DEF EndPlugins, LoadStep
  <1>b. ASSUME AtDefinition(p) PROVE /\ Current(p) \in Known
                                      /\ l.next \in DOMAIN l.definitions
                                      /\ l.next <= Len(l.definitions)
    BY <1>0, <1>b DEF AtDefinition, Current, LoadShape
  <1>c. Unfit(p) = Failed([l EXCEPT !.pc = "transforms", !.next = @ + 1, !.bytes = Nothing])
    BY DEF Unfit
  <1>d. ASSUME NEW code PROVE Checked(p, code) =
            [l EXCEPT !.pc = "transforms", !.next = @ + 1, !.bytes = Nothing,
                      !.definitions[l.next].digest = DigestOf(code)]
    BY DEF Checked
  <1>5. CASE ReadTransform(p)
    <2>. DEFINE code == disk.code[Current(p).folder]
                after == CASE ~FromBytes(p) -> [l EXCEPT !.pc = "loading", !.bytes = code]
                           [] FromBytes(p) /\ FitForSchedule(Current(p), code) -> Checked(p, code)
                           [] OTHER -> Unfit(p)
    <2>1. l.pc = "transforms" /\ AtDefinition(p)
      BY <1>5 DEF ReadTransform
    <2>2. code \in Codes
      BY <1>0, <1>b, <2>1, CodeOf DEF Known
    <2>3. LoadStep(p, "transforms", after) /\ cache' = cache
      BY <1>5 DEF ReadTransform
    <2>. HIDE DEF code
    <2>4. FromBytes(p) <=> l.schedule /\ ~Live(l.definitions[l.next].declared)
      BY DEF FromBytes, Current
    <2>5. CASE ~FromBytes(p)
      <3>1. LoadFits([l EXCEPT !.pc = "loading", !.bytes = code])
        BY <1>0, <1>b, <2>1, <2>2, <2>4, <2>5, BytesFit
      <3>2. after = [l EXCEPT !.pc = "loading", !.bytes = code]
        BY <2>5
      <3>. HIDE DEF after
      <3>. QED  BY <1>a, <2>3, <3>1, <3>2, LoadMoves DEF LoadStep
    <2>6. CASE FromBytes(p) /\ FitForSchedule(Current(p), code)
      <3>1. code \in Pure
        BY <2>6 DEF FitForSchedule, SelfContained
      <3>2. LoadFits(Checked(p, code))
        <4>1. LoadFits([l EXCEPT !.pc = "transforms", !.next = @ + 1, !.bytes = Nothing,
                                 !.definitions[l.next].digest = DigestOf(code)])
          BY <1>0, <1>b, <2>1, <2>2, <3>1, CheckedFits
        <4>. QED  BY <4>1, <1>d, Zenon
      <3>3. after = Checked(p, code)
        BY <2>6
      <3>. HIDE DEF after
      <3>. QED  BY <1>a, <2>3, <3>2, <3>3, LoadMoves DEF LoadStep
    <2>7. CASE FromBytes(p) /\ ~FitForSchedule(Current(p), code)
      <3>1. LoadFits(Unfit(p))
        BY <1>0, <1>c, <2>1, UnfitFits
      <3>2. after = Unfit(p)
        BY <2>7
      <3>. HIDE DEF after
      <3>. QED  BY <1>a, <2>3, <3>1, <3>2, LoadMoves DEF LoadStep
    <2>. QED  BY <2>5, <2>6, <2>7
  <1>6. CASE LoadModule(p)
    <2>. DEFINE folder == Current(p).folder
                code == Required(p, folder)
    <2>1. l.pc = "loading" /\ AtDefinition(p)
      BY <1>6 DEF LoadModule
    <2>2. folder \in Folder
      BY <1>b, <2>1 DEF Known
    <2>3. code \in Codes
      BY <2>2, RequiredIs
    <2>4. \/ /\ LoadStep(p, "loading", Checked(p, l.bytes))
             /\ cache' = [cache EXCEPT ![Home(p)][folder] = code]
          \/ LoadStep(p, "loading", Unfit(p)) /\ cache' \in CachesAfter(p, folder, code)
      BY <1>6, Zenon DEF LoadModule
    <2>. HIDE DEF folder, code
    <2>5. CASE /\ LoadStep(p, "loading", Checked(p, l.bytes))
               /\ cache' = [cache EXCEPT ![Home(p)][folder] = code]
      <3>1. l.bytes \in Codes /\ (l.schedule => Live(l.definitions[l.next].declared))
        BY <1>0, <2>1 DEF Phased
      <3>2. LoadFits(Checked(p, l.bytes))
        <4>. DEFINE c == l.bytes
        <4>1. LoadFits([l EXCEPT !.pc = "transforms", !.next = @ + 1, !.bytes = Nothing,
                                 !.definitions[l.next].digest = DigestOf(c)])
          BY <1>0, <1>b, <2>1, <3>1, CheckedFits
        <4>. QED  BY <4>1, <1>d, Zenon
      <3>3. CacheShape'
        BY <2>3, <2>5, Caching
      <3>. QED  BY <2>5, <3>2, <3>3, LoadMoves DEF LoadStep
    <2>6. CASE LoadStep(p, "loading", Unfit(p)) /\ cache' \in CachesAfter(p, folder, code)
      <3>1. LoadFits(Unfit(p))
        BY <1>0, <1>c, <2>1, UnfitFits
      <3>2. CacheShape'
        BY <1>a, <2>3, <2>6, Caching DEF CachesAfter
      <3>. QED  BY <2>6, <3>1, <3>2, LoadMoves DEF LoadStep
    <2>. QED  BY <2>4, <2>5, <2>6
  <1>7. CASE EndTransforms(p)
    <2>1. LoadFits([l EXCEPT !.pc = IF l.failed THEN "rejected" ELSE "accepted"])
      BY <1>0, <1>7, DoneFits DEF EndTransforms, LoadStep, AtDefinition
    <2>. QED  BY <1>7, <1>a, <2>1, LoadMoves DEF EndTransforms, LoadStep
  <1>. QED  BY <1>1, <1>2, <1>3, <1>4, <1>5, <1>6, <1>7 DEF Preflight

(* What the API does before it is up concerns no collection.               *)
LEMMA ApiMoves ==
    ASSUME RuntimeInv, api # "up", CapturedFit',
           UNCHANGED <<disk, edits, load, cache, run>>
    PROVE  RuntimeInv'
  <1>1. \A s \in Slot : run[s].pc = "none" /\ RunFits(run[s])
    BY DEF RuntimeInv, RunFits, RunShape
  <1>2. ASSUME NEW s \in Slot PROVE RunFits(run[s])'
    <2>1. run[s].pc = "none" /\ RunFits(run[s]) /\ run' = run
      BY <1>1
    <2>. QED  BY <2>1 DEF RunFits, RunShape
  <1>3. \A p \in Process : LoadFits(load[p])'
    BY DEF RuntimeInv
  <1>. QED  BY <1>2, <1>3 DEF RuntimeInv

LEMMA Creating == ASSUME RuntimeInv, CreateRegistry PROVE RuntimeInv'
  <1>1. load[Api].definitions \in Seq(Known)
    BY DEF RuntimeInv, LoadFits, LoadShape, Process
  <1>2. CapturedFit'
    BY <1>1 DEF RuntimeInv, CapturedFit, CreateRegistry
  <1>. QED  BY <1>2, ApiMoves DEF CreateRegistry

LEMMA Capturing == ASSUME RuntimeInv, CaptureSnapshot PROVE RuntimeInv'
  <1>1. PICK i \in Stored \ DOMAIN captured :
            LET code == disk.code[registry[i].folder]
            IN  IF Captures(registry[i], code)
                THEN /\ captured' = [j \in DOMAIN captured \union {i} |->
                             IF j = i THEN Snapshot(registry[i], code) ELSE captured[j]]
                     /\ UNCHANGED api
                ELSE api' = "failed" /\ UNCHANGED captured
    BY DEF CaptureSnapshot
  <1>. DEFINE code == disk.code[registry[i].folder]
              new == Snapshot(registry[i], code)
  <1>2. i \in DOMAIN registry
    BY DEF Stored
  <1>3. CASE /\ Captures(registry[i], code)
             /\ captured' = [j \in DOMAIN captured \union {i} |->
                     IF j = i THEN new ELSE captured[j]]
             /\ api' = api
    <2>1. new.definition = registry[i] /\ DigestOf(new.code) = registry[i].digest
      BY <1>3 DEF Snapshot, Captures
    <2>. HIDE DEF new, code
    <2>2. CapturedFit'
      BY <1>2, <1>3, <2>1 DEF RuntimeInv, CapturedFit, CaptureSnapshot
    <2>. QED  BY <2>2, ApiMoves DEF CaptureSnapshot
  <1>4. CASE api' = "failed" /\ captured' = captured
    <2>1. CapturedFit'
      BY <1>4 DEF RuntimeInv, CapturedFit, CaptureSnapshot
    <2>. QED  BY <2>1, ApiMoves DEF CaptureSnapshot
  <1>. QED  BY <1>1, <1>3, <1>4

LEMMA Opening == ASSUME RuntimeInv, ListenForRequests PROVE RuntimeInv'
  <1>1. CapturedFit'
    BY DEF RuntimeInv, CapturedFit, ListenForRequests
  <1>. QED  BY <1>1, ApiMoves DEF ListenForRequests

LEMMA RunMoves ==
    ASSUME RuntimeInv, NEW s \in Slot, NEW after, RunFits(after),
           run' = [run EXCEPT ![s] = after],
           UNCHANGED <<disk, edits, load, api, registry, captured>>, CacheShape'
    PROVE  RuntimeInv'
  <1>1. DOMAIN run' = Slot /\ \A q \in Slot : run'[q] = IF q = s THEN after ELSE run[q]
    BY DEF RuntimeInv
  <1>2. \A p \in Process : LoadFits(load[p])'
    BY DEF RuntimeInv
  <1>3. CapturedFit'
    BY DEF RuntimeInv, CapturedFit
  <1>4. ASSUME NEW r, RunFits(r), NEW q \in Slot, run'[q] = r PROVE RunFits(run[q])'
    BY <1>4 DEF RunFits, RunShape, FromSnapshot, Revision, Understandable
  <1>5. \A q \in Slot : RunFits(run[q])'
    BY <1>1, <1>4 DEF RuntimeInv
  <1>. QED  BY <1>1, <1>2, <1>3, <1>5 DEF RuntimeInv, CacheShape

LEMMA StartingUnscheduled ==
    ASSUME RuntimeInv, NEW s \in Slot, StartStartup(s) \/ StartManual(s)
    PROVE  RuntimeInv'
  <1>1. PICK kind \in {"startup", "manual"}, i \in DOMAIN registry :
            StartIn(s, [NoRun EXCEPT !.pc = "loading", !.kind = kind, !.id = registry[i].id])
    BY DEF StartStartup, StartManual, Stored
  <1>. DEFINE after == [NoRun EXCEPT !.pc = "loading", !.kind = kind, !.id = registry[i].id]
  <1>2. RunFits(after)
    BY <1>1, NothingAssumption DEF StartIn, RunFits, RunShape, NoRun, Status
  <1>. HIDE DEF after
  <1>. QED  BY <1>1, <1>2, RunMoves DEF StartIn, RuntimeInv, CacheShape, after

LEMMA StartingScheduled ==
    ASSUME RuntimeInv, NEW s \in Slot, StartScheduled(s)
    PROVE  RuntimeInv'
  <1>1. PICK i \in DOMAIN captured, whole \in BOOLEAN :
            StartIn(s, [NoRun EXCEPT
                !.pc = "verifying", !.kind = "scheduled",
                !.id = captured[i].definition.id,
                !.input = IF whole THEN captured[i] ELSE Nothing,
                !.expected = Revision(captured[i].definition)])
    BY DEF StartScheduled
  <1>. DEFINE after == [NoRun EXCEPT
                !.pc = "verifying", !.kind = "scheduled",
                !.id = captured[i].definition.id,
                !.input = IF whole THEN captured[i] ELSE Nothing,
                !.expected = Revision(captured[i].definition)]
  <1>2. /\ DOMAIN after = DOMAIN NoRun /\ after.pc = "verifying" /\ after.kind = "scheduled"
        /\ after.id = captured[i].definition.id /\ after.input \in {captured[i], Nothing}
        /\ after.expected = Revision(captured[i].definition)
        /\ after.definition = NoDefinition /\ after.outcome = Nothing
        /\ after.event = Nothing /\ after.exit = -1 /\ after.heard = Nothing
    BY DEF NoRun
  <1>3. api = "up"
    BY <1>1 DEF StartIn
  <1>. HIDE DEF after
  <1>4. RunShape(after)
    BY <1>2, <1>3, NothingAssumption DEF RunShape, Status
  <1>5. FromSnapshot(after, captured[i])
    BY <1>2 DEF FromSnapshot, Working
  <1>6. RunFits(after)
    BY <1>2, <1>4, <1>5 DEF RunFits
  <1>. QED  BY <1>1, <1>6, RunMoves DEF StartIn, RuntimeInv, CacheShape, after

(* A run that ends has an exit code that fits its outcome.                  *)
Fitting(outcome, exit) ==
    \/ outcome \in {"success", "duplicate"} /\ exit = 0
    \/ outcome = "partial" /\ exit = 2
    \/ outcome \in {"failed", "cancelled"} /\ exit \in {1, 3, 130}

LEMMA PluginNamed ==
    ASSUME RuntimeInv, NEW i \in DOMAIN captured
    PROVE  captured[i].definition.id # Nothing
  <1>1. captured[i].definition = registry[i] /\ i \in DOMAIN registry
    BY DEF RuntimeInv, CapturedFit
  <1>2. registry[i] \in Known
    BY <1>1 DEF RuntimeInv, CapturedFit
  <1>. QED  BY <1>1, <1>2, NothingAssumption DEF Known, Declared

LEMMA EndedFits ==
    ASSUME RuntimeInv, NEW s \in Slot, run[s].pc \in Working \union {"loading"},
           NEW outcome, NEW exit, Fitting(outcome, exit)
    PROVE  RunFits(Ended(s, outcome, exit))
  <1>. DEFINE r == run[s]
              after == Ended(s, outcome, exit)
  <1>0. RunFits(r) /\ RunShape(r)
    BY DEF RuntimeInv, RunFits
  <1>1. /\ DOMAIN after = DOMAIN r /\ after.pc = "ended" /\ after.kind = r.kind
        /\ after.id = r.id /\ after.input = r.input /\ after.expected = r.expected
        /\ after.definition = r.definition
        /\ after.outcome = outcome /\ after.event = outcome /\ after.exit = exit /\ after.heard = r.heard
    BY <1>0 DEF Ended, RunShape, NoRun
  <1>. HIDE DEF after
  <1>2. RunShape(after)
    BY <1>0, <1>1, NothingAssumption DEF RunShape, Fitting, Status, Working
  <1>3. ASSUME r.kind = "scheduled"
        PROVE  \E i \in DOMAIN captured : FromSnapshot(after, captured[i])
    <2>1. r.pc \in Working
      BY <1>0, <1>3 DEF RunFits, Working
    <2>2. PICK i \in DOMAIN captured : FromSnapshot(r, captured[i])
      BY <1>0, <1>3, <2>1 DEF RunFits, Working
    <2>3. r.id # Nothing
      BY <2>1, <2>2, PluginNamed DEF FromSnapshot
    <2>4. Understandable(after)
      BY <1>1 DEF Fitting, Understandable
    <2>5. FromSnapshot(after, captured[i])
      BY <1>1, <2>2, <2>3, <2>4 DEF FromSnapshot, Working
    <2>. QED  BY <2>5
  <1>4. RunFits(after)
    BY <1>1, <1>2, <1>3 DEF RunFits
  <1>. QED  BY <1>4 DEF after

(* A run goes on, with what it had.                                        *)
LEMMA GoesOn ==
    ASSUME RuntimeInv, NEW s \in Slot, run[s].pc \in Working \union {"loading"},
           NEW after, DOMAIN after = DOMAIN NoRun, after.pc \in Working,
           after.kind = run[s].kind, after.id = run[s].id, after.input = run[s].input,
           after.expected = run[s].expected, after.outcome = run[s].outcome,
           after.event = run[s].event, after.exit = run[s].exit, after.heard = run[s].heard,
           run[s].kind = "scheduled" =>
                after.definition = run[s].definition /\ after.code = run[s].code
    PROVE  RunFits(after)
  <1>. DEFINE r == run[s]
  <1>0. RunFits(r) /\ RunShape(r)
    BY DEF RuntimeInv, RunFits
  <1>2. RunShape(after)
    BY <1>0 DEF RunShape, Working
  <1>3. ASSUME r.kind = "scheduled"
        PROVE  \E i \in DOMAIN captured : FromSnapshot(after, captured[i])
    <2>1. r.pc \in Working
      BY <1>0, <1>3 DEF RunFits, Working
    <2>2. PICK i \in DOMAIN captured : FromSnapshot(r, captured[i])
      BY <1>0, <1>3, <2>1 DEF RunFits, Working
    <2>5. FromSnapshot(after, captured[i])
      BY <1>3, <2>1, <2>2 DEF FromSnapshot, Working
    <2>. QED  BY <2>5
  <1>. QED  BY <1>2, <1>3 DEF RunFits, Working

LEMMA Verifying == ASSUME RuntimeInv, NEW s \in Slot, VerifySnapshot(s) PROVE RuntimeInv'
  <1>. DEFINE r == run[s]
              known == [r EXCEPT !.pc = "connecting", !.definition = r.input.definition,
                                 !.code = r.input.code]
              refused == [Ended(s, "failed", 1) EXCEPT !.id = Nothing]
  <1>0. RunFits(r) /\ RunShape(r) /\ r.pc = "verifying" /\ r.kind = "scheduled"
    BY DEF RuntimeInv, RunFits, VerifySnapshot
  <1>1. PICK i \in DOMAIN captured : FromSnapshot(r, captured[i])
    BY <1>0 DEF RunFits
  <1>2. CacheShape' /\ UNCHANGED <<disk, edits, load, api, registry, captured>>
    BY DEF VerifySnapshot, RunStep, RuntimeInv, CacheShape
  <1>3. CASE Verified(s)
    <2>1. r.input = captured[i]
      BY <1>0, <1>1, <1>3 DEF Verified, FromSnapshot
    <2>2. /\ DOMAIN known = DOMAIN r /\ known.pc = "connecting" /\ known.kind = r.kind
          /\ known.id = r.id /\ known.input = r.input /\ known.expected = r.expected
          /\ known.definition = captured[i].definition /\ known.code = captured[i].code
          /\ known.outcome = r.outcome /\ known.event = r.event /\ known.exit = r.exit /\ known.heard = r.heard
      BY <1>0, <2>1 DEF RunShape, NoRun
    <2>3. run' = [run EXCEPT ![s] = known]
      BY <1>3 DEF VerifySnapshot, RunStep
    <2>. HIDE DEF known
    <2>4. RunShape(known)
      BY <1>0, <2>2 DEF RunShape
    <2>5. FromSnapshot(known, captured[i])
      BY <1>0, <1>1, <2>2 DEF FromSnapshot, Working
    <2>6. RunFits(known)
      BY <2>2, <2>4, <2>5, <1>0 DEF RunFits
    <2>. QED  BY <1>2, <2>3, <2>6, RunMoves
  <1>4. CASE ~Verified(s)
    <2>2. /\ DOMAIN refused = DOMAIN r /\ refused.pc = "ended" /\ refused.kind = r.kind
          /\ refused.id = Nothing /\ refused.input = r.input /\ refused.expected = r.expected
          /\ refused.definition = r.definition
          /\ refused.outcome = "failed" /\ refused.event = "failed" /\ refused.exit = 1 /\ refused.heard = r.heard
      BY <1>0 DEF RunShape, NoRun, Ended
    <2>3. run' = [run EXCEPT ![s] = refused]
      BY <1>4 DEF VerifySnapshot, RunStep
    <2>. HIDE DEF refused
    <2>4. RunShape(refused)
      BY <1>0, <2>2, NothingAssumption DEF RunShape, Status
    <2>5. FromSnapshot(refused, captured[i])
      BY <1>0, <1>1, <2>2 DEF FromSnapshot, Working
    <2>6. RunFits(refused)
      BY <2>2, <2>4, <2>5, <1>0 DEF RunFits
    <2>. QED  BY <1>2, <2>3, <2>6, RunMoves
  <1>. QED  BY <1>3, <1>4

LEMMA Executing == ASSUME RuntimeInv, NEW s \in Slot, Execute(s) PROVE RuntimeInv'
  <1>. DEFINE r == run[s]
  <1>0. RunFits(r) /\ RunShape(r) /\ DOMAIN r = DOMAIN NoRun
    BY DEF RuntimeInv, RunFits, RunShape
  <1>a. cache' = cache => CacheShape'
    BY DEF RuntimeInv, CacheShape
  <1>1. CASE VerifySnapshot(s)
    BY <1>1, Verifying
  <1>2. CASE SelectDefinition(s)
    <2>. DEFINE d == Selected(s)[1]
                on == [r EXCEPT !.pc = "connecting", !.definition = d]
    <2>0. r.pc = "loading"
      BY <1>2 DEF SelectDefinition, RunStep
    <2>1. r.kind # "scheduled"
      BY <1>0, <2>0 DEF RunFits
    <2>2. RunStep(s, "loading", on) \/ RunStep(s, "loading", Ended(s, "failed", 1))
      BY <1>2 DEF SelectDefinition
    <2>3. /\ DOMAIN on = DOMAIN NoRun /\ on.pc = "connecting" /\ on.kind = r.kind
          /\ on.id = r.id /\ on.input = r.input /\ on.expected = r.expected
          /\ on.outcome = r.outcome /\ on.event = r.event
          /\ on.exit = r.exit /\ on.heard = r.heard
      <3>. HIDE DEF d
      <3>. QED  BY <1>0 DEF NoRun
    <2>. HIDE DEF on
    <2>4. RunFits(on)
      BY <2>0, <2>1, <2>3, GoesOn DEF Working
    <2>5. RunFits(Ended(s, "failed", 1))
      BY <2>0, EndedFits DEF Fitting
    <2>6. cache' = cache
      BY <1>2 DEF SelectDefinition
    <2>. QED  BY <1>a, <2>2, <2>4, <2>5, <2>6, RunMoves DEF RunStep
  <1>3. CASE ConnectStorage(s)
    <2>. DEFINE on == [r EXCEPT !.pc = "running"]
    <2>0. r.pc = "connecting" /\ cache' = cache
      BY <1>3 DEF ConnectStorage, RunStep
    <2>2. \/ RunStep(s, "connecting", on)
          \/ RunStep(s, "connecting", Ended(s, "failed", 1))
          \/ RunStep(s, "connecting", Ended(s, "failed", 3))
      BY <1>3 DEF ConnectStorage
    <2>3. /\ DOMAIN on = DOMAIN NoRun /\ on.pc = "running" /\ on.kind = r.kind
          /\ on.id = r.id /\ on.input = r.input /\ on.expected = r.expected
          /\ on.definition = r.definition /\ on.code = r.code
          /\ on.outcome = r.outcome /\ on.event = r.event
          /\ on.exit = r.exit /\ on.heard = r.heard
      BY <1>0 DEF NoRun
    <2>. HIDE DEF on
    <2>4. RunFits(on)
      BY <2>0, <2>3, GoesOn DEF Working
    <2>5. RunFits(Ended(s, "failed", 1)) /\ RunFits(Ended(s, "failed", 3))
      BY <2>0, EndedFits DEF Fitting, Working
    <2>. QED  BY <1>a, <2>0, <2>2, <2>4, <2>5, RunMoves DEF RunStep
  <1>4. CASE LeaseTaken(s)
    <2>0. r.pc = "running" /\ cache' = cache
      BY <1>4 DEF LeaseTaken, RunStep
    <2>1. \/ RunStep(s, "running", Ended(s, "duplicate", 0))
          \/ RunStep(s, "running", Ended(s, "failed", 3))
      BY <1>4 DEF LeaseTaken
    <2>2. RunFits(Ended(s, "duplicate", 0)) /\ RunFits(Ended(s, "failed", 3))
      BY <2>0, EndedFits DEF Fitting, Working
    <2>. QED  BY <1>a, <2>0, <2>1, <2>2, RunMoves DEF RunStep
  <1>5. CASE FirstBatch(s)
    <2>. DEFINE folder == r.definition.folder
                code == Called(s)
                on == [r EXCEPT !.pc = "transforming", !.code = code]
    <2>0. r.pc = "running"
      BY <1>5 DEF FirstBatch
    <2>1. \/ /\ RunStep(s, "running", on)
             /\ cache' = IF r.kind = "scheduled" THEN cache
                          ELSE [cache EXCEPT ![Home(s)][folder] = code]
          \/ /\ RunStep(s, "running", Ended(s, "failed", 3))
             /\ cache' \in IF r.kind = "scheduled" THEN {cache}
                           ELSE CachesAfter(s, folder, code)
      BY <1>5, Zenon DEF FirstBatch
    <2>2. r.kind = "scheduled" => code = r.code
      BY DEF Called
    <2>3. r.kind # "scheduled" /\ folder \in Folder => code \in Codes
      <3>1. s \in Process
        BY DEF Process
      <3>. QED  BY <3>1, RequiredIs DEF Called
    <2>. HIDE DEF folder, code
    <2>4. /\ DOMAIN on = DOMAIN NoRun /\ on.pc = "transforming" /\ on.kind = r.kind
          /\ on.id = r.id /\ on.input = r.input /\ on.expected = r.expected
          /\ on.definition = r.definition /\ on.code = code
          /\ on.outcome = r.outcome /\ on.event = r.event
          /\ on.exit = r.exit /\ on.heard = r.heard
      BY <1>0 DEF NoRun
    <2>. HIDE DEF on
    <2>5. RunFits(on)
      BY <2>0, <2>2, <2>4, GoesOn DEF Working
    <2>6. CASE /\ RunStep(s, "running", on)
               /\ cache' = IF r.kind = "scheduled" THEN cache
                            ELSE [cache EXCEPT ![Home(s)][folder] = code]
      <3>1. CacheShape'
        <4>1. s \in Process
          BY DEF Process
        <4>2. CASE r.kind = "scheduled"
          BY <1>a, <2>6, <4>2
        <4>3. CASE r.kind # "scheduled"
          BY <2>3, <2>6, <4>1, <4>3, Caching
        <4>. QED  BY <4>2, <4>3
      <3>. QED  BY <2>5, <2>6, <3>1, RunMoves DEF RunStep
    <2>7. CASE /\ RunStep(s, "running", Ended(s, "failed", 3))
               /\ cache' \in IF r.kind = "scheduled" THEN {cache}
                             ELSE CachesAfter(s, folder, code)
      <3>1. RunFits(Ended(s, "failed", 3))
        BY <2>0, EndedFits DEF Fitting, Working
      <3>2. CacheShape'
        <4>1. s \in Process
          BY DEF Process
        <4>2. CASE cache' = cache
          BY <1>a, <4>2
        <4>3. CASE r.kind # "scheduled" /\ cache' = [cache EXCEPT ![Home(s)][folder] = code]
          BY <2>3, <4>1, <4>3, Caching
        <4>. QED  BY <2>7, <4>2, <4>3 DEF CachesAfter
      <3>. QED  BY <2>7, <3>1, <3>2, RunMoves DEF RunStep
    <2>. QED  BY <2>1, <2>6, <2>7
  <1>6. CASE EndRun(s)
    <2>1. PICK status \in Status \ {"duplicate"} :
            \/ RunStep(s, "transforming", Ended(s, status, ExitOf(status)))
            \/ RunStep(s, "running", Ended(s, status, ExitOf(status)))
      BY <1>6 DEF EndRun
    <2>2. r.pc \in Working
      BY <2>1 DEF RunStep, Working
    <2>3. Fitting(status, ExitOf(status))
      BY DEF Fitting, ExitOf, Status
    <2>4. RunFits(Ended(s, status, ExitOf(status)))
      BY <2>2, <2>3, EndedFits
    <2>5. cache' = cache
      BY <1>6 DEF EndRun
    <2>. QED  BY <1>a, <2>1, <2>4, <2>5, RunMoves DEF RunStep
  <1>7. CASE HearResult(s)
    <2>. DEFINE on == [r EXCEPT !.pc = "heard",
                               !.heard = IF Understood(s) THEN r.event ELSE "invalid"]
    <2>0. r.pc = "ended" /\ r.kind = "scheduled" /\ cache' = cache /\ RunStep(s, "ended", on)
      BY <1>7 DEF HearResult, RunStep
    <2>1. PICK i \in DOMAIN captured : FromSnapshot(r, captured[i])
      BY <1>0, <2>0 DEF RunFits
    <2>2. /\ DOMAIN on = DOMAIN NoRun /\ on.pc = "heard" /\ on.kind = r.kind
          /\ on.id = r.id /\ on.input = r.input /\ on.expected = r.expected
          /\ on.definition = r.definition
          /\ on.outcome = r.outcome /\ on.event = r.event /\ on.exit = r.exit
          /\ on.heard = IF Understood(s) THEN r.event ELSE "invalid"
      BY <1>0 DEF NoRun
    <2>3. \/ /\ Understood(s) /\ r.event = r.outcome
             /\ r.outcome \in {"success", "duplicate"} => r.exit = 0
             /\ r.outcome = "partial" => r.exit = 2
          \/ /\ ~Understood(s)
             /\ r.definition = NoDefinition \/ r.exit = -1 \/ r.event = Nothing
      BY <1>0, <2>0, <2>1 DEF RunShape, FromSnapshot, Understandable, Understood
    <2>. HIDE DEF on
    <2>4. RunShape(on)
      <3>1. on.heard \in Status \union {Nothing, "invalid"}
        BY <1>0, <2>2 DEF RunShape
      <3>2. api = "up"
        BY <1>0, <2>0 DEF RunShape
      <3>. QED  BY <1>0, <2>2, <3>1, <3>2 DEF RunShape
    <2>5. FromSnapshot(on, captured[i])
      BY <2>0, <2>1, <2>2, <2>3 DEF FromSnapshot, Working
    <2>6. RunFits(on)
      BY <2>0, <2>2, <2>4, <2>5 DEF RunFits
    <2>. QED  BY <1>a, <2>0, <2>6, RunMoves DEF RunStep
  <1>8. CASE ChildDies(s)
    <2>. DEFINE on == [r EXCEPT !.pc = "ended", !.exit = -1]
    <2>0. r.pc \notin {"none", "heard"} /\ run' = [run EXCEPT ![s] = on]
      BY <1>8 DEF ChildDies, RuntimeInv
    <2>1. /\ DOMAIN on = DOMAIN NoRun /\ on.pc = "ended" /\ on.kind = r.kind
          /\ on.input = r.input /\ on.expected = r.expected
          /\ on.outcome = r.outcome /\ on.event = r.event
          /\ on.exit = -1 /\ on.heard = r.heard
      BY <1>0 DEF NoRun
    <2>. HIDE DEF on
    <2>2. RunShape(on)
      BY <1>0, <2>0, <2>1 DEF RunShape
    <2>3. \A snapshot : FromSnapshot(r, snapshot) => FromSnapshot(on, snapshot)
      BY <2>1 DEF FromSnapshot, Working
    <2>4. RunFits(on)
      BY <1>0, <2>0, <2>1, <2>2, <2>3 DEF RunFits
    <2>. QED  BY <1>8, <1>a, <2>0, <2>4, RunMoves DEF ChildDies
  <1>9. CASE SpoilOutput(s)
    <2>. DEFINE on == [r EXCEPT !.event = Nothing]
    <2>0. r.pc = "ended" /\ cache' = cache /\ RunStep(s, "ended", on)
      BY <1>9 DEF SpoilOutput, RunStep
    <2>1. /\ DOMAIN on = DOMAIN NoRun /\ on.pc = r.pc /\ on.kind = r.kind
          /\ on.id = r.id /\ on.input = r.input /\ on.expected = r.expected
          /\ on.definition = r.definition /\ on.code = r.code
          /\ on.outcome = r.outcome /\ on.event = Nothing
          /\ on.exit = r.exit /\ on.heard = r.heard
      BY <1>0 DEF NoRun
    <2>. HIDE DEF on
    <2>2. RunShape(on)
      BY <1>0, <2>0, <2>1 DEF RunShape
    <2>3. \A snapshot : FromSnapshot(r, snapshot) => FromSnapshot(on, snapshot)
      BY <2>0, <2>1 DEF FromSnapshot, Understandable
    <2>4. RunFits(on)
      BY <1>0, <2>0, <2>1, <2>2, <2>3 DEF RunFits
    <2>. QED  BY <1>a, <2>0, <2>4, RunMoves DEF RunStep
  <1>. QED  BY <1>1, <1>2, <1>3, <1>4, <1>5, <1>6, <1>7, <1>8, <1>9 DEF Execute

THEOREM RuntimeInvariance == RuntimeSpec => []RuntimeInv
  <1>1. RuntimeInit => RuntimeInv
    <2>. SUFFICES ASSUME RuntimeInit PROVE RuntimeInv
      OBVIOUS
    <2>1. \A p \in Process : LoadFits(load[p])
      BY FreshFits DEF RuntimeInit
    <2>2. RunFits(NoRun)
      BY NothingAssumption DEF RunFits, RunShape, NoRun, Status
    <2>3. CapturedFit
      <3>1. registry = << >> /\ DOMAIN captured = {}
        BY DEF RuntimeInit
      <3>. QED  BY <3>1 DEF RuntimeInit, CapturedFit
    <2>. QED  BY <2>1, <2>2, <2>3, BoundAssumption DEF RuntimeInit, RuntimeInv
  <1>2. RuntimeInv /\ [RuntimeNext]_runtimeVars => RuntimeInv'
    <2>. SUFFICES ASSUME RuntimeInv, [RuntimeNext]_runtimeVars PROVE RuntimeInv'
      OBVIOUS
    <2>1. CASE EditFiles
      <3>1. \A p \in Process : LoadFits(load[p])'
        BY <2>1 DEF EditFiles, RuntimeInv
      <3>2. \A s \in Slot : RunFits(run[s])'
        BY <2>1 DEF EditFiles, RuntimeInv, RunFits, RunShape, FromSnapshot, Revision, Understandable
      <3>3. CapturedFit'
        BY <2>1 DEF EditFiles, RuntimeInv, CapturedFit
      <3>. QED  BY <2>1, <3>1, <3>2, <3>3, BoundAssumption DEF EditFiles, RuntimeInv
    <2>2. CASE \E p \in Process : Preflight(p)
      BY <2>2, Loading
    <2>3. CASE CreateRegistry \/ CaptureSnapshot \/ ListenForRequests
      BY <2>3, Creating, Capturing, Opening
    <2>4. CASE \E s \in Slot : StartStartup(s) \/ StartManual(s) \/ StartScheduled(s)
      BY <2>4, StartingUnscheduled, StartingScheduled
    <2>5. CASE \E s \in Slot : Execute(s)
      BY <2>5, Executing
    <2>6. CASE UNCHANGED runtimeVars
      <3>1. \A p \in Process : LoadFits(load[p])'
        BY <2>6 DEF runtimeVars, RuntimeInv
      <3>2. \A s \in Slot : RunFits(run[s])'
        BY <2>6 DEF runtimeVars, RuntimeInv, RunFits, RunShape, FromSnapshot, Revision, Understandable
      <3>3. CapturedFit'
        BY <2>6 DEF runtimeVars, RuntimeInv, CapturedFit
      <3>. QED  BY <2>6, <3>1, <3>2, <3>3 DEF runtimeVars, RuntimeInv
    <2>. QED  BY <2>1, <2>2, <2>3, <2>4, <2>5, <2>6 DEF RuntimeNext
  <1>. QED  BY <1>1, <1>2, PTL DEF RuntimeSpec

(* A configuration is taken whole or not at all.                           *)
THEOREM ConfigurationIsWhole == RuntimeSpec => []AcceptedIsComplete
  <1>1. RuntimeInv => AcceptedIsComplete
    <2>. SUFFICES ASSUME RuntimeInv, NEW p \in Process, load[p].pc = "accepted"
                  PROVE  LET read == load[p].read
                             definitions == load[p].definitions
                             enabled == {i \in DOMAIN read : read[i].enabled}
                         IN  /\ Len(read) = Len(load[p].entries)
                             /\ \A i, j \in DOMAIN read : i # j =>
                                 /\ read[i].id # read[j].id
                                 /\ MenuPaths(read[i]) \intersect MenuPaths(read[j]) = {}
                             /\ {definitions[i].declared : i \in DOMAIN definitions} =
                                     {read[i] : i \in enabled}
                             /\ \A menu \in load[p].menus :
                                 \E i \in DOMAIN definitions : definitions[i].id = menu.id
                             /\ \A i \in DOMAIN definitions :
                                 load[p].schedule /\ ~Live(definitions[i].declared) =>
                                     \E code \in Pure : definitions[i].digest = DigestOf(code)
      BY DEF AcceptedIsComplete
    <2>. DEFINE l == load[p]
    <2>1. LoadShape(l) /\ Phased(l) /\ LoadFits(l) /\ l.pc = "accepted"
      BY DEF RuntimeInv, LoadFits
    <2>2. Len(l.read) = Len(l.entries) /\ Sound(l)
      BY <2>1 DEF LoadFits, Phased
    <2>3. Distinct(l.read, l.ids, l.paths) /\ Defined(l.read, l.definitions, l.menus)
      BY <2>2 DEF Sound
    <2>4. \A i \in DOMAIN l.definitions : i < l.next
      BY <2>1 DEF LoadShape, Phased
    <2>5. \A i \in DOMAIN l.definitions : l.schedule /\ ~Live(l.definitions[i].declared) =>
            \E code \in Pure : l.definitions[i].digest = DigestOf(code)
      BY <2>2, <2>4 DEF Sound, Screened
    <2>. QED  BY <2>2, <2>3, <2>5, Zenon DEF Distinct, Defined
  <1>. QED  BY RuntimeInvariance, <1>1, PTL

(* A scheduled run works on the definition and transform that were captured. *)
THEOREM SchedulesRunCaptured == RuntimeSpec => []ScheduledRunsCaptured
  <1>1. RuntimeInv => ScheduledRunsCaptured
    BY DEF RuntimeInv, RunFits, FromSnapshot, Working, CapturedFit, ScheduledRunsCaptured
  <1>. QED  BY RuntimeInvariance, <1>1, PTL

(* A parent takes no result but the one its collection ended with, and finds  *)
(* it invalid only if the snapshot was refused, the child was killed, or the  *)
(* event did not arrive whole.                                             *)
THEOREM ParentsHearResults == RuntimeSpec => []ResultsAgree
  <1>1. RuntimeInv => ResultsAgree
    BY DEF RuntimeInv, RunFits, FromSnapshot, ResultsAgree
  <1>. QED  BY RuntimeInvariance, <1>1, PTL

(* Every variable keeps its type, and an exit code fits the outcome.         *)
THEOREM RuntimeTypes == RuntimeSpec => []RuntimeTypeOK
  <1>1. RuntimeInv => RuntimeTypeOK
    BY DEF RuntimeInv, LoadFits, LoadShape, CapturedFit, RunFits, RunShape, RuntimeTypeOK
  <1>. QED  BY RuntimeInvariance, <1>1, PTL

=============================================================================
