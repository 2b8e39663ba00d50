--------------------------- MODULE ManualSyncProofs ---------------------------
(***************************************************************************)
(* Theorems about ManualSync for any callers and plugins, any number of      *)
(* requests and any limits on what is kept.                                *)
(***************************************************************************)
EXTENDS ManualSync, SequenceTheorems, FiniteSetTheorems, TLAPS

OpenOf(reqs) == {q \in DOMAIN reqs : reqs[q].status \in Open}

(* Tracked for any requests, order and controllers.                         *)
Listed(reqs, order) ==
    /\ order \in Seq(Nat)
    /\ \A q : q \in DOMAIN reqs \ OpenOf(reqs) <=> \E i \in DOMAIN order : order[i] = q
    /\ \A i, j \in DOMAIN order : order[i] = order[j] => i = j

Shapes ==
    /\ nextId \in Nat \ {0}
    /\ \A q \in DOMAIN requests :
        /\ q \in Nat /\ q < nextId
        /\ DOMAIN requests[q] = {"plugin", "status", "run", "finishedAt"}
        /\ requests[q].status \in Open \union Terminal
        /\ requests[q].plugin \in Plugin
    /\ DOMAIN activeByPlugin = Plugin
    /\ DOMAIN caller = Caller
    /\ \A c \in Caller :
        /\ DOMAIN caller[c] = DOMAIN IdleCaller
        /\ caller[c].pc # "idle" => caller[c].plugin \in Plugin

(* The open requests can be aborted; those that have a run are among them.   *)
Abortable == OpenOf(requests) = controllers /\ collecting \subseteq controllers

IInv ==
    /\ Shapes
    /\ Listed(requests, terminalOrder)
    /\ Abortable
    /\ ActiveIsOpen

-----------------------------------------------------------------------------
LEMMA InitLemma == Init => IInv
  <1> SUFFICES ASSUME Init PROVE IInv
    OBVIOUS
  <1> QED
    BY DEF Init, IInv, Shapes, Listed, Abortable, ActiveIsOpen, OpenOf, IdleCaller

(* What prune leaves: of the requests all the open ones, unchanged, and of    *)
(* the ended ones those in the order.                                      *)
LEMMA PruneLemma ==
  ASSUME NEW STATE reqs, NEW STATE order, Listed(reqs, order), Prune(reqs, order)
  PROVE  /\ DOMAIN requests' \subseteq DOMAIN reqs
         /\ \A q \in DOMAIN requests' : requests'[q] = reqs[q]
         /\ OpenOf(requests') = OpenOf(reqs)
         /\ Listed(requests', terminalOrder')
  <1>1. PICK n \in 0..Len(order) :
            /\ terminalOrder' = SubSeq(order, n + 1, Len(order))
            /\ requests' = [q \in DOMAIN reqs \ {order[m] : m \in 1..n} |-> reqs[q]]
    BY DEF Prune
  <1>2. order \in Seq(Nat) /\ Len(order) \in Nat /\ DOMAIN order = 1..Len(order)
    BY DEF Listed
  <1>3. /\ terminalOrder' \in Seq(Nat) /\ DOMAIN terminalOrder' = 1..(Len(order) - n)
        /\ \A i \in 1..(Len(order) - n) : terminalOrder'[i] = order[i + n]
    BY <1>1, <1>2
  <1>4. OpenOf(requests') = OpenOf(reqs)
    <2>1. \A m \in 1..n : m \in DOMAIN order
      BY <1>2
    <2>2. \A m \in 1..n : order[m] \notin OpenOf(reqs)
      BY <2>1 DEF Listed
    <2> QED
      BY <1>1, <2>2 DEF OpenOf
  <1>5. \A q : q \in DOMAIN requests' \ OpenOf(requests')
                <=> \E i \in DOMAIN terminalOrder' : terminalOrder'[i] = q
    <2>1. ASSUME NEW q \in DOMAIN requests' \ OpenOf(requests')
          PROVE  \E i \in DOMAIN terminalOrder' : terminalOrder'[i] = q
      <3>1. PICK j \in DOMAIN order : order[j] = q
        BY <1>1, <1>4, <2>1 DEF Listed
      <3>2. j \notin 1..n
        BY <1>1, <2>1, <3>1
      <3>3. j - n \in 1..(Len(order) - n) /\ (j - n) + n = j
        BY <1>2, <3>2
      <3> QED
        BY <1>3, <3>1, <3>3
    <2>2. ASSUME NEW i \in DOMAIN terminalOrder'
          PROVE  terminalOrder'[i] \in DOMAIN requests' \ OpenOf(requests')
      <3>1. i + n \in DOMAIN order /\ terminalOrder'[i] = order[i + n] /\ i + n \notin 1..n
        BY <1>2, <1>3
      <3>2. order[i + n] \in DOMAIN reqs \ OpenOf(reqs)
        BY <3>1 DEF Listed
      <3>3. \A m \in 1..n : order[m] # order[i + n]
        BY <1>2, <3>1 DEF Listed
      <3> QED
        BY <1>1, <1>4, <3>1, <3>2, <3>3
    <2> QED
      BY <2>1, <2>2
  <1>6. \A i, j \in DOMAIN terminalOrder' : terminalOrder'[i] = terminalOrder'[j] => i = j
    <2> SUFFICES ASSUME NEW i \in DOMAIN terminalOrder', NEW j \in DOMAIN terminalOrder',
                        terminalOrder'[i] = terminalOrder'[j]
                 PROVE  i = j
      OBVIOUS
    <2>1. i \in 1..(Len(order) - n) /\ j \in 1..(Len(order) - n)
      BY <1>3
    <2>2. i + n \in DOMAIN order /\ j + n \in DOMAIN order
      BY <1>2, <2>1
    <2>3. order[i + n] = order[j + n]
      BY <1>3, <2>1
    <2> QED
      BY <2>1, <2>2, <2>3 DEF Listed
  <1> QED
    BY <1>1, <1>3, <1>4, <1>5, <1>6 DEF Listed

(* Nothing that the invariant is about changes but where a POST is.         *)
LEMMA CallerLemma ==
  ASSUME IInv, UNCHANGED managerVars, UNCHANGED collecting,
         DOMAIN caller' = Caller,
         \A c \in Caller : /\ DOMAIN caller'[c] = DOMAIN IdleCaller
                           /\ caller'[c].pc # "idle" => caller'[c].plugin \in Plugin
  PROVE  IInv'
  <1> USE DEF managerVars
  <1>1. Shapes'
    BY DEF IInv, Shapes
  <1>2. Listed(requests, terminalOrder)' /\ OpenOf(requests)' = OpenOf(requests)
    BY DEF IInv, Listed, OpenOf
  <1>3. Abortable' /\ ActiveIsOpen'
    BY <1>2 DEF IInv, Abortable, ActiveIsOpen, OpenRequests, OpenOf
  <1> QED
    BY <1>1, <1>2, <1>3 DEF IInv

(* The requests are pruned and nothing else, or a POST begins.              *)
LEMMA LookUpLemma ==
  ASSUME IInv, Prune(requests, terminalOrder),
         UNCHANGED <<activeByPlugin, controllers, nextId, collecting>>,
         DOMAIN caller' = Caller,
         \A c \in Caller : /\ DOMAIN caller'[c] = DOMAIN IdleCaller
                           /\ caller'[c].pc # "idle" => caller'[c].plugin \in Plugin
  PROVE  IInv'
  <1>1. /\ DOMAIN requests' \subseteq DOMAIN requests
        /\ \A q \in DOMAIN requests' : requests'[q] = requests[q]
        /\ OpenOf(requests') = OpenOf(requests)
        /\ Listed(requests', terminalOrder')
    BY PruneLemma DEF IInv
  <1>2. Shapes'
    BY <1>1 DEF IInv, Shapes
  <1>3. Abortable'
    BY <1>1 DEF IInv, Abortable, OpenOf
  <1>4. ActiveIsOpen'
    BY <1>1 DEF IInv, ActiveIsOpen, OpenRequests, OpenOf
  <1> QED
    BY <1>1, <1>2, <1>3, <1>4 DEF IInv

(* The new request is open, can be aborted and is the active one of its       *)
(* plugin, whatever other request of it is open.                            *)
LEMMA AcceptLemma ==
  ASSUME IInv, NEW c \in Caller, Accept(c)
  PROVE  IInv'
  <1> DEFINE p == caller[c].plugin
             new == [plugin |-> p, status |-> "accepted", run |-> Nobody, finishedAt |-> 0]
  <1>1. /\ requests' = [q \in DOMAIN requests \union {nextId} |->
                            IF q = nextId THEN new ELSE requests[q]]
        /\ activeByPlugin' = [activeByPlugin EXCEPT ![p] = nextId]
        /\ controllers' = controllers \union {nextId}
        /\ nextId' = nextId + 1
        /\ caller' = [caller EXCEPT ![c] = IdleCaller]
        /\ UNCHANGED <<terminalOrder, collecting>>
        /\ caller[c].pc = "decided" /\ caller[c].allowed
    BY DEF Accept
  <1>2. p \in Plugin
    BY <1>1 DEF IInv, Shapes
  <1>3. nextId \in Nat /\ nextId \notin DOMAIN requests
    BY DEF IInv, Shapes
  <1>4. /\ DOMAIN requests' = DOMAIN requests \union {nextId}
        /\ requests'[nextId] = new /\ \A q \in DOMAIN requests : requests'[q] = requests[q]
    BY <1>1, <1>3
  <1>5. OpenOf(requests') = OpenOf(requests) \union {nextId}
    BY <1>3, <1>4 DEF OpenOf, Open
  <1>6. Shapes'
    <2>1. DOMAIN caller' = Caller /\ caller'[c] = IdleCaller /\ IdleCaller.pc = "idle"
          /\ \A other \in Caller : other # c => caller'[other] = caller[other]
      BY <1>1 DEF IInv, Shapes, IdleCaller
    <2> QED
      BY <1>1, <1>2, <1>3, <1>4, <2>1 DEF IInv, Shapes, Open
  <1>7. Listed(requests', terminalOrder')
    <2>1. DOMAIN requests' \ OpenOf(requests') = DOMAIN requests \ OpenOf(requests)
      BY <1>3, <1>4, <1>5
    <2>2. Listed(requests, terminalOrder) /\ terminalOrder' = terminalOrder
      BY <1>1 DEF IInv
    <2> QED
      BY <2>1, <2>2 DEF Listed
  <1>8. Abortable'
    BY <1>1, <1>5 DEF IInv, Abortable
  <1>9. ActiveIsOpen'
    BY <1>1, <1>2, <1>4, <1>5 DEF IInv, Shapes, ActiveIsOpen, OpenRequests, OpenOf
  <1> QED
    BY <1>6, <1>7, <1>8, <1>9 DEF IInv

(* A request that ends is listed last.                                      *)
LEMMA EndListed ==
  ASSUME IInv, NEW q \in OpenOf(requests), NEW status \in Terminal, NEW outcome
  PROVE  Listed([requests EXCEPT ![q].status = status, ![q].run = outcome,
                                 ![q].finishedAt = clock],
                Append(terminalOrder, q))
  <1> DEFINE reqs == [requests EXCEPT ![q].status = status, ![q].run = outcome,
                                      ![q].finishedAt = clock]
             order == Append(terminalOrder, q)
  <1>2. q \in DOMAIN requests /\ q \in Nat /\ status \in {"success", "partial", "failed"}
    BY DEF IInv, Shapes, OpenOf, Terminal
  <1>3. /\ DOMAIN reqs = DOMAIN requests
        /\ \A r \in DOMAIN requests : r # q => reqs[r] = requests[r]
        /\ reqs[q].status = status
    BY <1>2 DEF IInv, Shapes
  <1> HIDE DEF reqs
  <1>4. OpenOf(reqs) = OpenOf(requests) \ {q}
    BY <1>2, <1>3 DEF OpenOf, Open
  <1>5. Listed(reqs, order)
    <2>1. /\ terminalOrder \in Seq(Nat) /\ order \in Seq(Nat)
          /\ DOMAIN terminalOrder = 1..Len(terminalOrder) /\ Len(terminalOrder) \in Nat
          /\ DOMAIN order = 1..(Len(terminalOrder) + 1)
          /\ \A i \in DOMAIN terminalOrder : order[i] = terminalOrder[i]
          /\ order[Len(terminalOrder) + 1] = q
      BY <1>2 DEF IInv, Listed
    <2> HIDE DEF order
    <2>2. \A i \in DOMAIN terminalOrder : terminalOrder[i] # q
      BY DEF IInv, Listed
    <2>3. \A i \in DOMAIN order : i \in DOMAIN terminalOrder \/ i = Len(terminalOrder) + 1
      BY <2>1
    <2>4. \A i, j \in DOMAIN order : order[i] = order[j] => i = j
      BY <2>1, <2>2, <2>3 DEF IInv, Listed
    <2>5. \A r : (\E i \in DOMAIN order : order[i] = r)
                    <=> r = q \/ \E i \in DOMAIN terminalOrder : terminalOrder[i] = r
      <3>1. DOMAIN terminalOrder \subseteq DOMAIN order /\ Len(terminalOrder) + 1 \in DOMAIN order
        BY <2>1
      <3> QED
        BY <2>1, <2>3, <3>1
    <2>6. \A r : r \in DOMAIN reqs \ OpenOf(reqs)
                    <=> r = q \/ r \in DOMAIN requests \ OpenOf(requests)
      BY <1>2, <1>3, <1>4
    <2>7. \A r : r \in DOMAIN requests \ OpenOf(requests)
                    <=> \E i \in DOMAIN terminalOrder : terminalOrder[i] = r
      BY DEF IInv, Listed
    <2> QED
      BY <2>1, <2>4, <2>5, <2>6, <2>7 DEF Listed
  <1> QED
    BY <1>5 DEF reqs
(* A request that was open ends: it is not the active one of any plugin, and   *)
(* the active request of another plugin is another one.                     *)
LEMMA EndLemma ==
  ASSUME IInv, NEW q \in OpenOf(requests), NEW status \in Terminal, NEW outcome,
         End(q, status, outcome)
  PROVE  IInv'
  <1> DEFINE reqs == [requests EXCEPT ![q].status = status, ![q].run = outcome,
                                      ![q].finishedAt = clock]
             order == Append(terminalOrder, q)
             p == requests[q].plugin
  <1>1. /\ Prune(reqs, order)
        /\ activeByPlugin' = [activeByPlugin EXCEPT ![p] = Nobody]
        /\ controllers' = controllers \ {q} /\ collecting' = collecting \ {q}
        /\ UNCHANGED <<nextId, caller>>
    BY DEF End
  <1>2. q \in DOMAIN requests /\ q \in Nat /\ status \in {"success", "partial", "failed"}
    BY DEF IInv, Shapes, OpenOf, Terminal
  <1>3. /\ DOMAIN reqs = DOMAIN requests
        /\ \A r \in DOMAIN requests : r # q => reqs[r] = requests[r]
        /\ DOMAIN reqs[q] = DOMAIN requests[q]
        /\ reqs[q].status = status /\ reqs[q].plugin = p
    BY <1>2 DEF IInv, Shapes
  <1> HIDE DEF reqs
  <1>4. OpenOf(reqs) = OpenOf(requests) \ {q}
    BY <1>2, <1>3 DEF OpenOf, Open
  <1>5. Listed(reqs, order)
    BY EndListed DEF reqs
  <1>6. /\ DOMAIN requests' \subseteq DOMAIN reqs
        /\ \A r \in DOMAIN requests' : requests'[r] = reqs[r]
        /\ OpenOf(requests') = OpenOf(reqs)
        /\ Listed(requests', terminalOrder')
    BY <1>1, <1>5, PruneLemma
  <1>7. Shapes'
    BY <1>1, <1>2, <1>3, <1>6 DEF IInv, Shapes, Terminal
  <1>8. Abortable'
    BY <1>1, <1>4, <1>6 DEF IInv, Abortable
  <1>9. \A r \in OpenOf(requests') : r \in OpenOf(requests) \ {q} /\ requests'[r] = requests[r]
    BY <1>3, <1>4, <1>6 DEF OpenOf
  <1>10. ActiveIsOpen'
    <2>1. ASSUME NEW other \in Plugin, activeByPlugin'[other] # Nobody
          PROVE  /\ activeByPlugin'[other] \in OpenOf(requests')
                 /\ requests'[activeByPlugin'[other]].plugin = other
      <3>1. other # p /\ activeByPlugin'[other] = activeByPlugin[other]
        BY <1>1, <2>1 DEF IInv, Shapes
      <3>2. /\ activeByPlugin[other] \in OpenOf(requests)
            /\ requests[activeByPlugin[other]].plugin = other
        BY <2>1, <3>1 DEF IInv, ActiveIsOpen, OpenRequests, OpenOf
      <3> QED
        BY <1>4, <1>6, <1>9, <3>1, <3>2
    <2> QED
      BY <2>1 DEF ActiveIsOpen, OpenRequests, OpenOf
  <1> QED
    BY <1>6, <1>7, <1>8, <1>10 DEF IInv

LEMMA BeginLemma ==
  ASSUME IInv, NEW q, Begin(q)
  PROVE  IInv'
  <1>1. /\ q \in DOMAIN requests /\ requests[q].status = "accepted"
        /\ DOMAIN requests' = DOMAIN requests
        /\ \A r \in DOMAIN requests : r # q => requests'[r] = requests[r]
        /\ DOMAIN requests'[q] = DOMAIN requests[q]
        /\ requests'[q].status = "running" /\ requests'[q].plugin = requests[q].plugin
        /\ UNCHANGED <<activeByPlugin, controllers, terminalOrder, nextId, collecting, caller>>
    BY DEF Begin, IInv, Shapes
  <1>2. OpenOf(requests') = OpenOf(requests)
    BY <1>1 DEF OpenOf, Open
  <1>3. \A r \in DOMAIN requests : requests'[r].plugin = requests[r].plugin
    BY <1>1
  <1>4. Shapes'
    BY <1>1 DEF IInv, Shapes, Open
  <1>5. Listed(requests', terminalOrder')
    BY <1>1, <1>2 DEF IInv, Listed
  <1>6. Abortable'
    BY <1>1, <1>2, <1>3 DEF IInv, Abortable, OpenOf
  <1>7. ActiveIsOpen'
    BY <1>1, <1>2, <1>3 DEF IInv, ActiveIsOpen, OpenRequests, OpenOf
  <1> QED
    BY <1>4, <1>5, <1>6, <1>7 DEF IInv

(* A run is had by a request that is open.                                  *)
LEMMA AcquireLemma ==
  ASSUME IInv, NEW q, Acquire(q)
  PROVE  IInv'
  <1>1. /\ q \in controllers /\ collecting' = collecting \union {q}
        /\ UNCHANGED <<requests, activeByPlugin, controllers, terminalOrder, nextId, caller>>
    BY DEF IInv, Abortable, OpenOf, Open, Acquire, Executing, managerVars
  <1>2. Shapes' /\ Listed(requests', terminalOrder') /\ OpenOf(requests') = OpenOf(requests)
    BY <1>1 DEF IInv, Shapes, Listed, OpenOf
  <1>3. Abortable' /\ ActiveIsOpen'
    BY <1>1, <1>2 DEF IInv, Abortable, ActiveIsOpen, OpenRequests, OpenOf
  <1> QED
    BY <1>2, <1>3 DEF IInv

(* Every way in which a request ends.                                       *)
LEMMA EndingLemma ==
  ASSUME IInv, NEW q,
         \/ Refused(q) \/ FailToStart(q) \/ FailCollecting(q)
         \/ Complete(q, "success") \/ Complete(q, "partial")
  PROVE  IInv'
  <1>1. q \in OpenOf(requests)
    BY DEF IInv, Abortable, OpenOf, Open, Refused, FailToStart, FailCollecting, Complete, Executing
  <1>2. End(q, "failed", Nobody) \/ End(q, "success", q) \/ End(q, "partial", q)
    BY DEF Refused, FailToStart, FailCollecting, Complete
  <1> QED
    BY <1>1, <1>2, EndLemma DEF Terminal

LEMMA RestartLemma ==
  ASSUME IInv, Restart
  PROVE  IInv'
  <1>1. /\ DOMAIN requests' = {} /\ OpenOf(requests') = {}
        /\ terminalOrder' = << >> /\ controllers' = {} /\ collecting' = {}
        /\ activeByPlugin' = [p \in Plugin |-> Nobody]
        /\ caller' = [c \in Caller |-> IdleCaller] /\ UNCHANGED nextId
    BY DEF Restart, OpenOf
  <1>2. Shapes'
    BY <1>1 DEF IInv, Shapes, IdleCaller
  <1>3. Listed(requests', terminalOrder')
    BY <1>1 DEF Listed
  <1>4. Abortable' /\ ActiveIsOpen'
    BY <1>1 DEF Abortable, ActiveIsOpen, OpenOf
  <1> QED
    BY <1>2, <1>3, <1>4 DEF IInv

(* What a POST does between its awaits.                                     *)
LEMMA PostLemma ==
  ASSUME IInv, NEW c \in Caller,
         \/ \E p \in Plugin : Post(c, p)
         \/ ReadRow(c) \/ ReadActive(c) \/ Conflict(c) \/ FailPost(c)
  PROVE  IInv'
  <1>1. /\ DOMAIN caller = Caller
        /\ \A other \in Caller :
            /\ DOMAIN caller[other] = DOMAIN IdleCaller
            /\ caller[other].pc # "idle" => caller[other].plugin \in Plugin
    BY DEF IInv, Shapes
  <1>2. CASE \E p \in Plugin : Post(c, p)
    <2>1. PICK p \in Plugin : Post(c, p)
      BY <1>2
    <2>2. /\ DOMAIN caller' = Caller
          /\ \A other \in Caller :
              /\ DOMAIN caller'[other] = DOMAIN IdleCaller
              /\ caller'[other].pc # "idle" => caller'[other].plugin \in Plugin
      BY <1>1, <2>1 DEF Post, IdleCaller
    <2> QED
      BY <2>1, <2>2, LookUpLemma DEF Post
  <1>3. CASE ReadRow(c) \/ ReadActive(c) \/ Conflict(c) \/ FailPost(c)
    <2>1. /\ DOMAIN caller' = Caller
          /\ \A other \in Caller :
              /\ DOMAIN caller'[other] = DOMAIN IdleCaller
              /\ caller'[other].pc # "idle" => caller'[other].plugin \in Plugin
      BY <1>1, <1>3 DEF ReadRow, ReadActive, Conflict, FailPost, IdleCaller
    <2>2. UNCHANGED managerVars /\ UNCHANGED collecting
      BY <1>3 DEF ReadRow, ReadActive, Conflict, FailPost
    <2> QED
      BY <2>1, <2>2, CallerLemma
  <1> QED
    BY <1>2, <1>3

LEMMA NextLemma == IInv /\ [Next]_vars => IInv'
  <1> SUFFICES ASSUME IInv, [Next]_vars PROVE IInv'
    OBVIOUS
  <1>1. /\ DOMAIN caller = Caller
        /\ \A c \in Caller : /\ DOMAIN caller[c] = DOMAIN IdleCaller
                             /\ caller[c].pc # "idle" => caller[c].plugin \in Plugin
    BY DEF IInv, Shapes
  <1>2. CASE LookUp
    BY <1>1, <1>2, LookUpLemma DEF LookUp
  <1>3. CASE UNCHANGED managerVars /\ UNCHANGED collecting /\ UNCHANGED caller
    BY <1>1, <1>3, CallerLemma
  <1>4. CASE \/ \E c \in Caller, p \in Plugin : Post(c, p)
             \/ \E c \in Caller : ReadRow(c) \/ ReadActive(c) \/ Conflict(c) \/ FailPost(c)
    BY <1>4, PostLemma
  <1>5. CASE \E c \in Caller : Accept(c)
    BY <1>5, AcceptLemma
  <1>6. CASE \E q \in RequestId :
                \/ Refused(q) \/ FailToStart(q) \/ FailCollecting(q)
                \/ Complete(q, "success") \/ Complete(q, "partial")
    BY <1>6, EndingLemma
  <1>7. CASE \E q \in RequestId : Begin(q) \/ Acquire(q)
    BY <1>7, BeginLemma, AcquireLemma
  <1>8. CASE Restart
    BY <1>8, RestartLemma
  <1>9. CASE Tick \/ \E p \in Plugin : Expire(p) \/ OtherRun(p)
    BY <1>3, <1>9 DEF Tick, Expire, OtherRun
  <1>10. CASE UNCHANGED vars
    BY <1>3, <1>10 DEF vars
  <1> QED
    BY <1>2, <1>4, <1>5, <1>6, <1>7, <1>8, <1>9, <1>10 DEF Next

(* The invariant of ManualSync.                                            *)
THEOREM Invariance == Spec => []IInv
  BY InitLemma, NextLemma, PTL DEF Spec

(* The open requests are those that can be aborted, and every other one       *)
(* waits in the order to be dropped, once.                                  *)
THEOREM NothingLeaks == Spec => []RequestsAreTracked
  <1>1. IInv => RequestsAreTracked
    BY DEF IInv, Listed, Abortable, OpenOf, OpenRequests, RequestsAreTracked, ToSet, IsInjective
  <1> QED
    BY <1>1, Invariance, PTL

(* The active mark of a plugin is an open request of that plugin.           *)
THEOREM NoStaleMark == Spec => []ActiveIsOpen
  <1>1. IInv => ActiveIsOpen
    BY DEF IInv
  <1> QED
    BY <1>1, Invariance, PTL

-----------------------------------------------------------------------------
(* How long results stay.  They are dropped from the front of the order,     *)
(* which is that of the times at which they ended.                          *)
Sorted(reqs, order, now) ==
    /\ \A i \in DOMAIN order : reqs[order[i]].finishedAt \in 0..now
    /\ \A i, j \in DOMAIN order :
        i <= j => reqs[order[i]].finishedAt <= reqs[order[j]].finishedAt

OrderInv == clock \in Nat /\ Sorted(requests, terminalOrder, clock)

(* A result of this time is old, or as many as are kept ended since.         *)
Replaced(endedAt) ==
    \/ clock - endedAt > KeepTicks
    \/ Cardinality({p \in DOMAIN requests' :
            requests'[p].status \in Terminal /\ requests'[p].finishedAt >= endedAt}) >= KeepCount

(* What happens to the requests in a step.                                  *)
Kept ==
    \A q \in DOMAIN requests :
        LET endedAt == IF Ended(q) THEN requests[q].finishedAt ELSE clock
        IN  ~Restart =>
                \/ q \in DOMAIN requests' /\ (Ended(q) => requests'[q] = requests[q])
                \/ clock - endedAt > KeepTicks
                \/ Cardinality({p \in DOMAIN requests' :
                        requests'[p].status \in Terminal
                        /\ requests'[p].finishedAt >= endedAt}) >= KeepCount

(* As many results ended at this time or later as come after it in the order. *)
LEMMA CountLemma ==
  ASSUME NEW reqs, NEW order, Listed(reqs, order), NEW endedAt,
         \A q \in DOMAIN reqs : reqs[q].status \in Open \union Terminal,
         \A i \in DOMAIN order : reqs[order[i]].finishedAt >= endedAt
  PROVE  Cardinality({p \in DOMAIN reqs :
            reqs[p].status \in Terminal /\ reqs[p].finishedAt >= endedAt}) = Len(order)
  <1>. DEFINE late == {p \in DOMAIN reqs :
                        reqs[p].status \in Terminal /\ reqs[p].finishedAt >= endedAt}
  <1>1. Len(order) \in Nat /\ DOMAIN order = 1..Len(order)
    BY DEF Listed
  <1>2. \A i \in 1..Len(order) : order[i] \in late
    BY <1>1 DEF Listed, OpenOf
  <1>3. \A p \in late : \E i \in 1..Len(order) : order[i] = p
    BY <1>1 DEF Listed, OpenOf, Open, Terminal
  <1>4. \A i, j \in 1..Len(order) : order[i] = order[j] => i = j
    BY <1>1 DEF Listed
  <1>. DEFINE f == [i \in 1..Len(order) |-> order[i]]
  <1>. HIDE DEF late
  <1>5. f \in Bijection(1..Len(order), late)
    BY <1>2, <1>3, <1>4 DEF Bijection, Injection, Surjection, IsInjective
  <1>. HIDE DEF f
  <1>6. ExistsBijection(1..Len(order), late)
    BY <1>5 DEF ExistsBijection
  <1>7. Cardinality(late) = Len(order)
    BY <1>1, <1>6, FS_CountingElements
  <1>. QED  BY <1>7 DEF late

(* prune drops the front of the order as long as it is too long or too old.  *)
LEMMA PruneKeeps ==
  ASSUME NEW STATE reqs, NEW STATE order, Listed(reqs, order), Sorted(reqs, order, clock),
         clock \in Nat,
         \A q \in DOMAIN reqs : reqs[q].status \in Open \union Terminal,
         Prune(reqs, order)
  PROVE  /\ Sorted(requests', terminalOrder', clock)
         /\ \A q \in DOMAIN reqs \ DOMAIN requests' :
                q \notin OpenOf(reqs) /\ Replaced(reqs[q].finishedAt)
  <1>1. PICK n \in 0..Len(order) :
            /\ \A m \in 0..(n - 1) : ~MayStop(reqs, order, m)
            /\ terminalOrder' = SubSeq(order, n + 1, Len(order))
            /\ requests' = [q \in DOMAIN reqs \ {order[m] : m \in 1..n} |-> reqs[q]]
    BY DEF Prune
  <1>2. order \in Seq(Nat) /\ Len(order) \in Nat /\ DOMAIN order = 1..Len(order)
    BY DEF Listed
  <1>3. /\ Len(terminalOrder') = Len(order) - n
        /\ DOMAIN terminalOrder' = 1..(Len(order) - n)
        /\ \A i \in 1..(Len(order) - n) : terminalOrder'[i] = order[i + n]
    <2>1. /\ terminalOrder' \in Seq(Nat) /\ DOMAIN terminalOrder' = 1..(Len(order) - n)
          /\ \A i \in 1..(Len(order) - n) : terminalOrder'[i] = order[i + n]
      BY <1>1, <1>2
    <2>2. Len(terminalOrder') \in Nat /\ DOMAIN terminalOrder' = 1..Len(terminalOrder')
      BY <2>1
    <2>3. Len(order) - n \in Nat
      BY <1>2
    <2>4. Len(terminalOrder') = Len(order) - n
      BY <2>1, <2>2, <2>3
    <2>. QED  BY <2>1, <2>4
  <1>4. /\ DOMAIN requests' \subseteq DOMAIN reqs
        /\ \A q \in DOMAIN requests' : requests'[q] = reqs[q]
        /\ OpenOf(requests') = OpenOf(reqs)
        /\ Listed(requests', terminalOrder')
    BY PruneLemma
  <1>5. \A i \in 1..(Len(order) - n) :
            /\ i + n \in DOMAIN order
            /\ requests'[terminalOrder'[i]].finishedAt = reqs[order[i + n]].finishedAt
    <2>. SUFFICES ASSUME NEW i \in 1..(Len(order) - n)
                  PROVE  /\ i + n \in DOMAIN order
                         /\ requests'[terminalOrder'[i]].finishedAt = reqs[order[i + n]].finishedAt
      OBVIOUS
    <2>1. i + n \in DOMAIN order
      BY <1>2
    <2>2. terminalOrder'[i] \in DOMAIN requests'
      BY <1>3, <1>4 DEF Listed
    <2>. QED  BY <1>3, <1>4, <2>1, <2>2
  <1>6. Sorted(requests', terminalOrder', clock)
    <2>1. ASSUME NEW i \in 1..(Len(order) - n), NEW j \in 1..(Len(order) - n), i <= j
          PROVE  requests'[terminalOrder'[i]].finishedAt <= requests'[terminalOrder'[j]].finishedAt
      <3>1. i + n <= j + n
        BY <2>1
      <3>. QED  BY <1>5, <3>1 DEF Sorted
    <2>2. \A i \in 1..(Len(order) - n) : requests'[terminalOrder'[i]].finishedAt \in 0..clock
      BY <1>5 DEF Sorted
    <2>. QED  BY <1>3, <2>1, <2>2 DEF Sorted
  <1>7. ASSUME NEW q \in DOMAIN reqs \ DOMAIN requests'
        PROVE  q \notin OpenOf(reqs) /\ Replaced(reqs[q].finishedAt)
    <2>1. PICK m \in 1..n : order[m] = q
      BY <1>1, <1>7
    <2>2. q \notin OpenOf(reqs)
      BY <1>4, <1>7 DEF OpenOf
    <2>3. /\ n \in Nat \ {0} /\ n - 1 \in 0..(n - 1) /\ n \in DOMAIN order /\ m \in DOMAIN order
          /\ m <= n /\ n - 1 < Len(order) /\ (n - 1) + 1 = n
      BY <1>2, <2>1
    <2>4. Len(order) - (n - 1) > KeepCount \/ ~(reqs[order[n]].finishedAt >= clock - KeepTicks)
      <3>1. ~MayStop(reqs, order, n - 1)
        BY <1>1, <2>3
      <3>2. ~(/\ Len(order) - (n - 1) <= KeepCount
              /\ reqs[order[n]].finishedAt >= clock - KeepTicks)
        BY <2>3, <3>1 DEF MayStop
      <3>3. Len(order) - (n - 1) \in Int /\ KeepCount \in Int
        BY <1>2, <2>3, KeepAssumption
      <3>. QED  BY <3>2, <3>3
    <2>5. /\ reqs[q].finishedAt \in Nat /\ reqs[order[n]].finishedAt \in Nat
          /\ reqs[q].finishedAt <= reqs[order[n]].finishedAt
      BY <2>1, <2>3 DEF Sorted
    <2>6. CASE ~(reqs[order[n]].finishedAt >= clock - KeepTicks)
      BY <2>2, <2>5, <2>6, KeepAssumption DEF Replaced
    <2>7. CASE Len(order) - (n - 1) > KeepCount
      <3>1. \A i \in DOMAIN terminalOrder' :
                requests'[terminalOrder'[i]].finishedAt >= reqs[q].finishedAt
        <4>. SUFFICES ASSUME NEW i \in 1..(Len(order) - n)
                      PROVE  requests'[terminalOrder'[i]].finishedAt >= reqs[q].finishedAt
          BY <1>3
        <4>1. i + n \in DOMAIN order /\ m <= i + n
          BY <1>2, <2>3
        <4>2. reqs[order[i + n]].finishedAt \in Nat
              /\ reqs[order[m]].finishedAt <= reqs[order[i + n]].finishedAt
          BY <2>3, <4>1 DEF Sorted
        <4>. QED  BY <1>5, <2>1, <2>5, <4>2
      <3>2. \A p \in DOMAIN requests' : requests'[p].status \in Open \union Terminal
        BY <1>4
      <3>3. Cardinality({p \in DOMAIN requests' : requests'[p].status \in Terminal
                            /\ requests'[p].finishedAt >= reqs[q].finishedAt})
                = Len(terminalOrder')
        BY <1>4, <3>1, <3>2, CountLemma
      <3>4. Len(terminalOrder') >= KeepCount
        BY <1>2, <1>3, <2>7, KeepAssumption
      <3>. QED  BY <2>2, <3>3, <3>4 DEF Replaced
    <2>. QED  BY <2>4, <2>6, <2>7
  <1>. QED  BY <1>6, <1>7

LEMMA OrderInit == Init => OrderInv
  BY DEF Init, OrderInv, Sorted

(* Results are as they were, and time may have passed.                      *)
LEMMA QuietLemma ==
  ASSUME OrderInv, UNCHANGED terminalOrder, clock' \in Nat, clock <= clock',
         DOMAIN requests \subseteq DOMAIN requests',
         \A q \in DOMAIN requests : q \notin OpenOf(requests) => requests'[q] = requests[q],
         Listed(requests, terminalOrder)
  PROVE  OrderInv' /\ Kept
  <1>1. \A i \in DOMAIN terminalOrder :
            requests'[terminalOrder[i]] = requests[terminalOrder[i]]
    BY DEF Listed
  <1>2. OrderInv'
    BY <1>1 DEF OrderInv, Sorted
  <1>3. Kept
    BY DEF Kept, Ended, OpenOf, Open, Terminal
  <1>. QED  BY <1>2, <1>3

(* The requests are pruned and nothing else.                                *)
LEMMA PrunedLemma ==
  ASSUME IInv, OrderInv, Prune(requests, terminalOrder), UNCHANGED clock
  PROVE  OrderInv' /\ Kept
  <1>1. /\ Sorted(requests', terminalOrder', clock)
        /\ \A q \in DOMAIN requests \ DOMAIN requests' :
                q \notin OpenOf(requests) /\ Replaced(requests[q].finishedAt)
    BY PruneKeeps DEF IInv, Shapes, OrderInv
  <1>2. \A q \in DOMAIN requests' : requests'[q] = requests[q]
    BY PruneLemma DEF IInv
  <1>3. \A q \in DOMAIN requests : Ended(q) \/ q \in OpenOf(requests)
    BY DEF IInv, Shapes, Ended, OpenOf
  <1>. QED  BY <1>1, <1>2, <1>3 DEF OrderInv, Kept, Replaced

(* A request ends now, so it is the last of the order.                       *)
LEMMA EndedLemma ==
  ASSUME IInv, OrderInv, NEW q \in OpenOf(requests), NEW status \in Terminal, NEW outcome,
         End(q, status, outcome)
  PROVE  OrderInv' /\ Kept
  <1>. DEFINE reqs == [requests EXCEPT ![q].status = status, ![q].run = outcome,
                                       ![q].finishedAt = clock]
              order == Append(terminalOrder, q)
  <1>1. Prune(reqs, order) /\ UNCHANGED clock
    BY DEF End
  <1>2. q \in DOMAIN requests /\ q \in Nat /\ status \in {"success", "partial", "failed"}
    BY DEF IInv, Shapes, OpenOf, Terminal
  <1>3. /\ DOMAIN reqs = DOMAIN requests
        /\ \A r \in DOMAIN requests : r # q => reqs[r] = requests[r]
        /\ reqs[q].status = status /\ reqs[q].finishedAt = clock
    BY <1>2 DEF IInv, Shapes
  <1>. HIDE DEF reqs
  <1>4. Listed(reqs, order)
    BY <1>1, EndListed DEF reqs
  <1>5. Sorted(reqs, order, clock)
    <2>1. /\ DOMAIN terminalOrder = 1..Len(terminalOrder) /\ Len(terminalOrder) \in Nat
          /\ DOMAIN order = 1..(Len(terminalOrder) + 1)
          /\ \A i \in DOMAIN terminalOrder : order[i] = terminalOrder[i]
          /\ order[Len(terminalOrder) + 1] = q
      BY <1>2 DEF IInv, Listed
    <2>. HIDE DEF order
    <2>2. \A i \in DOMAIN terminalOrder :
              /\ order[i] = terminalOrder[i]
              /\ reqs[order[i]].finishedAt = requests[terminalOrder[i]].finishedAt
      BY <1>3, <2>1 DEF IInv, Listed
    <2>3. \A i \in DOMAIN order : i \in DOMAIN terminalOrder \/ i = Len(terminalOrder) + 1
      BY <2>1
    <2>4. \A i \in DOMAIN order : reqs[order[i]].finishedAt \in 0..clock
      BY <1>3, <2>1, <2>2, <2>3 DEF OrderInv, Sorted
    <2>5. ASSUME NEW i \in DOMAIN order, NEW j \in DOMAIN order, i <= j
          PROVE  reqs[order[i]].finishedAt <= reqs[order[j]].finishedAt
      <3>1. CASE j = Len(terminalOrder) + 1
        BY <1>3, <2>1, <2>4, <3>1 DEF OrderInv
      <3>2. CASE j \in DOMAIN terminalOrder
        <4>1. i \in DOMAIN terminalOrder
          BY <2>1, <2>5, <3>2
        <4>. QED  BY <2>2, <2>5, <3>2, <4>1 DEF OrderInv, Sorted
      <3>. QED  BY <2>3, <3>1, <3>2
    <2>. QED  BY <2>4, <2>5 DEF Sorted
  <1>6. \A r \in DOMAIN reqs : reqs[r].status \in Open \union Terminal
    BY <1>2, <1>3 DEF IInv, Shapes, Terminal
  <1>7. /\ Sorted(requests', terminalOrder', clock)
        /\ \A r \in DOMAIN reqs \ DOMAIN requests' : Replaced(reqs[r].finishedAt)
    BY <1>1, <1>4, <1>5, <1>6, PruneKeeps DEF OrderInv
  <1>8. \A r \in DOMAIN requests' : requests'[r] = reqs[r]
    BY <1>1, <1>4, PruneLemma
  <1>9. ~Ended(q)
    BY DEF Ended, OpenOf, Open, Terminal
  <1>10. Kept
    <2>. SUFFICES ASSUME NEW r \in DOMAIN requests
                  PROVE  LET endedAt == IF Ended(r) THEN requests[r].finishedAt ELSE clock
                         IN  \/ r \in DOMAIN requests' /\ (Ended(r) => requests'[r] = requests[r])
                             \/ Replaced(endedAt)
      BY DEF Kept, Replaced
    <2>1. CASE r = q
      BY <1>2, <1>3, <1>7, <1>9, <2>1
    <2>2. CASE r # q /\ Ended(r)
      BY <1>3, <1>7, <1>8, <2>2
    <2>3. CASE r # q /\ ~Ended(r)
      <3>1. r \in OpenOf(reqs)
        BY <1>3, <2>3 DEF IInv, Shapes, OpenOf, Ended
      <3>. QED  BY <1>1, <1>4, <2>3, <3>1, PruneLemma DEF OpenOf
    <2>. QED  BY <2>1, <2>2, <2>3
  <1>. QED  BY <1>1, <1>7, <1>10 DEF OrderInv

LEMMA OrderStep ==
  ASSUME IInv, OrderInv, [Next]_vars
  PROVE  OrderInv' /\ [Kept]_vars
  <1>1. clock \in Nat /\ Listed(requests, terminalOrder)
    BY DEF IInv, OrderInv
  <1>2. CASE LookUp \/ \E c \in Caller, p \in Plugin : Post(c, p)
    BY <1>2, PrunedLemma DEF LookUp, Post
  <1>3. CASE \/ \E c \in Caller : ReadRow(c) \/ ReadActive(c) \/ Conflict(c) \/ FailPost(c)
             \/ \E q \in RequestId : Acquire(q)
             \/ \E p \in Plugin : Expire(p) \/ OtherRun(p)
             \/ Tick
    <2>1. UNCHANGED managerVars
      BY <1>3 DEF ReadRow, ReadActive, Conflict, FailPost, Acquire, Expire, OtherRun, Tick
    <2>2. clock' = clock \/ clock' = clock + 1
      BY <1>3 DEF ReadRow, ReadActive, Conflict, FailPost, Acquire, Expire, OtherRun, Tick
    <2>3. requests' = requests /\ UNCHANGED terminalOrder
      BY <2>1 DEF managerVars
    <2>. QED  BY <1>1, <2>2, <2>3, QuietLemma
  <1>4. CASE \E c \in Caller : Accept(c)
    <2>1. /\ DOMAIN requests' = DOMAIN requests \union {nextId}
          /\ \A q \in DOMAIN requests : q # nextId => requests'[q] = requests[q]
          /\ UNCHANGED <<terminalOrder, clock>>
      BY <1>4 DEF Accept
    <2>2. nextId \notin DOMAIN requests
      BY DEF IInv, Shapes
    <2>. QED  BY <1>1, <2>1, <2>2, QuietLemma
  <1>5. CASE \E q \in RequestId : Begin(q)
    <2>1. PICK q \in RequestId : Begin(q)
      BY <1>5
    <2>2. /\ DOMAIN requests' = DOMAIN requests
          /\ \A r \in DOMAIN requests : r # q => requests'[r] = requests[r]
          /\ q \in OpenOf(requests) /\ UNCHANGED <<terminalOrder, clock>>
      BY <2>1 DEF Begin, OpenOf, Open
    <2>. QED  BY <1>1, <2>2, QuietLemma
  <1>6. CASE \E q \in RequestId :
                \/ Refused(q) \/ FailToStart(q) \/ FailCollecting(q)
                \/ Complete(q, "success") \/ Complete(q, "partial")
    <2>1. PICK q \in RequestId :
                \/ Refused(q) \/ FailToStart(q) \/ FailCollecting(q)
                \/ Complete(q, "success") \/ Complete(q, "partial")
      BY <1>6
    <2>2. q \in OpenOf(requests)
      BY <2>1 DEF IInv, Abortable, OpenOf, Open, Refused, FailToStart, FailCollecting, Complete,
                  Executing
    <2>3. End(q, "failed", Nobody) \/ End(q, "success", q) \/ End(q, "partial", q)
      BY <2>1 DEF Refused, FailToStart, FailCollecting, Complete
    <2>. QED  BY <2>2, <2>3, EndedLemma DEF Terminal
  <1>7. CASE Restart
    <2>1. OrderInv'
      BY <1>7 DEF Restart, OrderInv, Sorted
    <2>2. Kept
      BY <1>7 DEF Kept
    <2>. QED  BY <2>1, <2>2
  <1>8. CASE UNCHANGED vars
    BY <1>8 DEF vars, managerVars, OrderInv, Sorted
  <1>. QED  BY <1>2, <1>3, <1>4, <1>5, <1>6, <1>7, <1>8 DEF Next

(* The results are in the order in which they ended.                        *)
THEOREM OrderInvariance == Spec => [](IInv /\ OrderInv)
  BY InitLemma, OrderInit, NextLemma, OrderStep, PTL DEF Spec

(* A result does not change and is there until it is too old or as many as    *)
(* are kept ended since; a request that is open is not dropped.              *)
THEOREM ResultsStay == Spec => ResultsKept
  <1>1. IInv /\ OrderInv /\ [Next]_vars => [Kept]_vars
    BY OrderStep
  <1>. QED  BY <1>1, OrderInvariance, PTL DEF Spec, ResultsKept, Kept

=============================================================================
