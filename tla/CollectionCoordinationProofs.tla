-------------------- MODULE CollectionCoordinationProofs --------------------
(***************************************************************************)
(* Safety of CollectionCoordination for every number of workers, revisions,*)
(* batches and runs and every length of the lease.                         *)
(***************************************************************************)
EXTENDS CollectionCoordination, TLAPS

USE SourceAssumption, CheckpointAssumption, RevisionAssumption, LeaseAssumption, SkewAssumption, BoundAssumption

(* No row, no run owned: the invariant holds initially.                    *)
LEMMA InitIInv == Init => IInv
  BY DEF Init, IInv, TypeOK, RowsInOrder, Ownership, OwnerInSync, Run, NoRun,
         Batch, Checkpoint, Status, Control, Holding, Running

(* A step outside the worker's own variables and the rows changes nothing  *)
(* the invariant depends on.                                               *)
LEMMA ReadLatestRunIInv ==
  ASSUME IInv, NEW w \in Worker, ReadLatestRun(w)
  PROVE  IInv'
  <1>1. PICK rev \in Revision : myRevision' = [myRevision EXCEPT ![w] = rev]
    BY DEF ReadLatestRun
  <1>2. PICK next \in {"reading", "loaded"} : pc' = [pc EXCEPT ![w] = next]
    BY DEF ReadLatestRun
  <1>3. TypeOK'
    BY <1>1, <1>2 DEF IInv, TypeOK, ReadLatestRun, Checkpoint, runVars, dataVars, Control
  <1>4. RowsInOrder'
    BY DEF IInv, RowsInOrder, ReadLatestRun, runVars, dataVars, Running
  <1>5. Ownership'
    BY <1>1, <1>2 DEF IInv, TypeOK, Ownership, ReadLatestRun, runVars, dataVars, Holding
  <1>6. OwnerInSync'
    BY <1>1, <1>2 DEF IInv, TypeOK, OwnerInSync, ReadLatestRun, runVars, dataVars, Running
  <1>7. QED
    BY <1>3, <1>4, <1>5, <1>6 DEF IInv

(* Nor does reading the checkpoint that is stored.                         *)
LEMMA ReadCheckpointIInv ==
  ASSUME IInv, NEW w \in Worker, ReadCheckpoint(w)
  PROVE  IInv'
  <1>1. myRevision[w] \in Revision
    BY DEF ReadCheckpoint, IInv, Ownership
  <1>2. checkpoint[myRevision[w]] \in Checkpoint
    BY <1>1 DEF IInv, TypeOK
  <1>3. TypeOK'
    BY <1>1, <1>2 DEF IInv, TypeOK, ReadCheckpoint, runVars, dataVars, Control
  <1>4. RowsInOrder'
    BY DEF IInv, RowsInOrder, ReadCheckpoint, runVars, dataVars, Running
  <1>5. Ownership'
    BY <1>1 DEF IInv, TypeOK, Ownership, ReadCheckpoint, runVars, dataVars, Holding
  <1>6. OwnerInSync'
    BY <1>1 DEF IInv, TypeOK, OwnerInSync, ReadCheckpoint, runVars, dataVars, Running
  <1>7. QED
    BY <1>3, <1>4, <1>5, <1>6 DEF IInv

(* A worker that leaves forgets its run; the rows are untouched.           *)
LEMMA LeaveIInv ==
  ASSUME IInv, NEW w \in Worker, Leave(w), UNCHANGED <<runVars, dataVars, renewals>>
  PROVE  IInv'
  <1>1. TypeOK'
    BY DEF IInv, TypeOK, Leave, runVars, dataVars, Control, Checkpoint, NoRun
  <1>2. RowsInOrder'
    BY DEF IInv, RowsInOrder, runVars, dataVars, Running
  <1>3. Ownership'
    BY DEF IInv, TypeOK, Ownership, Leave, runVars, dataVars, Holding
  <1>4. OwnerInSync'
    BY DEF IInv, TypeOK, OwnerInSync, Leave, runVars, dataVars, Running
  <1>5. QED
    BY <1>1, <1>2, <1>3, <1>4 DEF IInv

(* A granted startRun: the only run left running is the new row, which has *)
(* processed nothing.                                                      *)
LEMMA InsertRunRows ==
  ASSUME IInv, NEW rev \in Revision, InsertRun(rev), UNCHANGED dataVars
  PROVE  /\ RowsInOrder'
         /\ status' \in [Run -> Status]
         /\ revision' \in [Run -> Revision \union {NoRevision}]
         /\ startedAt' \in [Run -> Int]
         /\ age' \in [Run -> 0..LeaseTicks]
         /\ nextRun' \in 1..(MaxRuns + 1)
         /\ \A r \in Run : Running(r)' => r = nextRun
         /\ processed[nextRun] = 0
         /\ \A r \in Run : r < nextRun => revision'[r] = revision[r]
  <1> USE DEF IInv, TypeOK, InsertRun, Run
  <1>1. /\ status' \in [Run -> Status]
        /\ revision' \in [Run -> Revision \union {NoRevision}]
        /\ startedAt' \in [Run -> Int]
        /\ age' \in [Run -> 0..LeaseTicks]
        /\ nextRun' \in 1..(MaxRuns + 1)
    BY DEF Status
  <1>2. \A r \in Run : Running(r)' => r = nextRun
    BY DEF Running
  <1>3. processed[nextRun] = 0
    BY DEF RowsInOrder
  <1>4. \A r \in Run : r < nextRun => revision'[r] = revision[r]
    OBVIOUS
  <1>5. RowsInOrder'
    <2>1. \A r \in Run : status'[r] = "none" <=> r >= nextRun'
      BY DEF RowsInOrder, Running
    <2>2. \A r \in Run : Running(r)' => r = nextRun' - 1
      BY <1>2
    <2>3. \A r \in Run : r < nextRun' => revision'[r] \in Revision
      BY DEF RowsInOrder
    <2>4. \A r \in Run : processed'[r] > 0 => r < nextRun'
      BY DEF RowsInOrder
    <2>5. \A b \in Batch : lastSeen'[b] < nextRun'
      <3>1. lastSeen' = lastSeen /\ nextRun' = nextRun + 1 /\ nextRun \in Int
        BY DEF dataVars
      <3>2. \A b \in Batch : lastSeen[b] \in Int /\ lastSeen[b] < nextRun
        BY DEF RowsInOrder, NoRun
      <3>3. QED
        BY <3>1, <3>2
    <2>6. QED
      BY <2>1, <2>2, <2>3, <2>4, <2>5 DEF RowsInOrder
  <1>6. QED
    BY <1>1, <1>2, <1>3, <1>4, <1>5

(* The worker of a granted startRun owns the new row, and owns it alone.   *)
LEMMA StartRunIInv ==
  ASSUME IInv, NEW w \in Worker, StartRun(w)
  PROVE  IInv'
  <1>1. myRevision[w] \in Revision
    BY DEF IInv, Ownership, StartRun
  <1>2. InsertRun(myRevision[w]) /\ UNCHANGED dataVars
    BY DEF StartRun
  <1> USE InsertRunRows, <1>1, <1>2
  <1>3. TypeOK'
    <2>1. UNCHANGED <<dataVars, processed, isolated, renewals>>
      BY DEF StartRun, InsertRun
    <2>2. /\ pc' \in [Worker -> Control]
          /\ myRun' \in [Worker -> Run \union {NoRun}]
      BY DEF IInv, TypeOK, StartRun, InsertRun, Control
    <2> QED
      BY <2>1, <2>2 DEF IInv, TypeOK, StartRun, dataVars
  <1>4. RowsInOrder'
    OBVIOUS
  <1>5. Ownership'
    <2>1. nextRun \in Run /\ nextRun < nextRun' /\ revision'[nextRun] = myRevision[w]
      BY DEF IInv, TypeOK, InsertRun, Run
    <2>2. \A v \in Worker : v # w => pc'[v] = pc[v] /\ myRun'[v] = myRun[v]
      BY DEF IInv, TypeOK, StartRun
    <2>3. \A v \in Worker : pc[v] \in Holding => myRun[v] # nextRun
      BY DEF IInv, Ownership, TypeOK, Run
    <2>4. pc'[w] = "collecting" /\ myRun'[w] = nextRun
      BY DEF IInv, TypeOK, StartRun
    <2>5. \A v \in Worker : pc'[v] \in Holding =>
            myRun'[v] \in Run /\ myRun'[v] < nextRun' /\ revision'[myRun'[v]] = myRevision'[v]
      <3> SUFFICES ASSUME NEW v \in Worker, pc'[v] \in Holding
                   PROVE  /\ myRun'[v] \in Run /\ myRun'[v] < nextRun'
                          /\ revision'[myRun'[v]] = myRevision'[v]
        OBVIOUS
      <3>1. myRevision' = myRevision
        BY DEF StartRun
      <3>2. CASE v = w
        BY <2>1, <2>4, <3>1, <3>2
      <3>3. CASE v # w
        <4>1. /\ pc'[v] = pc[v] /\ myRun'[v] = myRun[v]
              /\ myRun[v] \in Run /\ myRun[v] < nextRun /\ revision[myRun[v]] = myRevision[v]
          BY <2>2, <3>3 DEF IInv, Ownership
        <4>2. nextRun < nextRun' /\ nextRun \in Nat /\ nextRun' \in Nat /\ myRun[v] \in Nat
          <5>1. nextRun' = nextRun + 1
            BY <2>1 DEF InsertRun
          <5>2. nextRun \in 1..(MaxRuns + 1)
            BY DEF IInv, TypeOK
          <5>3. QED
            BY <4>1, <5>1, <5>2 DEF Run
        <4>3. revision'[myRun[v]] = revision[myRun[v]]
          BY <4>1, <4>2 DEF IInv, TypeOK, InsertRun
        <4> QED
          BY <3>1, <4>1, <4>2, <4>3
      <3> QED
        BY <3>2, <3>3
    <2>6. \A u, v \in Worker :
            pc'[u] \in Holding /\ pc'[v] \in Holding /\ myRun'[u] = myRun'[v] => u = v
      BY <2>2, <2>3, <2>4 DEF IInv, Ownership
    <2>7. \A v \in Worker : pc'[v] # "idle" => myRevision'[v] \in Revision
      BY <2>2 DEF IInv, Ownership, StartRun
    <2>8. \A v \in Worker : pc'[v] = "transformed" => Following(local'[v]) \in Batch
      BY <2>2, <2>4 DEF IInv, Ownership, StartRun
    <2>9. \A v \in Worker : pc'[v] \in {"idle", "reading", "loaded"} => myRun'[v] = NoRun
      BY <2>2, <2>4 DEF IInv, Ownership
    <2>10. QED
      BY <2>5, <2>6, <2>7, <2>8, <2>9 DEF Ownership, Following
  <1>6. OwnerInSync'
    <2>1. \A v \in Worker : v # w => pc'[v] = pc[v] /\ myRun'[v] = myRun[v]
      BY DEF IInv, TypeOK, StartRun
    <2>2. \A v \in Worker : v # w /\ pc[v] \in Holding => myRun[v] \in Run /\ myRun[v] # nextRun
      BY DEF IInv, TypeOK, Ownership, Run
    <2>3. processed'[nextRun] = 0 /\ myRun'[w] = nextRun
      BY DEF IInv, TypeOK, StartRun, InsertRun
    <2>4. QED
      BY <2>1, <2>2, <2>3 DEF OwnerInSync, Holding
  <1>7. QED
    BY <1>3, <1>4, <1>5, <1>6 DEF IInv

(* A granted startRun whose answer is lost leaves a row without an owner.  *)
LEMMA StartRunUnansweredIInv ==
  ASSUME IInv, NEW w \in Worker, StartRunUnanswered(w)
  PROVE  IInv'
  <1>1. myRevision[w] \in Revision
    BY DEF IInv, Ownership, StartRunUnanswered
  <1>2. InsertRun(myRevision[w]) /\ UNCHANGED <<dataVars, renewals>> /\ Leave(w)
    BY DEF StartRunUnanswered
  <1> USE InsertRunRows, <1>1, <1>2
  <1>3. TypeOK'
    BY DEF IInv, TypeOK, Leave, InsertRun, dataVars, Control, Checkpoint, NoRun
  <1>4. Ownership'
    <2>1. \A v \in Worker : v # w => /\ pc'[v] = pc[v] /\ myRun'[v] = myRun[v]
                                    /\ myRevision'[v] = myRevision[v] /\ local'[v] = local[v]
      BY DEF IInv, TypeOK, Leave
    <2>2. pc'[w] = "idle" /\ myRun'[w] = NoRun
      BY DEF IInv, TypeOK, Leave
    <2>3. nextRun < nextRun'
      BY DEF IInv, TypeOK, InsertRun, Run
    <2>4. \A v \in Worker : pc'[v] \in Holding =>
            myRun'[v] \in Run /\ myRun'[v] < nextRun' /\ revision'[myRun'[v]] = myRevision'[v]
      <3> SUFFICES ASSUME NEW v \in Worker, pc'[v] \in Holding
                   PROVE  myRun'[v] \in Run /\ myRun'[v] < nextRun' /\ revision'[myRun'[v]] = myRevision'[v]
        OBVIOUS
      <3>1. v # w /\ pc[v] \in Holding
        BY <2>1, <2>2 DEF Holding
      <3>2. myRun[v] \in Run /\ myRun[v] < nextRun /\ revision[myRun[v]] = myRevision[v]
        BY <3>1 DEF IInv, Ownership
      <3>3. revision'[myRun[v]] = revision[myRun[v]]
        <4>1. \A r \in Run : r < nextRun => revision'[r] = revision[r]
          OBVIOUS
        <4>2. QED
          BY <3>2, <4>1
      <3>4. QED
        BY <1>3, <2>1, <2>3, <3>1, <3>2, <3>3 DEF IInv, TypeOK, Run
    <2>5. QED
      BY <2>1, <2>2, <2>4 DEF IInv, Ownership, Holding, Following
  <1>5. OwnerInSync'
    <2>1. \A v \in Worker : pc'[v] \in Holding => v # w /\ pc'[v] = pc[v] /\ myRun'[v] = myRun[v]
      BY DEF IInv, TypeOK, Leave, Holding
    <2>2. \A v \in Worker : pc[v] \in Holding => myRun[v] \in Run /\ myRun[v] # nextRun
      BY DEF IInv, TypeOK, Ownership, Run
    <2>3. QED
      BY <2>1, <2>2 DEF OwnerInSync, Holding
  <1>6. QED
    BY <1>3, <1>4, <1>5 DEF IInv

(* A worker that moves on inside runCollection without a storage call.     *)
LEMMA MoveIInv ==
  ASSUME IInv, NEW w \in Worker, NEW target \in {"transformed", "failing", "finishing"},
         pc[w] \in Holding,
         target = "transformed" => Following(local[w]) \in Batch,
         target # "failing" => pc[w] = "collecting",
         pc' = [pc EXCEPT ![w] = target],
         UNCHANGED <<runVars, dataVars, renewals, local, myRun, myRevision, rejected, aborted>>
  PROVE  IInv'
  <1>1. TypeOK'
    BY DEF IInv, TypeOK, runVars, dataVars, Control
  <1>2. RowsInOrder'
    BY DEF IInv, RowsInOrder, runVars, dataVars, Running
  <1>3. \A v \in Worker : pc'[v] = IF v = w THEN target ELSE pc[v]
    BY DEF IInv, TypeOK
  <1>4. Ownership'
    BY <1>3 DEF IInv, Ownership, runVars, dataVars, Holding, Following
  <1>5. OwnerInSync'
    BY <1>3 DEF IInv, OwnerInSync, runVars, dataVars, Running
  <1>6. QED
    BY <1>1, <1>2, <1>4, <1>5 DEF IInv

(* A stored batch: the run is the last row, its checkpoint and its records *)
(* are the only ones that change.                                          *)
LEMMA StoreBatchRows ==
  ASSUME IInv, NEW w \in Worker, NEW bad \in BOOLEAN, pc[w] = "transformed",
         StoreBatch(myRun[w], myRevision[w], local[w], bad)
  PROVE  /\ RowsInOrder'
         /\ myRun[w] \in Run
         /\ Following(local[w]) \in Batch
         /\ age' \in [Run -> 0..LeaseTicks]
         /\ processed' \in [Run -> Nat]
         /\ isolated' \in [Run -> BOOLEAN]
         /\ checkpoint' \in [Revision -> Checkpoint]
         /\ checkpoint'[myRevision[w]] = Following(local[w])
         /\ lastSeen' \in [Batch -> Run \union {NoRun}]
         /\ \A v \in Worker : v # w /\ pc[v] \in Holding => ~Running(myRun[v])
  <1>1. myRun[w] \in Run /\ Following(local[w]) \in Batch /\ myRevision[w] \in Revision
    BY DEF IInv, Ownership, Holding
  <1>2. /\ age' \in [Run -> 0..LeaseTicks]
        /\ processed' \in [Run -> Nat]
        /\ isolated' \in [Run -> BOOLEAN]
        /\ checkpoint' \in [Revision -> Checkpoint]
        /\ checkpoint'[myRevision[w]] = Following(local[w])
        /\ lastSeen' \in [Batch -> Run \union {NoRun}]
    BY <1>1 DEF IInv, TypeOK, StoreBatch, BatchWrites, Checkpoint
  <1>3. RowsInOrder'
    BY <1>1 DEF IInv, TypeOK, RowsInOrder, Ownership, Holding, StoreBatch, BatchWrites, Running
  <1>4. \A v \in Worker : v # w /\ pc[v] \in Holding => ~Running(myRun[v])
    BY <1>1 DEF IInv, RowsInOrder, Ownership, Holding, StoreBatch, BatchWrites
  <1>5. QED
    BY <1>1, <1>2, <1>3, <1>4

(* The checkpoints of the worker and of the storage move together.         *)
LEMMA CommitBatchIInv ==
  ASSUME IInv, NEW w \in Worker, NEW bad \in BOOLEAN, CommitBatch(w, bad)
  PROVE  IInv'
  <1>1. pc[w] = "transformed" /\ StoreBatch(myRun[w], myRevision[w], local[w], bad)
    BY DEF CommitBatch
  <1>2. /\ RowsInOrder'
        /\ Following(local[w]) \in Batch
        /\ age' \in [Run -> 0..LeaseTicks]
        /\ processed' \in [Run -> Nat]
        /\ isolated' \in [Run -> BOOLEAN]
        /\ checkpoint' \in [Revision -> Checkpoint]
        /\ checkpoint'[myRevision[w]] = Following(local[w])
        /\ lastSeen' \in [Batch -> Run \union {NoRun}]
        /\ \A v \in Worker : v # w /\ pc[v] \in Holding => ~Running(myRun[v])
    BY <1>1, StoreBatchRows
  <1>3. /\ status' = status /\ revision' = revision /\ startedAt' = startedAt
        /\ nextRun' = nextRun
    BY <1>1 DEF StoreBatch, BatchWrites
  <1>4. /\ local' \in [Worker -> Checkpoint]
        /\ local'[w] = Following(local[w])
        /\ \A v \in Worker : v # w => local'[v] = local[v]
    BY <1>2 DEF IInv, TypeOK, CommitBatch, Checkpoint
  <1>5. /\ pc' \in [Worker -> Control]
        /\ \A v \in Worker : pc'[v] = IF v = w THEN "collecting" ELSE pc[v]
    BY DEF IInv, TypeOK, CommitBatch, Control
  <1>6. rejected' \in [Worker -> BOOLEAN]
    BY DEF IInv, TypeOK, CommitBatch
  <1>7. /\ renewals' = renewals /\ myRun' = myRun /\ myRevision' = myRevision
        /\ aborted' = aborted
    BY DEF CommitBatch
  <1>8. TypeOK'
    BY <1>2, <1>3, <1>4, <1>5, <1>6, <1>7 DEF IInv, TypeOK
  <1>9. Ownership'
    BY <1>1, <1>3, <1>4, <1>5, <1>7 DEF IInv, Ownership, Holding, Following
  <1>10. OwnerInSync'
    BY <1>1, <1>2, <1>3, <1>4, <1>5, <1>7 DEF IInv, OwnerInSync, Holding, Running
  <1>11. QED
    BY <1>2, <1>8, <1>9, <1>10 DEF IInv

(* An unanswered batch moves only the stored checkpoint; its worker fails. *)
LEMMA CommitBatchUnansweredIInv ==
  ASSUME IInv, NEW w \in Worker, NEW bad \in BOOLEAN, CommitBatchUnanswered(w, bad)
  PROVE  IInv'
  <1>1. pc[w] = "transformed" /\ StoreBatch(myRun[w], myRevision[w], local[w], bad)
    BY DEF CommitBatchUnanswered
  <1>2. /\ RowsInOrder'
        /\ age' \in [Run -> 0..LeaseTicks]
        /\ processed' \in [Run -> Nat]
        /\ isolated' \in [Run -> BOOLEAN]
        /\ checkpoint' \in [Revision -> Checkpoint]
        /\ lastSeen' \in [Batch -> Run \union {NoRun}]
        /\ \A v \in Worker : v # w /\ pc[v] \in Holding => ~Running(myRun[v])
    BY <1>1, StoreBatchRows
  <1>3. /\ status' = status /\ revision' = revision /\ startedAt' = startedAt
        /\ nextRun' = nextRun
    BY <1>1 DEF StoreBatch, BatchWrites
  <1>4. /\ pc' \in [Worker -> Control]
        /\ \A v \in Worker : pc'[v] = IF v = w THEN "failing" ELSE pc[v]
    BY DEF IInv, TypeOK, CommitBatchUnanswered, Control
  <1>5. /\ renewals' = renewals /\ myRun' = myRun /\ myRevision' = myRevision
        /\ local' = local /\ rejected' = rejected /\ aborted' = aborted
    BY DEF CommitBatchUnanswered
  <1>6. TypeOK'
    BY <1>2, <1>3, <1>4, <1>5 DEF IInv, TypeOK
  <1>7. Ownership'
    BY <1>1, <1>3, <1>4, <1>5 DEF IInv, Ownership, Holding, Following
  <1>8. OwnerInSync'
    BY <1>2, <1>3, <1>4, <1>5 DEF IInv, OwnerInSync, Holding, Running
  <1>9. QED
    BY <1>2, <1>6, <1>7, <1>8 DEF IInv

(* A run is closed and its worker leaves.                                  *)
LEMMA CloseRunIInv ==
  ASSUME IInv, NEW w \in Worker, pc[w] \in Holding,
         NEW outcome \in {"success", "partial", "failed"},
         CloseRun(myRun[w], outcome), Leave(w), UNCHANGED <<dataVars, renewals>>
  PROVE  IInv'
  <1>1. myRun[w] \in Run /\ myRun[w] < nextRun
    BY DEF IInv, Ownership
  <1>2. \A r \in Run : status'[r] = IF r = myRun[w] THEN outcome ELSE status[r]
    BY DEF IInv, TypeOK, CloseRun
  <1>3. TypeOK'
    BY <1>1 DEF IInv, TypeOK, CloseRun, Leave, dataVars, Status, Control, Checkpoint, NoRun
  <1>4. RowsInOrder'
    BY <1>1, <1>2 DEF IInv, TypeOK, RowsInOrder, CloseRun, dataVars, Running, Run
  <1>5. \A v \in Worker : IF v = w THEN pc'[v] = "idle" /\ myRun'[v] = NoRun
                          ELSE /\ pc'[v] = pc[v] /\ myRun'[v] = myRun[v]
                               /\ myRevision'[v] = myRevision[v] /\ local'[v] = local[v]
    BY DEF IInv, TypeOK, Leave
  <1>6. Ownership'
    BY <1>5 DEF IInv, Ownership, CloseRun, Holding, Following
  <1>7. OwnerInSync'
    <2>1. \A v \in Worker : pc[v] \in Holding => myRun[v] \in Run
      BY DEF IInv, Ownership
    <2>2. \A r \in Run : Running(r)' => Running(r)
      BY <1>2 DEF Running
    <2>3. QED
      BY <1>5, <2>1, <2>2 DEF IInv, OwnerInSync, CloseRun, dataVars, Holding
  <1>8. QED
    BY <1>3, <1>4, <1>6, <1>7 DEF IInv

(* An interrupted startRun: no run is left running.                        *)
LEMMA StartRunInterruptedIInv ==
  ASSUME IInv, NEW w \in Worker, StartRunInterrupted(w)
  PROVE  IInv'
  <1>1. \A r \in Run : status'[r] = IF Running(r) THEN "failed" ELSE status[r]
    BY DEF StartRunInterrupted
  <1>2. TypeOK'
    BY DEF IInv, TypeOK, StartRunInterrupted, Leave, dataVars, Status, Control, Checkpoint, NoRun
  <1>3. \A r \in Run : ~Running(r)'
    BY <1>1 DEF Running
  <1>4. RowsInOrder'
    BY <1>1, <1>3 DEF IInv, RowsInOrder, StartRunInterrupted, dataVars, Running
  <1>5. \A v \in Worker : IF v = w THEN pc'[v] = "idle" /\ myRun'[v] = NoRun
                          ELSE /\ pc'[v] = pc[v] /\ myRun'[v] = myRun[v]
                               /\ myRevision'[v] = myRevision[v] /\ local'[v] = local[v]
    BY DEF IInv, TypeOK, StartRunInterrupted, Leave
  <1>6. Ownership'
    BY <1>5 DEF IInv, Ownership, StartRunInterrupted, Holding, Following
  <1>7. OwnerInSync'
    <2>1. \A v \in Worker : pc'[v] \in Holding => myRun'[v] \in Run
      BY <1>6 DEF Ownership
    <2>2. QED
      BY <1>3, <2>1 DEF OwnerInSync, Holding
  <1>8. QED
    BY <1>2, <1>4, <1>6, <1>7 DEF IInv

(* Steps that move the clock, a heartbeat or a signal.                     *)
LEMMA SignalIInv ==
  ASSUME IInv,
         age' \in [Run -> 0..LeaseTicks],
         renewals' \in SUBSET Run,
         aborted' \in [Worker -> BOOLEAN],
         UNCHANGED <<status, revision, startedAt, processed, isolated, nextRun>>,
         UNCHANGED <<dataVars, pc, local, myRun, myRevision, rejected>>
  PROVE  IInv'
  <1>1. TypeOK'
    BY DEF IInv, TypeOK, dataVars
  <1>2. RowsInOrder'
    BY DEF IInv, RowsInOrder, dataVars, Running
  <1>3. Ownership'
    BY DEF IInv, Ownership, Following
  <1>4. OwnerInSync'
    BY DEF IInv, OwnerInSync, dataVars, Running
  <1>5. QED
    BY <1>1, <1>2, <1>3, <1>4 DEF IInv

(* Every step of runCollection preserves the invariant.                    *)
LEMMA CallIInv ==
  ASSUME IInv, NEW w \in Worker, Call(w)
  PROVE  IInv'
  <1>1. CASE ReadLatestRun(w) \/ ReadCheckpoint(w)
    BY <1>1, ReadLatestRunIInv, ReadCheckpointIInv
  <1>2. CASE StartRun(w)
    BY <1>2, StartRunIInv
  <1>3. CASE StartRunUnanswered(w)
    BY <1>3, StartRunUnansweredIInv
  <1>4. CASE RefuseDuplicate(w) \/ GiveUpStart(w) \/ LeaveUnfinished(w)
    BY <1>4, LeaveIInv DEF RefuseDuplicate, GiveUpStart, LeaveUnfinished
  <1>5. CASE DeliverBatch(w)
    BY <1>5, MoveIInv DEF DeliverBatch, Holding
  <1>6. CASE FailCollection(w)
    BY <1>6, MoveIInv DEF FailCollection, Holding
  <1>7. CASE ExhaustSource(w)
    BY <1>7, MoveIInv DEF ExhaustSource, Holding
  <1>8. CASE \E bad \in BOOLEAN : CommitBatch(w, bad) \/ CommitBatchUnanswered(w, bad)
    BY <1>8, CommitBatchIInv, CommitBatchUnansweredIInv
  <1>9. CASE FinishRun(w)
    <2>1. PICK outcome \in {"success", "partial", "failed"} : CloseRun(myRun[w], outcome)
      BY <1>9 DEF FinishRun
    <2>2. QED
      BY <1>9, <2>1, CloseRunIInv DEF FinishRun, Holding
  <1>10. CASE RecordFailure(w)
    BY <1>10, CloseRunIInv DEF RecordFailure, Holding
  <1>11. CASE StartRunInterrupted(w)
    BY <1>11, StartRunInterruptedIInv
  <1>12. QED
    BY <1>1, <1>2, <1>3, <1>4, <1>5, <1>6, <1>7, <1>8, <1>9, <1>10, <1>11 DEF Call

(* Every step of the system preserves the invariant.                       *)
LEMMA NextIInv ==
  ASSUME IInv, [Next]_vars
  PROVE  IInv'
  <1>1. CASE \E w \in Worker : Call(w)
    BY <1>1, CallIInv
  <1>2. CASE \E w \in Worker : SendHeartbeat(w)
    <2>1. PICK w \in Worker : SendHeartbeat(w)
      BY <1>2
    <2>2. myRun[w] \in Run
      BY <2>1 DEF IInv, Ownership, SendHeartbeat, Holding
    <2>3. QED
      BY <2>1, <2>2, SignalIInv DEF IInv, TypeOK, SendHeartbeat, runVars, workerVars
  <1>3. CASE \E w \in Worker : Abort(w)
    BY <1>3, SignalIInv DEF IInv, TypeOK, Abort, runVars
  <1>4. CASE \E w \in Worker : Crash(w)
    BY <1>4, LeaveIInv DEF Crash
  <1>5. CASE \E r \in Run : RenewRun(r)
    <2>1. PICK r \in Run : RenewRun(r)
      BY <1>5
    <2>2. age' \in [Run -> 0..LeaseTicks]
      BY <2>1 DEF IInv, TypeOK, RenewRun
    <2>3. QED
      BY <2>1, <2>2, SignalIInv DEF IInv, TypeOK, RenewRun, workerVars
  <1>6. CASE \E r \in Run : LoseHeartbeat(r)
    BY <1>6, SignalIInv DEF IInv, TypeOK, LoseHeartbeat, runVars, workerVars
  <1>7. CASE Tick
    <2>1. age' \in [Run -> 0..LeaseTicks]
      BY <1>7 DEF IInv, TypeOK, Tick, LeaseValid
    <2>2. QED
      BY <1>7, <2>1, SignalIInv DEF IInv, TypeOK, Tick, workerVars
  <1>8. CASE UNCHANGED vars
    BY <1>8, SignalIInv DEF IInv, TypeOK, vars, runVars, workerVars
  <1>9. QED
    BY <1>1, <1>2, <1>3, <1>4, <1>5, <1>6, <1>7, <1>8 DEF Next

(* The invariant holds in every reachable state: rows are inserted in order, *)
(* only the last one can be running, and every worker inside runCollection *)
(* owns a run of its own.                                                  *)
THEOREM Invariance == Spec => []IInv
  <1>1. Init => IInv
    BY InitIInv
  <1>2. IInv /\ [Next]_vars => IInv'
    BY NextIInv
  <1>3. QED
    BY <1>1, <1>2, PTL DEF Spec

(* Every variable keeps its type.                                          *)
THEOREM TypeCorrect == Spec => []TypeOK
  <1>1. IInv => TypeOK
    BY DEF IInv
  <1>2. QED
    BY <1>1, Invariance, PTL

(* The target never has two running runs.                                  *)
THEOREM SingleRun == Spec => []OneActiveRun
  <1>1. IInv => OneActiveRun
    BY DEF IInv, RowsInOrder, OneActiveRun
  <1>2. QED
    BY <1>1, Invariance, PTL

(* After its first batch a running run is never refused with               *)
(* CHECKPOINT_CONFLICT.                                                    *)
THEOREM NoLateConflict == Spec => []OwnerInSync
  <1>1. IInv => OwnerInSync
    BY DEF IInv
  <1>2. QED
    BY <1>1, Invariance, PTL

-----------------------------------------------------------------------------
(* What a step can do to the rows, the checkpoints and the records: insert *)
(* a run, store a batch of a running run, close a run, or nothing.         *)
Inserts == \E rev \in Revision : InsertRun(rev) /\ UNCHANGED dataVars

Stores ==
    \E w \in Worker, bad \in BOOLEAN :
        /\ pc[w] = "transformed"
        /\ StoreBatch(myRun[w], myRevision[w], local[w], bad)

Closes ==
    \E r \in Run, outcome \in {"success", "partial", "failed"} :
        CloseRun(r, outcome) /\ UNCHANGED dataVars

Cleans ==
    /\ status' = [r \in Run |-> IF Running(r) THEN "failed" ELSE status[r]]
    /\ UNCHANGED <<revision, startedAt, processed, isolated, nextRun, dataVars>>

Keeps == UNCHANGED <<status, revision, startedAt, processed, isolated, nextRun, dataVars>>

(* The steps that change rows or data are the transactions.                *)
LEMMA StorageSteps ==
  ASSUME IInv, [Next]_vars
  PROVE  Inserts \/ Stores \/ Closes \/ Cleans \/ Keeps
  <1>1. CASE \E w \in Worker : Call(w)
    <2>1. PICK w \in Worker : Call(w)
      BY <1>1
    <2>2. CASE ReadLatestRun(w) \/ ReadCheckpoint(w) \/ RefuseDuplicate(w) \/ GiveUpStart(w)
               \/ LeaveUnfinished(w) \/ DeliverBatch(w) \/ FailCollection(w) \/ ExhaustSource(w)
      BY <2>2 DEF ReadLatestRun, ReadCheckpoint, RefuseDuplicate, GiveUpStart, LeaveUnfinished,
                  DeliverBatch, FailCollection, ExhaustSource, Keeps, runVars
    <2>3. CASE StartRun(w) \/ StartRunUnanswered(w)
      BY <2>3 DEF StartRun, StartRunUnanswered, Inserts, IInv, Ownership
    <2>4. CASE \E bad \in BOOLEAN : CommitBatch(w, bad) \/ CommitBatchUnanswered(w, bad)
      BY <2>4 DEF CommitBatch, CommitBatchUnanswered, Stores
    <2>5. CASE FinishRun(w) \/ RecordFailure(w)
      <3>1. myRun[w] \in Run
        BY <2>5 DEF IInv, Ownership, FinishRun, RecordFailure, Holding
      <3>2. PICK outcome \in {"success", "partial", "failed"} :
              CloseRun(myRun[w], outcome) /\ UNCHANGED dataVars
        BY <2>5 DEF FinishRun, RecordFailure
      <3>3. QED
        BY <3>1, <3>2 DEF Closes
    <2>6. CASE StartRunInterrupted(w)
      BY <2>6 DEF StartRunInterrupted, Cleans
    <2>7. QED
      BY <2>1, <2>2, <2>3, <2>4, <2>5, <2>6 DEF Call
  <1>2. CASE \E w \in Worker : SendHeartbeat(w) \/ Abort(w) \/ Crash(w)
    BY <1>2 DEF SendHeartbeat, Abort, Crash, Keeps, runVars
  <1>3. CASE (\E r \in Run : RenewRun(r) \/ LoseHeartbeat(r)) \/ Tick \/ UNCHANGED vars
    BY <1>3 DEF RenewRun, LoseHeartbeat, Tick, Keeps, runVars, vars
  <1>4. QED
    BY <1>1, <1>2, <1>3 DEF Next

(* The run that stores a batch is the newest row and has a valid lease.    *)
LEMMA StorerIsNewest ==
  ASSUME IInv, NEW w \in Worker, NEW bad \in BOOLEAN, pc[w] = "transformed",
         StoreBatch(myRun[w], myRevision[w], local[w], bad)
  PROVE  /\ myRun[w] \in Run
         /\ myRun[w] = nextRun - 1
         /\ Running(myRun[w]) /\ LeaseValid(myRun[w])
         /\ revision[myRun[w]] = myRevision[w]
  BY DEF IInv, Ownership, Holding, RowsInOrder, StoreBatch, BatchWrites

(* No transaction touches a terminal row.                                  *)
LEMMA TerminalStep ==
  ASSUME IInv, [Next]_vars, NEW r \in Run, status[r] \in {"success", "partial", "failed"}
  PROVE  status'[r] = status[r] /\ processed'[r] = processed[r] /\ isolated'[r] = isolated[r]
  <1>1. CASE Inserts
    <2>1. r # nextRun
      BY DEF IInv, TypeOK, RowsInOrder, Run
    <2>2. QED
      BY <1>1, <2>1 DEF Inserts, InsertRun, Running
  <1>2. CASE Stores
    <2>1. PICK w \in Worker, bad \in BOOLEAN :
            pc[w] = "transformed" /\ StoreBatch(myRun[w], myRevision[w], local[w], bad)
      BY <1>2 DEF Stores
    <2>2. r # myRun[w]
      BY <2>1 DEF StoreBatch, BatchWrites, Running
    <2>3. QED
      BY <2>1, <2>2 DEF StoreBatch, BatchWrites, IInv, TypeOK
  <1>3. CASE Closes
    BY <1>3 DEF Closes, CloseRun, Running, IInv, TypeOK
  <1>4. CASE Cleans
    BY <1>4 DEF Cleans, Running
  <1>5. CASE Keeps
    BY <1>5 DEF Keeps
  <1>6. QED
    BY <1>1, <1>2, <1>3, <1>4, <1>5, StorageSteps

(* A terminal row never changes again.                                     *)
THEOREM TerminalRunsAreFinal == Spec => TerminalIsFinal
  <1>1. IInv /\ [Next]_vars =>
          [\A r \in Run : status[r] \in {"success", "partial", "failed"} =>
              /\ status'[r] = status[r]
              /\ processed'[r] = processed[r]
              /\ isolated'[r] = isolated[r]]_vars
    BY TerminalStep
  <1>2. QED
    BY <1>1, Invariance, PTL DEF Spec, TerminalIsFinal

(* A transaction that stores a batch stores it under the newest row.       *)
LEMMA DataStep ==
  ASSUME IInv, [Next]_vars, NEW b \in Batch, lastSeen'[b] # lastSeen[b]
  PROVE  lastSeen'[b] = nextRun - 1 /\ Running(nextRun - 1) /\ LeaseValid(nextRun - 1)
  <1>1. CASE Stores
    <2>1. PICK w \in Worker, bad \in BOOLEAN :
            pc[w] = "transformed" /\ StoreBatch(myRun[w], myRevision[w], local[w], bad)
      BY <1>1 DEF Stores
    <2>2. lastSeen'[b] = myRun[w]
      BY <2>1 DEF StoreBatch, BatchWrites, IInv, TypeOK
    <2>3. QED
      BY <2>1, <2>2, StorerIsNewest
  <1>2. CASE Inserts \/ Closes \/ Cleans \/ Keeps
    BY <1>2 DEF Inserts, Closes, Cleans, Keeps, dataVars
  <1>3. QED
    BY <1>1, <1>2, StorageSteps

(* Records only get newer.                                                 *)
LEMMA RecordsGrow ==
  ASSUME IInv, [Next]_vars, NEW b \in Batch
  PROVE  lastSeen[b] \in Int /\ lastSeen'[b] \in Int /\ lastSeen'[b] >= lastSeen[b]
  <1>1. IInv'
    BY NextIInv
  <1>2. lastSeen[b] \in Int /\ lastSeen'[b] \in Int /\ lastSeen[b] < nextRun /\ nextRun \in Int
    BY <1>1 DEF IInv, TypeOK, RowsInOrder, Run, NoRun
  <1>3. CASE lastSeen'[b] # lastSeen[b]
    BY <1>2, <1>3, DataStep
  <1>4. QED
    BY <1>2, <1>3

(* The records of a newer run are never overwritten by an older one.       *)
THEOREM NewestRecordsWin == Spec => NewestDataWins
  <1>1. IInv /\ [Next]_vars => [\A b \in Batch : lastSeen'[b] >= lastSeen[b]]_vars
    BY RecordsGrow
  <1>2. QED
    BY <1>1, Invariance, PTL DEF Spec, NewestDataWins

(* Every transaction that confirms something confirms it for the newest row, *)
(* running under a valid lease.                                            *)
LEMMA ConfirmingStep ==
  ASSUME IInv, [Next]_vars
  PROVE  ConfirmedByCurrentRun
  <1>1. CASE Stores
    <2>1. PICK w \in Worker, bad \in BOOLEAN :
            pc[w] = "transformed" /\ StoreBatch(myRun[w], myRevision[w], local[w], bad)
      BY <1>1 DEF Stores
    <2>2. MayConfirm(myRun[w]) /\ myRun[w] = nextRun - 1 /\ revision[myRun[w]] = myRevision[w]
      BY <2>1, StorerIsNewest DEF MayConfirm
    <2>3. \A rev \in Revision : checkpoint'[rev] # checkpoint[rev] => rev = myRevision[w]
      BY <2>1 DEF StoreBatch, BatchWrites, IInv, TypeOK
    <2>4. \A b \in Batch : lastSeen'[b] # lastSeen[b] => lastSeen'[b] = myRun[w]
      BY <2>1 DEF StoreBatch, BatchWrites, IInv, TypeOK
    <2>5. \A r \in Run : processed'[r] # processed[r] => r = myRun[w]
      BY <2>1 DEF StoreBatch, BatchWrites, IInv, TypeOK
    <2>6. status' = status
      BY <2>1 DEF StoreBatch, BatchWrites
    <2>7. QED
      BY <2>2, <2>3, <2>4, <2>5, <2>6 DEF ConfirmedByCurrentRun
  <1>2. CASE Closes
    <2>1. PICK r \in Run, outcome \in {"success", "partial", "failed"} :
            CloseRun(r, outcome) /\ UNCHANGED dataVars
      BY <1>2 DEF Closes
    <2>2. MayConfirm(r)
      BY <2>1 DEF CloseRun, MayConfirm, IInv, RowsInOrder
    <2>3. \A q \in Run : status'[q] # status[q] => q = r
      BY <2>1 DEF CloseRun, IInv, TypeOK
    <2>4. QED
      BY <2>1, <2>2, <2>3 DEF ConfirmedByCurrentRun, CloseRun, dataVars
  <1>3. CASE Inserts
    <2>1. \A r \in Run : status'[r] \in Completed => status'[r] = status[r]
      BY <1>3 DEF Inserts, InsertRun, Completed
    <2>2. QED
      BY <1>3, <2>1 DEF ConfirmedByCurrentRun, Inserts, InsertRun, dataVars
  <1>4. CASE Cleans
    BY <1>4 DEF ConfirmedByCurrentRun, Cleans, Completed, dataVars
  <1>5. CASE Keeps
    BY <1>5 DEF ConfirmedByCurrentRun, Keeps, dataVars
  <1>6. QED
    BY <1>1, <1>2, <1>3, <1>4, <1>5, StorageSteps

(* Nothing is confirmed by a run that lost its lease or was replaced.      *)
THEOREM StaleRunsConfirmNothing == Spec => OnlyCurrentRunConfirms
  <1>1. IInv /\ [Next]_vars => [ConfirmedByCurrentRun]_vars
    BY ConfirmingStep
  <1>2. QED
    BY <1>1, Invariance, PTL DEF Spec, OnlyCurrentRunConfirms

-----------------------------------------------------------------------------
(* The second layer: what the data say of the runs.  Every batch up to the *)
(* position c was stored by a run of the revision or by a later run.       *)
Covered(rev, c) ==
    \A b \in Batch : c # NoCheckpoint /\ b <= c =>
        \E r \in Rows : revision[r] = rev /\ r <= lastSeen[b]

(* The worker's count of isolated records and the row's move together.     *)
CountsAgree ==
    /\ \A w \in Worker : pc[w] \in {"idle", "reading", "loaded"} => ~rejected[w]
    /\ \A r \in Run : r >= nextRun => ~isolated[r]
    /\ \A w \in Worker : pc[w] \in {"collecting", "transformed", "finishing"} =>
            (rejected[w] <=> isolated[myRun[w]])

(* A worker only finishes without a signal, and its run is not complete    *)
(* before it does.                                                         *)
FinishesUncancelled ==
    /\ \A w \in Worker : pc[w] = "finishing" => ~aborted[w]
    /\ \A w \in Worker : pc[w] \in Holding => status[myRun[w]] \notin Completed

(* The stored checkpoint and the one a worker carries are both covered, and *)
(* a worker that finishes has seen the end of the source.                  *)
StoredIsCovered == \A rev \in Revision : Covered(rev, checkpoint[rev])

CarriedIsCovered ==
    /\ \A w \in Worker : pc[w] # "idle" => Covered(myRevision[w], local[w])
    /\ \A w \in Worker : pc[w] = "finishing" => Following(local[w]) \notin Batch

JInv == CountsAgree /\ FinishesUncancelled /\ StoredIsCovered /\ CarriedIsCovered /\ CompletedMeansStored

(* Rows are only added, keep their revision, and records only get newer.   *)
LEMMA StorageGrows ==
  ASSUME IInv, [Next]_vars
  PROVE  /\ nextRun \in Nat /\ nextRun' \in Nat /\ nextRun' >= nextRun
         /\ \A r \in Run : r < nextRun => revision'[r] = revision[r]
         /\ \A b \in Batch : lastSeen[b] \in Int /\ lastSeen'[b] \in Int /\ lastSeen'[b] >= lastSeen[b]
  <1>1. IInv'
    BY NextIInv
  <1>2. nextRun' >= nextRun /\ \A r \in Run : r < nextRun => revision'[r] = revision[r]
    <2>1. CASE Inserts
      BY <2>1 DEF Inserts, InsertRun, IInv, TypeOK, Run
    <2>2. CASE Stores
      BY <2>2 DEF Stores, StoreBatch, BatchWrites, IInv, TypeOK
    <2>3. CASE Closes \/ Cleans \/ Keeps
      BY <2>3 DEF Closes, CloseRun, Cleans, Keeps, IInv, TypeOK
    <2>4. QED
      BY <2>1, <2>2, <2>3, StorageSteps
  <1>3. nextRun \in Nat /\ nextRun' \in Nat
    BY <1>1 DEF IInv, TypeOK
  <1>4. QED
    BY <1>2, <1>3, RecordsGrow

(* A row is a run that has been inserted.                                  *)
LEMMA RowsAreRuns ==
  ASSUME TypeOK
  PROVE  \A r : r \in Rows <=> r \in Run /\ r < nextRun
  BY DEF TypeOK, Rows, Run

(* What is covered stays covered.                                          *)
LEMMA CoveredStays ==
  ASSUME IInv, [Next]_vars, NEW rev \in Revision, NEW c \in Checkpoint, Covered(rev, c)
  PROVE  Covered(rev, c)'
  <1> SUFFICES ASSUME NEW b \in Batch, c # NoCheckpoint, b <= c
               PROVE  \E r \in Rows' : revision'[r] = rev /\ r <= lastSeen'[b]
    BY DEF Covered
  <1>1. PICK r \in Rows : revision[r] = rev /\ r <= lastSeen[b]
    BY DEF Covered
  <1>2. r \in Run /\ r < nextRun
    BY <1>1, RowsAreRuns DEF IInv
  <1>3. revision'[r] = rev /\ r \in Rows'
    BY <1>1, <1>2, StorageGrows DEF Rows, Run
  <1>4. r <= lastSeen'[b]
    BY <1>1, <1>2, StorageGrows DEF Run
  <1>5. QED
    BY <1>3, <1>4

(* A stored batch extends what its worker carried by one.                  *)
LEMMA StoreExtends ==
  ASSUME IInv, [Next]_vars, NEW w \in Worker, NEW bad \in BOOLEAN, pc[w] = "transformed",
         NEW rev \in Revision, NEW c \in Checkpoint, rev = myRevision[w], c = local[w],
         StoreBatch(myRun[w], rev, c, bad), Covered(rev, c)
  PROVE  Covered(rev, Following(c))'
  <1>1. Following(c) \in Batch
    BY DEF IInv, Ownership
  <1>2. myRun[w] \in Run /\ myRun[w] = nextRun - 1 /\ revision[myRun[w]] = rev
    BY StorerIsNewest
  <1>3. lastSeen'[Following(c)] = myRun[w]
    BY <1>1 DEF StoreBatch, BatchWrites, IInv, TypeOK
  <1>4. myRun[w] \in Rows' /\ revision'[myRun[w]] = rev
    BY <1>2, StorageGrows DEF Rows, Run
  <1>5. Covered(rev, c)'
    BY CoveredStays
  <1> SUFFICES ASSUME NEW b \in Batch, b <= Following(c)
               PROVE  \E r \in Rows' : revision'[r] = rev /\ r <= lastSeen'[b]
    BY DEF Covered
  <1>6. CASE b = Following(c)
    BY <1>2, <1>3, <1>4, <1>6 DEF Run
  <1>7. CASE b # Following(c)
    <2>1. c # NoCheckpoint /\ b <= c
      BY <1>1, <1>7 DEF Following, Batch, Checkpoint
    <2>2. QED
      BY <1>5, <2>1 DEF Covered
  <1>8. QED
    BY <1>6, <1>7

(* The stored checkpoints stay covered.                                    *)
LEMMA StoredCoveredStep ==
  ASSUME IInv, [Next]_vars, StoredIsCovered, CarriedIsCovered
  PROVE  StoredIsCovered'
  <1> SUFFICES ASSUME NEW rev \in Revision
               PROVE  Covered(rev, checkpoint[rev])'
    BY DEF StoredIsCovered
  <1>1. checkpoint[rev] \in Checkpoint /\ Covered(rev, checkpoint[rev])
    BY DEF IInv, TypeOK, StoredIsCovered
  <1>2. CASE checkpoint'[rev] = checkpoint[rev]
    <2> DEFINE c == checkpoint[rev]
    <2>1. PICK d \in Checkpoint : d = checkpoint[rev]
      BY <1>1
    <2>2. Covered(rev, d)
      BY <1>1, <2>1
    <2>3. Covered(rev, d)'
      BY <2>2, CoveredStays
    <2>4. QED
      BY <1>2, <2>1, <2>3 DEF Covered
  <1>3. CASE checkpoint'[rev] # checkpoint[rev]
    <2>1. PICK w \in Worker, bad \in BOOLEAN :
            pc[w] = "transformed" /\ StoreBatch(myRun[w], myRevision[w], local[w], bad)
      BY <1>3, StorageSteps DEF Inserts, Stores, Closes, Cleans, Keeps, dataVars
    <2>2. PICK c \in Checkpoint : c = local[w]
      BY DEF IInv, TypeOK
    <2>3. rev = myRevision[w] /\ checkpoint'[rev] = Following(c)
      BY <1>3, <2>1, <2>2 DEF StoreBatch, BatchWrites, IInv, TypeOK
    <2>4. Covered(rev, c)
      BY <2>1, <2>2, <2>3 DEF CarriedIsCovered
    <2>5. Covered(rev, Following(c))'
      BY <2>1, <2>2, <2>3, <2>4, StoreExtends
    <2>6. QED
      BY <2>3, <2>5 DEF Covered
  <1>4. QED
    BY <1>2, <1>3

(* What a worker carries: nothing new, the stored checkpoint, nothing at   *)
(* all, or the batch it has just stored.                                   *)
LEMMA CarriedStep ==
  ASSUME IInv, [Next]_vars, NEW w \in Worker, pc'[w] # "idle"
  PROVE  \/ /\ pc[w] # "idle" /\ myRevision'[w] = myRevision[w] /\ local'[w] = local[w]
         \/ /\ pc'[w] \in {"reading", "loaded"}
            /\ myRevision'[w] \in Revision
            /\ local'[w] \in {NoCheckpoint, checkpoint[myRevision'[w]]}
         \/ /\ pc[w] = "transformed" /\ pc'[w] = "collecting"
            /\ myRevision'[w] = myRevision[w] /\ local'[w] = Following(local[w])
            /\ \E bad \in BOOLEAN : StoreBatch(myRun[w], myRevision[w], local[w], bad)
  <1> USE DEF IInv, TypeOK
  <1>1. ASSUME NEW v \in Worker, Leave(v)
        PROVE  pc[w] # "idle" /\ myRevision'[w] = myRevision[w] /\ local'[w] = local[w]
    BY <1>1 DEF Leave
  <1>2. CASE \E v \in Worker : Call(v)
    <2>1. PICK v \in Worker : Call(v)
      BY <1>2
    <2>2. CASE ReadLatestRun(v)
      BY <2>2 DEF ReadLatestRun
    <2>9. CASE ReadCheckpoint(v)
      BY <2>9 DEF ReadCheckpoint, Ownership
    <2>3. CASE StartRun(v)
      BY <2>3 DEF StartRun
    <2>4. CASE StartRunUnanswered(v) \/ StartRunInterrupted(v) \/ RefuseDuplicate(v)
               \/ GiveUpStart(v) \/ FinishRun(v) \/ RecordFailure(v) \/ LeaveUnfinished(v)
      BY <1>1, <2>4 DEF StartRunUnanswered, StartRunInterrupted, RefuseDuplicate,
                        GiveUpStart, FinishRun, RecordFailure, LeaveUnfinished
    <2>5. CASE DeliverBatch(v) \/ FailCollection(v) \/ ExhaustSource(v)
      BY <2>5 DEF DeliverBatch, FailCollection, ExhaustSource
    <2>6. CASE \E bad \in BOOLEAN : CommitBatch(v, bad)
      BY <2>6 DEF CommitBatch
    <2>7. CASE \E bad \in BOOLEAN : CommitBatchUnanswered(v, bad)
      BY <2>7 DEF CommitBatchUnanswered
    <2>8. QED
      BY <2>1, <2>2, <2>3, <2>4, <2>5, <2>6, <2>7, <2>9 DEF Call
  <1>3. CASE \E v \in Worker : Crash(v)
    BY <1>1, <1>3 DEF Crash
  <1>4. CASE \/ \E v \in Worker : SendHeartbeat(v) \/ Abort(v)
             \/ \E r \in Run : RenewRun(r) \/ LoseHeartbeat(r)
             \/ Tick
             \/ UNCHANGED vars
    BY <1>4 DEF SendHeartbeat, Abort, RenewRun, LoseHeartbeat, Tick, workerVars, vars
  <1>5. QED
    BY <1>2, <1>3, <1>4 DEF Next

(* A worker comes to finish only from the end of the source, uncancelled.  *)
LEMMA FinishingStep ==
  ASSUME IInv, [Next]_vars, NEW w \in Worker, pc'[w] = "finishing"
  PROVE  /\ myRun'[w] = myRun[w] /\ local'[w] = local[w]
         /\ rejected'[w] = rejected[w] /\ aborted'[w] = aborted[w]
         /\ \/ pc[w] = "finishing"
            \/ pc[w] = "collecting" /\ ~aborted[w] /\ Following(local[w]) \notin Batch
  <1> USE DEF IInv, TypeOK
  <1>1. ASSUME NEW v \in Worker, Leave(v)
        PROVE  /\ pc[w] = "finishing" /\ myRun'[w] = myRun[w] /\ local'[w] = local[w]
               /\ rejected'[w] = rejected[w] /\ aborted'[w] = aborted[w]
    BY <1>1 DEF Leave
  <1>2. CASE \E v \in Worker : Call(v)
    <2>1. PICK v \in Worker : Call(v)
      BY <1>2
    <2>2. CASE ReadLatestRun(v) \/ ReadCheckpoint(v) \/ StartRun(v)
      BY <2>2 DEF ReadLatestRun, ReadCheckpoint, StartRun
    <2>3. CASE StartRunUnanswered(v) \/ StartRunInterrupted(v) \/ RefuseDuplicate(v)
               \/ GiveUpStart(v) \/ FinishRun(v) \/ RecordFailure(v) \/ LeaveUnfinished(v)
      BY <1>1, <2>3 DEF StartRunUnanswered, StartRunInterrupted, RefuseDuplicate,
                        GiveUpStart, FinishRun, RecordFailure, LeaveUnfinished
    <2>4. CASE DeliverBatch(v) \/ FailCollection(v) \/ ExhaustSource(v)
      BY <2>4 DEF DeliverBatch, FailCollection, ExhaustSource
    <2>5. CASE \E bad \in BOOLEAN : CommitBatch(v, bad) \/ CommitBatchUnanswered(v, bad)
      BY <2>5 DEF CommitBatch, CommitBatchUnanswered
    <2>6. QED
      BY <2>1, <2>2, <2>3, <2>4, <2>5 DEF Call
  <1>3. CASE \E v \in Worker : Crash(v)
    BY <1>1, <1>3 DEF Crash
  <1>4. CASE \E v \in Worker : Abort(v)
    BY <1>4 DEF Abort
  <1>5. CASE \/ \E v \in Worker : SendHeartbeat(v)
             \/ \E r \in Run : RenewRun(r) \/ LoseHeartbeat(r)
             \/ Tick
             \/ UNCHANGED vars
    BY <1>5 DEF SendHeartbeat, RenewRun, LoseHeartbeat, Tick, workerVars, vars
  <1>6. QED
    BY <1>2, <1>3, <1>4, <1>5 DEF Next

(* What a worker carries stays covered.                                    *)
LEMMA CarriedCoveredStep ==
  ASSUME IInv, [Next]_vars, StoredIsCovered, CarriedIsCovered
  PROVE  CarriedIsCovered'
  <1>1. ASSUME NEW w \in Worker, pc'[w] # "idle"
        PROVE  Covered(myRevision[w], local[w])'
    <2>1. CASE pc[w] # "idle" /\ myRevision'[w] = myRevision[w] /\ local'[w] = local[w]
      <3>1. PICK rev \in Revision, c \in Checkpoint : rev = myRevision[w] /\ c = local[w]
        BY <2>1 DEF IInv, TypeOK, Ownership
      <3>2. Covered(rev, c)
        BY <2>1, <3>1 DEF CarriedIsCovered
      <3>3. Covered(rev, c)'
        BY <3>2, CoveredStays
      <3>4. QED
        BY <2>1, <3>1, <3>3 DEF Covered
    <2>2. CASE /\ myRevision'[w] \in Revision
               /\ local'[w] \in {NoCheckpoint, checkpoint[myRevision'[w]]}
      <3>1. PICK rev \in Revision, c \in Checkpoint : rev = myRevision'[w] /\ c = local'[w]
        BY <2>2 DEF IInv, TypeOK, Checkpoint
      <3>2. Covered(rev, c)
        BY <2>2, <3>1 DEF StoredIsCovered, Covered
      <3>3. Covered(rev, c)'
        BY <3>2, CoveredStays
      <3>4. QED
        BY <3>1, <3>3 DEF Covered
    <2>3. CASE /\ pc[w] = "transformed"
               /\ myRevision'[w] = myRevision[w] /\ local'[w] = Following(local[w])
               /\ \E bad \in BOOLEAN : StoreBatch(myRun[w], myRevision[w], local[w], bad)
      <3>1. PICK rev \in Revision, c \in Checkpoint : rev = myRevision[w] /\ c = local[w]
        BY <2>3 DEF IInv, TypeOK, Ownership
      <3>2. Covered(rev, c)
        BY <2>3, <3>1 DEF CarriedIsCovered
      <3>3. Covered(rev, Following(c))'
        BY <2>3, <3>1, <3>2, StoreExtends
      <3>4. QED
        BY <2>3, <3>1, <3>3 DEF Covered
    <2>4. QED
      BY <1>1, <2>1, <2>2, <2>3, CarriedStep
  <1>2. ASSUME NEW w \in Worker, pc'[w] = "finishing"
        PROVE  Following(local'[w]) \notin Batch
    BY <1>2, FinishingStep DEF CarriedIsCovered
  <1>3. QED
    BY <1>1, <1>2 DEF CarriedIsCovered, Following

(* The status of a run becomes complete only by its worker's finishRun.    *)
LEMMA CompletingStep ==
  ASSUME IInv, [Next]_vars, NEW r \in Run, status'[r] \in Completed, status[r] \notin Completed
  PROVE  \E w \in Worker : FinishRun(w) /\ myRun[w] = r
  <1> USE DEF IInv, TypeOK
  <1>1. CASE \E w \in Worker : Call(w)
    <2>1. PICK w \in Worker : Call(w)
      BY <1>1
    <2>2. CASE ReadLatestRun(w) \/ ReadCheckpoint(w) \/ RefuseDuplicate(w) \/ GiveUpStart(w)
               \/ LeaveUnfinished(w) \/ DeliverBatch(w) \/ FailCollection(w) \/ ExhaustSource(w)
      BY <2>2 DEF ReadLatestRun, ReadCheckpoint, RefuseDuplicate, GiveUpStart, LeaveUnfinished,
                  DeliverBatch, FailCollection, ExhaustSource, runVars
    <2>3. CASE StartRun(w) \/ StartRunUnanswered(w) \/ StartRunInterrupted(w)
      BY <2>3 DEF StartRun, StartRunUnanswered, StartRunInterrupted, InsertRun, Completed
    <2>4. CASE \E bad \in BOOLEAN : CommitBatch(w, bad) \/ CommitBatchUnanswered(w, bad)
      BY <2>4 DEF CommitBatch, CommitBatchUnanswered, StoreBatch, BatchWrites
    <2>5. CASE RecordFailure(w)
      BY <2>5 DEF RecordFailure, CloseRun, Completed
    <2>6. CASE FinishRun(w)
      BY <2>6 DEF FinishRun, CloseRun
    <2>7. QED
      BY <2>1, <2>2, <2>3, <2>4, <2>5, <2>6 DEF Call
  <1>2. CASE \E w \in Worker : SendHeartbeat(w) \/ Abort(w) \/ Crash(w)
    BY <1>2 DEF SendHeartbeat, Abort, Crash, runVars
  <1>3. CASE (\E r0 \in Run : RenewRun(r0) \/ LoseHeartbeat(r0)) \/ Tick \/ UNCHANGED vars
    BY <1>3 DEF RenewRun, LoseHeartbeat, Tick, runVars, vars
  <1>4. QED
    BY <1>1, <1>2, <1>3 DEF Next

(* A worker at the end of the source carries the last checkpoint.          *)
LEMMA EndOfSource ==
  ASSUME NEW c \in Checkpoint, Following(c) \notin Batch
  PROVE  c = SourceLength
  BY DEF Checkpoint, Batch, Following

(* A run that completes leaves every batch stored.                         *)
LEMMA CompletedStoredStep ==
  ASSUME IInv, [Next]_vars, CarriedIsCovered, CompletedMeansStored
  PROVE  CompletedMeansStored'
  <1> SUFFICES ASSUME NEW r \in Run, status'[r] \in Completed
               PROVE  \E rev \in Revision : rev = revision'[r] /\ Covered(rev, SourceLength)'
    BY DEF CompletedMeansStored, Covered, Batch
  <1>1. /\ r < nextRun
        /\ \E rev \in Revision : rev = revision[r] /\ Covered(rev, SourceLength)
    <2>1. CASE status[r] \in Completed
      <3>1. r < nextRun /\ revision[r] \in Revision
        BY <2>1 DEF IInv, TypeOK, RowsInOrder, Completed, Run
      <3>2. QED
        BY <2>1, <3>1 DEF CompletedMeansStored, Covered
    <2>2. CASE status[r] \notin Completed
      <3>1. PICK w \in Worker : FinishRun(w) /\ myRun[w] = r
        BY <2>2, CompletingStep
      <3>2. pc[w] = "finishing"
        BY <3>1 DEF FinishRun
      <3>3. r < nextRun /\ revision[r] = myRevision[w] /\ myRevision[w] \in Revision
        BY <3>1, <3>2 DEF IInv, Ownership, Holding
      <3>4. local[w] \in Checkpoint /\ Following(local[w]) \notin Batch
        BY <3>2 DEF IInv, TypeOK, CarriedIsCovered
      <3>5. local[w] = SourceLength
        BY <3>4, EndOfSource
      <3>6. QED
        BY <3>2, <3>3, <3>5 DEF CarriedIsCovered
    <2>3. QED
      BY <2>1, <2>2
  <1>2. PICK rev \in Revision : rev = revision[r] /\ Covered(rev, SourceLength)
    BY <1>1
  <1>3. revision'[r] = rev
    BY <1>1, <1>2, StorageGrows
  <1>4. SourceLength \in Checkpoint
    BY DEF Checkpoint, Batch
  <1>5. Covered(rev, SourceLength)'
    BY <1>2, <1>4, CoveredStays
  <1>6. QED
    BY <1>3, <1>5

(* A worker holds the run it held, or the one it has just started.         *)
LEMMA OwnerStep ==
  ASSUME IInv, [Next]_vars, NEW w \in Worker, pc'[w] \in Holding
  PROVE  StartRun(w) \/ (pc[w] \in Holding /\ myRun'[w] = myRun[w])
  <1> USE DEF IInv, TypeOK, Holding
  <1>1. ASSUME NEW v \in Worker, Leave(v)
        PROVE  pc[w] \in Holding /\ myRun'[w] = myRun[w]
    BY <1>1 DEF Leave
  <1>2. CASE \E v \in Worker : Call(v)
    <2>1. PICK v \in Worker : Call(v)
      BY <1>2
    <2>2. CASE ReadLatestRun(v) \/ ReadCheckpoint(v) \/ StartRun(v)
      BY <2>2 DEF ReadLatestRun, ReadCheckpoint, StartRun
    <2>3. CASE StartRunUnanswered(v) \/ StartRunInterrupted(v) \/ RefuseDuplicate(v)
               \/ GiveUpStart(v) \/ FinishRun(v) \/ RecordFailure(v) \/ LeaveUnfinished(v)
      BY <1>1, <2>3 DEF StartRunUnanswered, StartRunInterrupted, RefuseDuplicate,
                        GiveUpStart, FinishRun, RecordFailure, LeaveUnfinished
    <2>4. CASE DeliverBatch(v) \/ FailCollection(v) \/ ExhaustSource(v)
      BY <2>4 DEF DeliverBatch, FailCollection, ExhaustSource
    <2>5. CASE \E bad \in BOOLEAN : CommitBatch(v, bad) \/ CommitBatchUnanswered(v, bad)
      BY <2>5 DEF CommitBatch, CommitBatchUnanswered
    <2>6. QED
      BY <2>1, <2>2, <2>3, <2>4, <2>5 DEF Call
  <1>3. CASE \E v \in Worker : Crash(v)
    BY <1>1, <1>3 DEF Crash
  <1>4. CASE \/ \E v \in Worker : SendHeartbeat(v) \/ Abort(v)
             \/ \E r \in Run : RenewRun(r) \/ LoseHeartbeat(r)
             \/ Tick
             \/ UNCHANGED vars
    BY <1>4 DEF SendHeartbeat, Abort, RenewRun, LoseHeartbeat, Tick, workerVars, vars
  <1>5. QED
    BY <1>2, <1>3, <1>4 DEF Next

(* Cancellation comes before the end of the source or not at all.          *)
LEMMA UncancelledStep ==
  ASSUME IInv, [Next]_vars, FinishesUncancelled
  PROVE  FinishesUncancelled'
  <1>1. ASSUME NEW w \in Worker, pc'[w] = "finishing"
        PROVE  ~aborted'[w]
    BY <1>1, FinishingStep DEF FinishesUncancelled
  <1>2. ASSUME NEW w \in Worker, pc'[w] \in Holding
        PROVE  status'[myRun'[w]] \notin Completed
    <2>1. myRun'[w] \in Run
      BY <1>2, NextIInv DEF IInv, Ownership
    <2>2. CASE pc[w] \in Holding /\ myRun'[w] = myRun[w]
      <3>1. SUFFICES ASSUME status'[myRun[w]] \in Completed
                     PROVE  FALSE
        BY <2>2
      <3>2. PICK v \in Worker : FinishRun(v) /\ myRun[v] = myRun[w]
        BY <2>1, <2>2, <3>1, CompletingStep DEF FinishesUncancelled
      <3>3. v = w
        BY <2>2, <3>2 DEF FinishRun, IInv, Ownership, Holding
      <3>4. QED
        BY <1>2, <3>2, <3>3 DEF FinishRun, Leave, IInv, TypeOK, Holding
    <2>3. CASE StartRun(w)
      BY <2>3 DEF StartRun, InsertRun, Completed, IInv, TypeOK
    <2>4. QED
      BY <1>2, <2>2, <2>3, OwnerStep
  <1>3. QED
    BY <1>1, <1>2 DEF FinishesUncancelled

(* The issues of a run are counted by its worker's transactions only.      *)
LEMMA IsolatedStep ==
  ASSUME IInv, [Next]_vars, NEW r \in Run, isolated'[r] # isolated[r]
  PROVE  \E w \in Worker : pc[w] = "transformed" /\ pc'[w] # pc[w] /\ myRun[w] = r
  <1> USE DEF IInv, TypeOK
  <1>1. CASE \E w \in Worker : Call(w)
    <2>1. PICK w \in Worker : Call(w)
      BY <1>1
    <2>2. CASE ReadLatestRun(w) \/ ReadCheckpoint(w) \/ RefuseDuplicate(w) \/ GiveUpStart(w)
               \/ LeaveUnfinished(w) \/ DeliverBatch(w) \/ FailCollection(w) \/ ExhaustSource(w)
      BY <2>2 DEF ReadLatestRun, ReadCheckpoint, RefuseDuplicate, GiveUpStart, LeaveUnfinished,
                  DeliverBatch, FailCollection, ExhaustSource, runVars
    <2>3. CASE StartRun(w) \/ StartRunUnanswered(w) \/ StartRunInterrupted(w)
      BY <2>3 DEF StartRun, StartRunUnanswered, StartRunInterrupted, InsertRun
    <2>4. CASE \E bad \in BOOLEAN : CommitBatch(w, bad) \/ CommitBatchUnanswered(w, bad)
      BY <2>4 DEF CommitBatch, CommitBatchUnanswered, StoreBatch, BatchWrites
    <2>5. CASE RecordFailure(w) \/ FinishRun(w)
      BY <2>5 DEF RecordFailure, FinishRun, CloseRun
    <2>6. QED
      BY <2>1, <2>2, <2>3, <2>4, <2>5 DEF Call
  <1>2. CASE \E w \in Worker : SendHeartbeat(w) \/ Abort(w) \/ Crash(w)
    BY <1>2 DEF SendHeartbeat, Abort, Crash, runVars
  <1>3. CASE (\E r0 \in Run : RenewRun(r0) \/ LoseHeartbeat(r0)) \/ Tick \/ UNCHANGED vars
    BY <1>3 DEF RenewRun, LoseHeartbeat, Tick, runVars, vars
  <1>4. QED
    BY <1>1, <1>2, <1>3 DEF Next

Counting == {"collecting", "transformed", "finishing"}

(* A worker that goes on counting has counted nothing, has just started, or *)
(* has counted a batch as its transaction did.                             *)
LEMMA RejectedStep ==
  ASSUME IInv, [Next]_vars, NEW w \in Worker, pc'[w] \in Counting
  PROVE  \/ /\ pc[w] \in Counting /\ myRun'[w] = myRun[w] /\ rejected'[w] = rejected[w]
            /\ pc[w] = "transformed" => pc'[w] = "transformed"
         \/ StartRun(w)
         \/ \E bad \in BOOLEAN : CommitBatch(w, bad)
  <1> USE DEF IInv, TypeOK, Counting
  <1>1. ASSUME NEW v \in Worker, Leave(v)
        PROVE  /\ pc[w] \in Counting /\ pc'[w] = pc[w] /\ myRun'[w] = myRun[w]
               /\ rejected'[w] = rejected[w]
    BY <1>1 DEF Leave
  <1>2. CASE \E v \in Worker : Call(v)
    <2>1. PICK v \in Worker : Call(v)
      BY <1>2
    <2>2. CASE ReadLatestRun(v) \/ ReadCheckpoint(v) \/ StartRun(v)
      BY <2>2 DEF ReadLatestRun, ReadCheckpoint, StartRun
    <2>3. CASE StartRunUnanswered(v) \/ StartRunInterrupted(v) \/ RefuseDuplicate(v)
               \/ GiveUpStart(v) \/ FinishRun(v) \/ RecordFailure(v) \/ LeaveUnfinished(v)
      BY <1>1, <2>3 DEF StartRunUnanswered, StartRunInterrupted, RefuseDuplicate,
                        GiveUpStart, FinishRun, RecordFailure, LeaveUnfinished
    <2>4. CASE DeliverBatch(v) \/ FailCollection(v) \/ ExhaustSource(v)
      BY <2>4 DEF DeliverBatch, FailCollection, ExhaustSource
    <2>5. CASE \E bad \in BOOLEAN : CommitBatch(v, bad) \/ CommitBatchUnanswered(v, bad)
      BY <2>5 DEF CommitBatch, CommitBatchUnanswered
    <2>6. QED
      BY <2>1, <2>2, <2>3, <2>4, <2>5 DEF Call
  <1>3. CASE \E v \in Worker : Crash(v)
    BY <1>1, <1>3 DEF Crash
  <1>4. CASE \/ \E v \in Worker : SendHeartbeat(v) \/ Abort(v)
             \/ \E r \in Run : RenewRun(r) \/ LoseHeartbeat(r)
             \/ Tick
             \/ UNCHANGED vars
    BY <1>4 DEF SendHeartbeat, Abort, RenewRun, LoseHeartbeat, Tick, workerVars, vars
  <1>5. QED
    BY <1>2, <1>3, <1>4 DEF Next

(* Before its run starts a worker has rejected nothing.                    *)
LEMMA NothingRejectedStep ==
  ASSUME IInv, [Next]_vars, CountsAgree, NEW w \in Worker, pc'[w] \in {"idle", "reading", "loaded"}
  PROVE  ~rejected'[w]
  <1> USE DEF IInv, TypeOK, CountsAgree
  <1>1. ASSUME NEW v \in Worker, Leave(v)
        PROVE  ~rejected'[w]
    BY <1>1 DEF Leave
  <1>2. CASE \E v \in Worker : Call(v)
    <2>1. PICK v \in Worker : Call(v)
      BY <1>2
    <2>2. CASE ReadLatestRun(v) \/ ReadCheckpoint(v) \/ StartRun(v)
      BY <2>2 DEF ReadLatestRun, ReadCheckpoint, StartRun
    <2>3. CASE StartRunUnanswered(v) \/ StartRunInterrupted(v) \/ RefuseDuplicate(v)
               \/ GiveUpStart(v) \/ FinishRun(v) \/ RecordFailure(v) \/ LeaveUnfinished(v)
      BY <1>1, <2>3 DEF StartRunUnanswered, StartRunInterrupted, RefuseDuplicate,
                        GiveUpStart, FinishRun, RecordFailure, LeaveUnfinished
    <2>4. CASE DeliverBatch(v) \/ FailCollection(v) \/ ExhaustSource(v)
      BY <2>4 DEF DeliverBatch, FailCollection, ExhaustSource
    <2>5. CASE \E bad \in BOOLEAN : CommitBatch(v, bad) \/ CommitBatchUnanswered(v, bad)
      BY <2>5 DEF CommitBatch, CommitBatchUnanswered
    <2>6. QED
      BY <2>1, <2>2, <2>3, <2>4, <2>5 DEF Call
  <1>3. CASE \E v \in Worker : Crash(v)
    BY <1>1, <1>3 DEF Crash
  <1>4. CASE \/ \E v \in Worker : SendHeartbeat(v) \/ Abort(v)
             \/ \E r \in Run : RenewRun(r) \/ LoseHeartbeat(r)
             \/ Tick
             \/ UNCHANGED vars
    BY <1>4 DEF SendHeartbeat, Abort, RenewRun, LoseHeartbeat, Tick, workerVars, vars
  <1>5. QED
    BY <1>2, <1>3, <1>4 DEF Next

(* The two counts of isolated records stay together.                       *)
LEMMA CountsStep ==
  ASSUME IInv, [Next]_vars, CountsAgree
  PROVE  CountsAgree'
  <1>1. ASSUME NEW r \in Run, r >= nextRun'
        PROVE  ~isolated'[r]
    <2>1. r >= nextRun /\ ~isolated[r]
      BY <1>1, StorageGrows DEF CountsAgree, Run
    <2>2. CASE isolated'[r] # isolated[r]
      <3>1. PICK w \in Worker : pc[w] = "transformed" /\ myRun[w] = r
        BY <2>2, IsolatedStep
      <3>2. r < nextRun
        BY <3>1 DEF IInv, Ownership, Holding
      <3>3. QED
        BY <2>1, <3>2 DEF IInv, TypeOK, Run
    <2>3. QED
      BY <2>1, <2>2
  <1>2. ASSUME NEW w \in Worker, pc'[w] \in Counting
        PROVE  rejected'[w] <=> isolated'[myRun'[w]]
    <2>1. CASE /\ pc[w] \in Counting /\ myRun'[w] = myRun[w] /\ rejected'[w] = rejected[w]
               /\ pc[w] = "transformed" => pc'[w] = "transformed"
      <3>1. myRun[w] \in Run /\ (rejected[w] <=> isolated[myRun[w]])
        BY <2>1 DEF CountsAgree, IInv, Ownership, Holding, Counting
      <3>2. CASE isolated'[myRun[w]] # isolated[myRun[w]]
        <4>1. PICK v \in Worker : pc[v] = "transformed" /\ pc'[v] # pc[v] /\ myRun[v] = myRun[w]
          BY <3>1, <3>2, IsolatedStep
        <4>2. v = w
          BY <2>1, <4>1 DEF IInv, Ownership, Holding, Counting
        <4>3. QED
          BY <2>1, <4>1, <4>2
      <3>3. QED
        BY <2>1, <3>1, <3>2
    <2>2. CASE StartRun(w)
      <3>1. nextRun \in Run /\ ~isolated[nextRun] /\ ~rejected[w]
        BY <2>2 DEF StartRun, InsertRun, CountsAgree, Run
      <3>2. QED
        BY <2>2, <3>1 DEF StartRun, InsertRun, IInv, TypeOK
    <2>3. CASE \E bad \in BOOLEAN : CommitBatch(w, bad)
      <3>1. PICK bad \in BOOLEAN : CommitBatch(w, bad)
        BY <2>3
      <3>2. myRun[w] \in Run /\ (rejected[w] <=> isolated[myRun[w]])
        BY <3>1 DEF CommitBatch, CountsAgree, IInv, Ownership, Holding
      <3>3. /\ myRun' = myRun /\ rejected'[w] = (rejected[w] \/ bad)
            /\ isolated'[myRun[w]] = (isolated[myRun[w]] \/ bad)
        BY <3>1, <3>2 DEF CommitBatch, StoreBatch, BatchWrites, IInv, TypeOK
      <3>4. QED
        BY <3>2, <3>3
    <2>4. QED
      BY <1>2, <2>1, <2>2, <2>3, RejectedStep
  <1>3. QED
    BY <1>1, <1>2, NothingRejectedStep DEF CountsAgree, Counting

(* The second layer holds initially and is preserved.                      *)
LEMMA InitJInv == Init => JInv
  BY DEF Init, JInv, CountsAgree, FinishesUncancelled, StoredIsCovered, CarriedIsCovered,
         CompletedMeansStored, Covered, Holding, Completed

LEMMA NextJInv ==
  ASSUME IInv, JInv, [Next]_vars
  PROVE  JInv'
  BY CountsStep, UncancelledStep, StoredCoveredStep, CarriedCoveredStep, CompletedStoredStep
  DEF JInv

(* What the runs count, confirm and complete agrees with the data in every *)
(* reachable state.                                                        *)
THEOREM DataInvariance == Spec => []JInv
  <1>1. Init => JInv
    BY InitJInv
  <1>2. IInv /\ JInv /\ [Next]_vars => JInv'
    BY NextJInv
  <1>3. QED
    BY <1>1, <1>2, Invariance, PTL DEF Spec

(* finishRun never refuses the outcome the worker computed.                *)
THEOREM OutcomesAgree == Spec => []OutcomeAgrees
  <1>1. JInv => OutcomeAgrees
    BY DEF JInv, CountsAgree, OutcomeAgrees
  <1>2. QED
    BY <1>1, DataInvariance, PTL

(* No position before a stored checkpoint was skipped.                     *)
THEOREM NoGap == Spec => []NoGapBeforeCheckpoint
  <1>1. JInv => NoGapBeforeCheckpoint
    BY DEF JInv, StoredIsCovered, Covered, NoGapBeforeCheckpoint
  <1>2. QED
    BY <1>1, DataInvariance, PTL

(* A completed run leaves every batch of the source stored.                *)
THEOREM CompletedRunsAreStored == Spec => []CompletedMeansStored
  <1>1. JInv => CompletedMeansStored
    BY DEF JInv
  <1>2. QED
    BY <1>1, DataInvariance, PTL

(* A run whose worker has been cancelled does not complete.                *)
THEOREM CancelledRunsDoNotComplete == Spec => CancelledNeverCompletes
  <1>1. ASSUME IInv, JInv, [Next]_vars, NEW w \in Worker, aborted[w], myRun[w] # NoRun
        PROVE  status'[myRun[w]] \notin Completed
    <2>1. pc[w] \in Holding /\ myRun[w] \in Run /\ status[myRun[w]] \notin Completed
      BY <1>1 DEF IInv, TypeOK, Ownership, Control, Holding, JInv, FinishesUncancelled
    <2>2. SUFFICES ASSUME status'[myRun[w]] \in Completed
                   PROVE  FALSE
      OBVIOUS
    <2>3. PICK v \in Worker : FinishRun(v) /\ myRun[v] = myRun[w]
      BY <1>1, <2>1, <2>2, CompletingStep
    <2>4. v = w
      BY <1>1, <2>1, <2>3 DEF FinishRun, IInv, Ownership, Holding
    <2>5. QED
      BY <1>1, <2>3, <2>4 DEF FinishRun, JInv, FinishesUncancelled
  <1>2. IInv /\ JInv /\ [Next]_vars =>
          [\A w \in Worker : aborted[w] /\ myRun[w] # NoRun =>
              status'[myRun[w]] \notin Completed]_vars
    BY <1>1
  <1>3. QED
    BY <1>2, Invariance, DataInvariance, PTL DEF Spec, CancelledNeverCompletes

-----------------------------------------------------------------------------
(* The holder of the abstract lease is the running run.                    *)
LEMMA HolderIsRunning ==
  ASSUME RowsInOrder
  PROVE  /\ \A r \in Run : Running(r) => Holder = r
         /\ (\A r \in Run : ~Running(r)) => Holder = NoRun
  <1>1. ASSUME NEW r \in Run, Running(r)
        PROVE  Holder = r
    <2>1. \A q \in Run : Running(q) => q = r
      BY <1>1 DEF RowsInOrder
    <2>2. QED
      BY <1>1, <2>1 DEF Holder
  <1>2. ASSUME \A r \in Run : ~Running(r)
        PROVE  Holder = NoRun
    BY <1>2 DEF Holder
  <1>3. QED
    BY <1>1, <1>2

(* The same after a step.                                                  *)
LEMMA HolderIsRunningNext ==
  ASSUME RowsInOrder'
  PROVE  /\ \A r \in Run : Running(r)' => Holder' = r
         /\ (\A r \in Run : ~Running(r)') => Holder' = NoRun
  <1>1. ASSUME NEW r \in Run, Running(r)'
        PROVE  Holder' = r
    <2>1. \A q \in Run : Running(q)' => q = r
      BY <1>1 DEF RowsInOrder
    <2>2. QED
      BY <1>1, <2>1 DEF Holder
  <1>2. ASSUME \A r \in Run : ~Running(r)'
        PROVE  Holder' = NoRun
    BY <1>2 DEF Holder
  <1>3. QED
    BY <1>1, <1>2

(* A running run is the holder.                                            *)
LEMMA HolderRuns ==
  ASSUME RowsInOrder
  PROVE  {Holder} \ {NoRun} = {r \in Run : Running(r)}
  <1>1. CASE \E r \in Run : Running(r)
    <2>1. PICK r \in Run : Running(r)
      BY <1>1
    <2>2. Holder = r /\ r # NoRun
      BY <2>1, HolderIsRunning DEF Run, NoRun
    <2>3. \A q \in Run : Running(q) => q = r
      BY <2>1 DEF RowsInOrder
    <2>4. QED
      BY <2>1, <2>2, <2>3
  <1>2. CASE \A r \in Run : ~Running(r)
    BY <1>2, HolderIsRunning
  <1>3. QED
    BY <1>1, <1>2

Retired == {r \in Run : status[r] \notin {"none", "running"}}
CompletedRevisions == {revision[r] : r \in {q \in Run : status[q] \in Completed}}

(* A granted startRun grants the lease to the new row.                     *)
LEMMA InsertIsGrant ==
  ASSUME IInv, IInv', NEW rev \in Revision, InsertRun(rev), UNCHANGED dataVars
  PROVE  Lease!Grant(nextRun, rev) /\ nextRun \in Run
  <1>1. nextRun \in Run /\ status[nextRun] = "none" /\ status'[nextRun] = "running"
    BY DEF InsertRun, IInv, TypeOK, RowsInOrder, Run, Running
  <1>2. Holder' = nextRun
    BY <1>1, HolderIsRunningNext DEF IInv, Running
  <1>3. nextRun \notin Retired \union {Holder}
    <2>1. Holder # nextRun
      BY <1>1, HolderIsRunning DEF IInv, Running, NoRun, Run
    <2>2. QED
      BY <1>1, <2>1 DEF Retired
  <1>4. Retired' = Retired \union ({Holder} \ {NoRun})
    <2>1. \A r \in Run : r \in Retired' <=> r \in Retired \/ Running(r)
      BY <1>1 DEF InsertRun, Retired, Running
    <2>2. {Holder} \ {NoRun} = {r \in Run : Running(r)}
      BY HolderRuns DEF IInv
    <2>3. QED
      BY <2>1, <2>2 DEF Retired
  <1>5. CompletedRevisions' = CompletedRevisions
    <2>1. \A r \in Run : status'[r] \in Completed <=> status[r] \in Completed
      BY <1>1 DEF InsertRun, Completed, Running
    <2>2. \A r \in Run : status[r] \in Completed => revision'[r] = revision[r]
      BY <1>1 DEF InsertRun, IInv, TypeOK, Completed
    <2>3. QED
      BY <2>1, <2>2 DEF CompletedRevisions
  <1>6. QED
    BY <1>1, <1>2, <1>3, <1>4, <1>5 DEF Lease!Grant, Retired, CompletedRevisions, InsertRun, dataVars

(* A stored batch advances the progress of the holder's revision.          *)
LEMMA StoreIsAdvance ==
  ASSUME IInv, IInv', NEW w \in Worker, NEW bad \in BOOLEAN, pc[w] = "transformed",
         StoreBatch(myRun[w], myRevision[w], local[w], bad)
  PROVE  Lease!Advance
  <1> DEFINE r == myRun[w]
             rev == myRevision[w]
  <1>1. /\ r \in Run /\ Running(r) /\ revision[r] = rev /\ rev \in Revision
        /\ Following(local[w]) \in Batch
    BY StorerIsNewest DEF IInv, Ownership, Holding
  <1>2. Holder = r /\ Holder # NoRun
    BY <1>1, HolderIsRunning DEF IInv, Run, NoRun
  <1>3. status' = status /\ revision' = revision
    BY DEF StoreBatch, BatchWrites
  <1>4. Holder' = Holder
    BY <1>1, <1>2, <1>3, HolderIsRunningNext DEF IInv, Running
  <1>5. checkpoint' = [checkpoint EXCEPT ![rev] = Following(local[w])]
    BY DEF StoreBatch, BatchWrites
  <1>6. CASE local[w] = NoCheckpoint
    <2>1. Following(local[w]) = 1
      BY <1>6 DEF Following
    <2>2. checkpoint[rev] = NoCheckpoint \/ rev \in CompletedRevisions
      BY <1>6 DEF StoreBatch, BatchWrites, CheckpointAccepted, LatestCompleted, CompletedRevisions,
                  Rows, IInv, TypeOK, Run
    <2>3. QED
      BY <1>1, <1>2, <1>3, <1>4, <1>5, <2>1, <2>2 DEF Lease!Advance, CompletedRevisions
  <1>7. CASE local[w] # NoCheckpoint
    <2>1. checkpoint[rev] = local[w] /\ Following(local[w]) = checkpoint[rev] + 1
      BY <1>7 DEF StoreBatch, BatchWrites, CheckpointAccepted, Following
    <2>2. QED
      BY <1>1, <1>2, <1>3, <1>4, <1>5, <1>7, <2>1 DEF Lease!Advance
  <1>8. QED
    BY <1>6, <1>7

(* A closed run releases the lease.                                        *)
LEMMA CloseIsRelease ==
  ASSUME IInv, IInv', NEW r \in Run, NEW outcome \in {"success", "partial", "failed"},
         CloseRun(r, outcome), UNCHANGED dataVars
  PROVE  Lease!Release
  <1>1. Running(r) /\ Holder = r /\ Holder # NoRun
    BY HolderIsRunning DEF IInv, CloseRun, Run, NoRun
  <1>2. \A q \in Run : status'[q] = IF q = r THEN outcome ELSE status[q]
    BY DEF IInv, TypeOK, CloseRun
  <1>3. \A q \in Run : ~Running(q)'
    <2>1. \A q \in Run : Running(q) => q = r
      BY <1>1 DEF IInv, RowsInOrder
    <2>2. QED
      BY <1>2, <2>1 DEF Running
  <1>4. Holder' = NoRun
    BY <1>3, HolderIsRunningNext DEF IInv
  <1>5. Retired' = Retired \union {Holder}
    BY <1>1, <1>2 DEF Retired, Running
  <1>6. revision' = revision /\ checkpoint' = checkpoint
    BY DEF CloseRun, dataVars
  <1>7. CompletedRevisions' \in {CompletedRevisions, CompletedRevisions \union {revision[Holder]}}
    <2>1. CASE outcome = "failed"
      BY <1>1, <1>2, <1>6, <2>1 DEF CompletedRevisions, Completed, Running
    <2>2. CASE outcome # "failed"
      BY <1>1, <1>2, <1>6, <2>2 DEF CompletedRevisions, Completed, Running
    <2>3. QED
      BY <2>1, <2>2
  <1>8. QED
    BY <1>1, <1>4, <1>5, <1>6, <1>7 DEF Lease!Release, Retired, CompletedRevisions

(* A cleanup without a successor releases the lease, if it is held.        *)
LEMMA CleanIsRelease ==
  ASSUME IInv, IInv', Cleans
  PROVE  Lease!Release \/ UNCHANGED Lease!vars
  <1>1. \A q \in Run : status'[q] = IF Running(q) THEN "failed" ELSE status[q]
    BY DEF Cleans
  <1>2. \A q \in Run : ~Running(q)'
    BY <1>1 DEF Running
  <1>3. Holder' = NoRun
    BY <1>2, HolderIsRunningNext DEF IInv
  <1>4. revision' = revision /\ checkpoint' = checkpoint
    BY DEF Cleans, dataVars
  <1>5. CompletedRevisions' = CompletedRevisions
    BY <1>1, <1>4 DEF CompletedRevisions, Completed, Running
  <1>6. Retired' = Retired \union ({Holder} \ {NoRun})
    <2>1. Retired' = Retired \union {r \in Run : Running(r)}
      BY <1>1 DEF Retired, Running
    <2>2. QED
      BY <2>1, HolderRuns DEF IInv
  <1>7. CASE Holder = NoRun
    BY <1>3, <1>4, <1>5, <1>6, <1>7 DEF Lease!vars, Retired, CompletedRevisions
  <1>8. CASE Holder # NoRun
    BY <1>3, <1>4, <1>5, <1>6, <1>8 DEF Lease!Release, Retired, CompletedRevisions
  <1>9. QED
    BY <1>7, <1>8

(* The runners and the storage implement the abstract lease.               *)
THEOREM Refinement == Spec => ImplementsRunLease
  <1>1. Init => Lease!Init
    <2> SUFFICES ASSUME Init PROVE Lease!Init
      OBVIOUS
    <2>1. \A r \in Run : status[r] = "none"
      BY DEF Init
    <2>2. Holder = NoRun
      BY <2>1 DEF Holder, Running
    <2>3. QED
      BY <2>1, <2>2 DEF Init, Lease!Init, Completed
  <1>2. ASSUME IInv, IInv', [Next]_vars
        PROVE  [Lease!Next]_Lease!vars
    <2>1. CASE Inserts
      BY <1>2, <2>1, InsertIsGrant DEF Inserts, Lease!Next
    <2>2. CASE Stores
      BY <1>2, <2>2, StoreIsAdvance DEF Stores, Lease!Next
    <2>3. CASE Closes
      BY <1>2, <2>3, CloseIsRelease DEF Closes, Lease!Next
    <2>4. CASE Keeps
      <3>1. status' = status /\ revision' = revision /\ checkpoint' = checkpoint
        BY <2>4 DEF Keeps, dataVars
      <3>2. Holder' = Holder
        BY <3>1 DEF Holder, Running
      <3>3. QED
        BY <3>1, <3>2 DEF Lease!vars
    <2>5. CASE Cleans
      BY <1>2, <2>5, CleanIsRelease DEF Lease!Next
    <2>6. QED
      BY <1>2, <2>1, <2>2, <2>3, <2>4, <2>5, StorageSteps
  <1>3. QED
    BY <1>1, <1>2, Invariance, PTL DEF Spec, ImplementsRunLease, Lease!Spec

=============================================================================
