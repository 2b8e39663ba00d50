------------------------ MODULE SourceCollectionProofs ------------------------
(***************************************************************************)
(* Proofs about SourceCollection, for every content, batch size and number   *)
(* of runs and changes: the rows committed are those of the source, in order *)
(* and each once; a CSV completes on one content; batches chain.            *)
(*                                                                         *)
(* The argument is about places.  What a run holds is a slice of what it has *)
(* open, at the place where the checkpoint ends, and as long as the source   *)
(* is as it was when the traversal began, what is open is the source.       *)
(***************************************************************************)
EXTENDS SourceCollection, TLAPS

(* s is what t has after its first n elements, or begins with it.           *)
Slice(s, n, t) == \A i \in 1..Len(s) : n + i \in 1..Len(t) /\ s[i] = t[n + i]

Holding == {"delivering", "transforming", "committing", "delivered"}
Handling == {"transforming", "committing"}
Open == {"reading", "sealing", "finishing"} \union Holding
Active(q) == q.pc \notin {"idle", "failing"}

Checkpoint == Nat \union {NoCheckpoint, Finished}

Shape(q) ==
    /\ DOMAIN q = DOMAIN NoRun
    /\ q.pc \in Control
    /\ q.local \in Checkpoint /\ q.expected \in Checkpoint
    /\ q.consumed \in Nat /\ q.place \in Nat /\ q.position \in Nat /\ q.opened \in Nat
    /\ q.total \in Nat \union {NoTotal}
    /\ q.body \in Seq(Row) /\ q.group \in Seq(Row) /\ q.batch.rows \in Seq(Row)
    /\ q.raised # "collection"

World ==
    /\ kind \in {"offset", "single", "httpCsv", "localCsv"}
    /\ source \in Seq(Row) /\ changes \in Nat
    /\ ledger \in Seq(Row) /\ begun \in Nat /\ begun <= changes
    /\ checkpoint \in IF kind = "single" THEN {NoCheckpoint, Finished}
                      ELSE Nat \union {NoCheckpoint}

(* The ledger and its checkpoint.                                          *)
Kept ==
    /\ begun = changes => Slice(ledger, 0, source)
    /\ kind # "single" => Len(ledger) = Numeric(checkpoint)
    /\ kind = "single" /\ begun = changes /\ checkpoint = Finished => Len(ledger) = Len(source)

(* Nothing is left to be stored of an unchanged source.                     *)
Whole == begun = changes => Len(ledger) = Len(source)

Ended ==
    /\ status \in Completed /\ run.pc = "idle" => Whole
    /\ run.pc = "finishing" => Whole

(* Every run: it goes on from the stored checkpoint, or starts anew.        *)
Going(q) ==
    /\ q.expected = q.local
    /\ q.local \in {checkpoint, NoCheckpoint}
    /\ q.opened <= changes
    /\ q.pc \in {"reading", "sealing"} => kind \in Csv

OffsetRun(q) ==
    /\ q.pc = "delivered" => q.local = checkpoint
    /\ Numeric(q.local) = q.position + IF q.pc = "delivered" THEN Len(q.group) ELSE 0
    /\ q.total # NoTotal => /\ begun <= q.opened
                            /\ q.opened = changes => q.total = Len(source)
    /\ q.pc \in Holding => /\ q.total # NoTotal
                           /\ q.opened = changes => Slice(q.group, q.position, source)
    /\ q.pc \in Handling =>
        q.batch = [rows |-> q.group, start |-> q.local, next |-> q.position + Len(q.group)]

SingleRun(q) ==
    /\ q.pc \notin {"delivered", "finishing"} => q.local = NoCheckpoint
    /\ q.pc = "delivered" => checkpoint = Finished
    /\ q.pc \in Holding => begun <= q.opened /\ (q.opened = changes => q.group = source)
    /\ q.pc \in Handling =>
        q.batch = [rows |-> q.group, start |-> NoCheckpoint, next |-> Finished]

(* What is open is still one content: a download always is, a file while it  *)
(* did not change, or once it was verified.                                *)
Sound(q) == kind = "httpCsv" \/ q.opened = changes \/ q.complete

CsvOpen(q) ==
    /\ begun <= q.opened
    /\ q.opened = changes => /\ Slice(q.body, 0, source)
                             /\ q.verdict = "ok" => Len(q.body) = Len(source)
    /\ Sound(q) /\ q.verdict = "ok" /\ begun = q.opened => Slice(ledger, 0, q.body)
    /\ Sound(q) /\ q.pc # "delivered" => Slice(q.group, q.place, q.body)
    /\ Sound(q) /\ q.pc = "sealing" => q.position >= Len(q.body)
    /\ q.complete => q.verdict = "ok" /\ q.position >= Len(q.body)

CsvBatch(q) ==
    /\ q.batch.start = q.local
    /\ q.batch.next = q.consumed + Len(q.batch.rows) /\ q.batch.next = q.position
    /\ Sound(q) => Slice(q.batch.rows, q.consumed, q.body)

CsvRun(q) ==
    /\ q.consumed = Numeric(q.local) /\ q.place <= q.consumed
    /\ q.position = q.place + IF q.pc = "delivered" THEN 0 ELSE Len(q.group)
    /\ kind = "localCsv" => q.verdict = "ok"
    /\ q.pc \in Open => CsvOpen(q)
    /\ q.pc \notin Open => q.place = 0 /\ q.group = <<>> /\ ~q.complete
    /\ q.pc = "finishing" => q.complete /\ q.group = <<>>
    /\ q.pc \in Handling => CsvBatch(q)

Running(q) ==
    /\ Going(q)
    /\ kind = "offset" => OffsetRun(q)
    /\ kind = "single" => SingleRun(q)
    /\ kind \in Csv => CsvRun(q)

IInv == World /\ Shape(run) /\ Kept /\ Ended /\ (Active(run) => Running(run))

------------------------------------------------------------------------------
(* Slices.                                                                 *)

LEMMA SliceAppend ==
    ASSUME NEW T, NEW s \in Seq(T), NEW t \in Seq(T), NEW n \in Nat,
           Slice(s, n, t), n + Len(s) < Len(t)
    PROVE  Slice(Append(s, t[n + Len(s) + 1]), n, t)
  BY DEF Slice

LEMMA SliceRest ==
    ASSUME NEW T, NEW s \in Seq(T), NEW t, NEW n \in Nat, NEW k \in 0..Len(s)
    PROVE  LET r == SubSeq(s, k + 1, Len(s))
           IN  r \in Seq(T) /\ Len(r) = Len(s) - k /\ (Slice(s, n, t) => Slice(r, n + k, t))
  BY DEF Slice

LEMMA SliceConcat ==
    ASSUME NEW T, NEW s \in Seq(T), NEW r \in Seq(T), NEW t \in Seq(T),
           Slice(s, 0, t), Slice(r, Len(s), t)
    PROVE  Slice(s \o r, 0, t)
  BY DEF Slice

LEMMA SliceOfSource ==
    ASSUME NEW T, NEW t \in Seq(T), NEW n \in Nat, NEW m \in Nat, m <= Len(t)
    PROVE  SubSeq(t, n + 1, m) \in Seq(T) /\ Slice(SubSeq(t, n + 1, m), n, t)
  BY DEF Slice

LEMMA SliceOfSlice ==
    ASSUME NEW T, NEW s \in Seq(T), NEW t \in Seq(T), NEW u \in Seq(T), NEW n \in Nat,
           Slice(s, n, t), Slice(t, 0, u)
    PROVE  Slice(s, n, u)
  BY DEF Slice

LEMMA SliceLength ==
    ASSUME NEW T, NEW s \in Seq(T), NEW t \in Seq(T), Slice(s, 0, t)
    PROVE  Len(s) <= Len(t) /\ IsPrefix(s, t) /\ (Len(s) = Len(t) => s = t)
  BY DEF Slice, IsPrefix

LEMMA SliceEmpty ==
    ASSUME NEW n, NEW t
    PROVE  Slice(<<>>, n, t)
  BY DEF Slice

LEMMA MinOfTwo ==
    ASSUME NEW a \in Int, NEW b \in Int
    PROVE  Min({a, b}) = IF a <= b THEN a ELSE b
  <1>1. CASE a <= b
    BY <1>1 DEF Min
  <1>2. CASE ~(a <= b)
    BY <1>2 DEF Min
  <1>. QED  BY <1>1, <1>2

LEMMA MaxOfTwo ==
    ASSUME NEW a \in Int, NEW b \in Int
    PROVE  Max({a, b}) = IF a >= b THEN a ELSE b
  <1>1. CASE a >= b
    BY <1>1 DEF Max
  <1>2. CASE ~(a >= b)
    BY <1>2 DEF Max
  <1>. QED  BY <1>1, <1>2

------------------------------------------------------------------------------
(* The initial state.                                                      *)
LEMMA NoRunShape == Shape(NoRun) /\ ~Active(NoRun)
  <1>1. <<>> \in Seq(Row)
    OBVIOUS
  <1>2. /\ NoRun.pc = "idle" /\ NoRun.raised = "none"
        /\ NoRun.local = NoCheckpoint /\ NoRun.expected = NoCheckpoint
        /\ NoRun.consumed = 0 /\ NoRun.place = 0 /\ NoRun.position = 0 /\ NoRun.opened = 0
        /\ NoRun.total = NoTotal
        /\ NoRun.body = <<>> /\ NoRun.group = <<>> /\ NoRun.batch.rows = <<>>
    BY DEF NoRun, NoBatch
  <1> QED
    BY <1>1, <1>2 DEF Shape, Control, Checkpoint, Active

LEMMA InitLemma == Init => IInv
  <1> SUFFICES ASSUME Init PROVE IInv
    OBVIOUS
  <1>1. kind \in {"offset", "single", "httpCsv", "localCsv"} /\ source \in Seq(Row)
    BY KindAssumption, ContentAssumption DEF Init
  <1>2. World /\ Kept /\ Ended
    BY <1>1, CheckpointAssumption DEF Init, World, Kept, Ended, Slice, Numeric, NoRun, Completed
  <1>3. Shape(run) /\ ~Active(run)
    BY NoRunShape DEF Init
  <1> QED
    BY <1>2, <1>3 DEF IInv

------------------------------------------------------------------------------
(* The run ends, or is about to.                                           *)

LEMMA Failing ==
    ASSUME IInv, UNCHANGED <<worldVars, storeVars>>,
           Shape(run)', run'.pc = "failing"
    PROVE  IInv'
  BY DEF IInv, World, Kept, Ended, Active, worldVars, storeVars, Slice, Numeric, Whole

LEMMA Failed ==
    ASSUME IInv, NEW reason, NEW result, Fail(reason, result)
    PROVE  IInv'
  <1>1. Shape(run)' /\ run'.pc = "failing"
    BY DEF IInv, Shape, Fail, Control
  <1> QED
    BY <1>1, Failing DEF Fail

LEMMA HandlerFailed ==
    ASSUME IInv, NEW error \in {"storage", "cancelled"}, HandlerFails(error), UNCHANGED storeVars
    PROVE  IInv'
  <1>1. Shape(run)' /\ run'.pc = "failing"
    BY DEF IInv, Shape, HandlerFails, Control
  <1> QED
    BY <1>1, Failing DEF HandlerFails

LEMMA GivingUp ==
    ASSUME IInv,
           \/ AuthenticationFails \/ RequestCutOff \/ FetchFails \/ ResponseRefused
           \/ StreamFails \/ FileRefused \/ MalformedRow \/ RowTooLarge \/ ReadAborted
    PROVE  IInv'
  <1>1. \E reason, result : Fail(reason, result)
    BY DEF AuthenticationFails, RequestCutOff, FetchFails, ResponseRefused, StreamFails,
           FileRefused, MalformedRow, RowTooLarge, ReadAborted, Give
  <1> QED
    BY <1>1, Failed

LEMMA Leaving ==
    ASSUME IInv,
           FinishRun \/ RecordFailure \/ Crash
    PROVE  IInv'
  <1>1. CASE FinishRun /\ run.aborted
    BY <1>1, Failed DEF FinishRun
  <1>2. CASE (FinishRun /\ ~run.aborted) \/ RecordFailure \/ Crash
    <2>1. /\ UNCHANGED <<worldVars, checkpoint, ledger, begun>> /\ run' = NoRun
          /\ status' = "failed" \/ (run.pc = "finishing" /\ status' \in Completed)
      BY <1>2 DEF FinishRun, RecordFailure, Crash, Leave, Completed
    <2>2. World' /\ Kept' /\ Ended'
      BY <2>1 DEF IInv, World, Kept, Ended, Whole, worldVars, Numeric, Slice, NoRun, Completed
    <2>3. Shape(run)' /\ ~Active(run')
      BY <2>1, NoRunShape
    <2> QED
      BY <2>2, <2>3 DEF IInv, Active
  <1> QED
    BY <1>1, <1>2

------------------------------------------------------------------------------
(* The run begins.                                                         *)
LEMMA Started ==
    ASSUME IInv, StartRun
    PROVE  IInv'
  <1> DEFINE from == IF status \in Completed THEN NoCheckpoint ELSE checkpoint
             label == IF kind = "single" /\ from # NoCheckpoint THEN "finishing" ELSE "opening"
             stored == IF kind = "single" THEN 0 ELSE Numeric(from)
  <1>1. /\ run' = [NoRun EXCEPT !.pc = label, !.local = from, !.expected = from,
                               !.consumed = IF kind \in Csv THEN stored ELSE 0,
                               !.position = IF kind = "offset" THEN stored ELSE 0]
        /\ UNCHANGED <<kind, source, changes, storeVars>>
    BY DEF StartRun
  <1>2. from \in {checkpoint, NoCheckpoint} /\ from \in Checkpoint /\ stored \in Nat
    BY CheckpointAssumption DEF IInv, World, Numeric, Checkpoint
  <1> HIDE DEF from, stored
  <1>3. /\ DOMAIN run' = DOMAIN NoRun /\ run'.pc = label
        /\ run'.local = from /\ run'.expected = from
        /\ run'.consumed = IF kind \in Csv THEN stored ELSE 0
        /\ run'.position = IF kind = "offset" THEN stored ELSE 0
        /\ run'.place = 0 /\ run'.opened = 0 /\ run'.total = NoTotal /\ run'.group = <<>>
        /\ run'.body = <<>> /\ run'.batch = NoBatch /\ ~run'.complete /\ run'.raised = "none"
        /\ run'.verdict = "ok"
    BY <1>1 DEF NoRun
  <1>4. /\ kind' = kind /\ changes' = changes /\ checkpoint' = checkpoint /\ source' = source
        /\ begun' = begun /\ ledger' = ledger /\ status' = status
    BY <1>1 DEF storeVars
  <1>5. Shape(run')
    BY <1>2, <1>3 DEF Shape, Control, NoBatch
  <1>6. World' /\ Kept'
    BY <1>4 DEF IInv, World, Kept, Slice, Numeric
  <1>7. label = "finishing" => Whole
    BY CheckpointAssumption DEF from, IInv, World, Kept, Whole
  <1>8. Ended'
    BY <1>4, <1>3, <1>7 DEF Ended, Whole
  <1>9. Going(run)'
    BY <1>4, <1>2, <1>3 DEF Going, IInv, World
  <1>10. kind # "single" => stored = Numeric(from) /\ label = "opening"
    BY DEF stored
  <1>11. (kind = "offset" => OffsetRun(run))'
    BY <1>4, <1>2, <1>3, <1>10 DEF OffsetRun, Numeric, Holding, Handling
  <1>12. (kind = "single" => SingleRun(run))'
    BY <1>4, <1>3 DEF SingleRun, Holding, Handling
  <1>13. (kind \in Csv => CsvRun(run))'
    BY <1>4, <1>2, <1>3, <1>10 DEF CsvRun, Numeric, Holding, Handling, Open, Csv
  <1> QED
    BY <1>5, <1>6, <1>8, <1>9, <1>11, <1>12, <1>13 DEF IInv, Running

(* Steps that change only where the run is, or a flag.                      *)
LEMMA Flagged ==
    ASSUME IInv,
           \/ run' = [run EXCEPT !.aborted = TRUE]
           \/ run' = [run EXCEPT !.timedOut = TRUE],
           UNCHANGED <<worldVars, storeVars>>
    PROVE  IInv'
  <1>1. /\ DOMAIN run' = DOMAIN NoRun
        /\ \A f \in DOMAIN NoRun : f \notin {"aborted", "timedOut"} => run'[f] = run[f]
    BY DEF IInv, Shape
  <1>2. /\ run'.pc = run.pc /\ run'.local = run.local /\ run'.expected = run.expected
        /\ run'.consumed = run.consumed /\ run'.place = run.place
        /\ run'.position = run.position /\ run'.total = run.total /\ run'.body = run.body
        /\ run'.opened = run.opened /\ run'.verdict = run.verdict /\ run'.group = run.group
        /\ run'.complete = run.complete /\ run'.batch = run.batch /\ run'.raised = run.raised
    BY <1>1 DEF NoRun
  <1>3. Shape(run)' /\ World' /\ Kept' /\ Ended'
    BY <1>1, <1>2 DEF IInv, Shape, World, Kept, Ended, Whole, Slice, Numeric, worldVars, storeVars
  <1>4. Active(run) => Running(run)'
    BY <1>2 DEF IInv, Running, Going, OffsetRun, SingleRun, CsvRun, CsvOpen, CsvBatch, Sound,
                Slice, Numeric, worldVars, storeVars
  <1> QED
    BY <1>2, <1>3, <1>4 DEF IInv, Active

(* Steps between labels.                                                   *)
LEMMA Moved ==
    ASSUME IInv, UNCHANGED <<worldVars, storeVars>>,
           \/ run' = [run EXCEPT !.pc = "requesting", !.timedOut = FALSE] /\ run.pc = "opening"
           \/ run' = [run EXCEPT !.pc = "committing"] /\ run.pc = "transforming"
           \/ run' = [run EXCEPT !.pc = "delivering"] /\ run.pc = "reading" /\ kind \in Csv
           \/ /\ run' = [run EXCEPT !.pc = "sealing"] /\ run.pc = "reading" /\ kind \in Csv
              /\ run.position >= Len(run.body)
    PROVE  IInv'
  <1>1. /\ DOMAIN run' = DOMAIN NoRun
        /\ run'.local = run.local /\ run'.expected = run.expected
        /\ run'.consumed = run.consumed /\ run'.place = run.place
        /\ run'.position = run.position /\ run'.total = run.total /\ run'.body = run.body
        /\ run'.opened = run.opened /\ run'.verdict = run.verdict /\ run'.group = run.group
        /\ run'.complete = run.complete /\ run'.batch = run.batch /\ run'.raised = run.raised
    BY DEF IInv, Shape, NoRun
  <1>2. \/ run.pc = "opening" /\ run'.pc = "requesting"
        \/ run.pc = "transforming" /\ run'.pc = "committing"
        \/ run.pc = "reading" /\ run'.pc = "delivering" /\ kind \in Csv
        \/ /\ run.pc = "reading" /\ run'.pc = "sealing" /\ kind \in Csv
           /\ run.position >= Len(run.body)
    BY DEF IInv, Shape, NoRun
  <1>3. Active(run) /\ Active(run)'
    BY <1>2 DEF Active
  <1>4. World' /\ Kept' /\ Ended'
    BY <1>2 DEF IInv, World, Kept, Ended, Whole, Slice, Numeric, worldVars, storeVars
  <1>5. Shape(run)'
    BY <1>1, <1>2 DEF IInv, Shape, Control
  <1>6. (Going(run))' /\ (kind = "offset" => OffsetRun(run))' /\ (kind = "single" => SingleRun(run))'
    BY <1>1, <1>2, <1>3
    DEF IInv, Running, Going, OffsetRun, SingleRun, Numeric, Slice, Holding, Handling, Csv,
        worldVars, storeVars
  <1>7. ASSUME kind \in Csv PROVE CsvRun(run)'
    <2>1. CsvRun(run) /\ UNCHANGED <<kind, source, changes, begun, ledger>>
      BY <1>3, <1>7 DEF IInv, Running, worldVars, storeVars
    <2>2. CsvOpen(run) => CsvOpen(run)'
      BY <1>1, <1>2, <2>1 DEF CsvOpen, Sound, Slice
    <2>3. CsvBatch(run) => CsvBatch(run)'
      BY <1>1, <2>1 DEF CsvBatch, Sound, Slice
    <2> QED
      BY <1>1, <1>2, <2>1, <2>2, <2>3 DEF CsvRun, Numeric, Open, Holding, Handling
  <1> QED
    BY <1>4, <1>5, <1>6, <1>7 DEF IInv, Running, worldVars

(* Steps at which the run asks for nothing and stores nothing.              *)
LEMMA Working ==
    ASSUME IInv,
           \/ OpenSource \/ Transform \/ TransformThrows \/ Transformed \/ HandlerAborted
           \/ BatchFull \/ RowsExhausted \/ Abort \/ Timeout
    PROVE  IInv'
  <1>1. CASE OpenSource /\ run.aborted
    BY <1>1, Failed DEF OpenSource, Give
  <1>2. CASE HandlerAborted
    BY <1>2, HandlerFailed DEF HandlerAborted
  <1>3. CASE Transform \/ TransformThrows
    <2>1. UNCHANGED <<worldVars, storeVars, run>>
      BY <1>3 DEF Transform, TransformThrows
    <2> QED
      BY <2>1 DEF IInv, World, Shape, Kept, Ended, Whole, Active, Running, Going, OffsetRun,
                  SingleRun, CsvRun, CsvOpen, CsvBatch, Sound, Slice, Numeric, worldVars, storeVars
  <1>4. CASE Abort \/ Timeout
    BY <1>4, Flagged DEF Abort, Timeout
  <1>5. CASE (OpenSource /\ ~run.aborted) \/ Transformed
    BY <1>5, Moved DEF OpenSource, Transformed
  <1>6. CASE BatchFull \/ RowsExhausted
    <2>1. run.pc = "reading" /\ kind \in Csv
      BY <1>6 DEF BatchFull, RowsExhausted, RowAhead, IInv, Running, Going, Active
    <2> QED
      BY <1>6, <2>1, Moved DEF BatchFull, RowsExhausted, Goto
  <1> QED
    BY <1>1, <1>2, <1>3, <1>4, <1>5, <1>6

------------------------------------------------------------------------------
(* Answers of the JSON sources.                                            *)

LEMMA PageIsSlice ==
    ASSUME World, NEW offset \in Nat, NEW items \in {Page(offset), <<>>}
    PROVE  items \in Seq(Row) /\ Slice(items, offset, source)
  <1>1. Min({offset + BatchSize, Len(source)}) \in Nat
        /\ Min({offset + BatchSize, Len(source)}) <= Len(source)
    BY SizeAssumption, MinOfTwo DEF World
  <1>2. Page(offset) \in Seq(Row) /\ Slice(Page(offset), offset, source)
    BY <1>1, SliceOfSource DEF Page, World
  <1>3. <<>> \in Seq(Row) /\ Slice(<<>>, offset, source)
    BY SliceEmpty
  <1> QED
    BY <1>2, <1>3

(* A page, or the end of the pages.                                        *)
LEMMA PageCame ==
    ASSUME IInv, OffsetAnswered
    PROVE  IInv'
  <1> DEFINE first == IF run.total = NoTotal THEN Len(source) ELSE run.total
             seenAt == IF run.total = NoTotal THEN changes ELSE run.opened
  <1>1. /\ run.pc = "requesting" /\ kind = "offset" /\ Active(run)
        /\ World /\ Shape(run) /\ Going(run) /\ OffsetRun(run)
    BY DEF OffsetAnswered, IInv, Active, Running
  <1>2. PICK items \in {Page(run.position), <<>>} : \E fault :
            /\ fault = "none" => Len(source) = first
            /\ \/ fault # "none" /\ Give(fault)
               \/ fault = "none" /\ run.position = first /\ Goto("finishing")
               \/ /\ fault = "none"
                  /\ run' = [run EXCEPT !.pc = "delivering", !.total = first, !.opened = seenAt,
                                        !.group = items]
                  /\ UNCHANGED <<worldVars, storeVars, transformVars>>
    BY DEF OffsetAnswered
  <1>3. \/ \E reason : Give(reason)
        \/ Len(source) = first /\ run.position = first /\ Goto("finishing")
        \/ /\ Len(source) = first
           /\ run' = [run EXCEPT !.pc = "delivering", !.total = first, !.opened = seenAt,
                                 !.group = items]
           /\ UNCHANGED <<worldVars, storeVars>>
    <2> HIDE DEF first, seenAt
    <2> QED
      BY <1>2
  <1>4. items \in Seq(Row) /\ Slice(items, run.position, source)
    BY <1>1, PageIsSlice DEF Shape
  <1>5. CASE \E reason : Give(reason)
    BY <1>5, Failed DEF Give
  <1>6. CASE Len(source) = first /\ run.position = first /\ Goto("finishing")
    <2>1. /\ run' = [run EXCEPT !.pc = "finishing"] /\ UNCHANGED <<worldVars, storeVars>>
      BY <1>6 DEF Goto
    <2>2. run.position = Len(source) /\ Numeric(run.local) = run.position
      BY <1>1, <1>6 DEF OffsetRun, Shape
    <2>3. Whole
      <3>1. CASE run.local = checkpoint
        BY <1>1, <2>2, <3>1 DEF IInv, Kept, Whole
      <3>2. CASE run.local = NoCheckpoint
        <4>1. Len(source) = 0
          BY <2>2, <3>2 DEF Numeric
        <4>2. begun = changes => Len(ledger) <= Len(source)
          BY <1>1, SliceLength DEF IInv, Kept, World
        <4> QED
          BY <1>1, <4>1, <4>2 DEF Whole, World
      <3> QED
        BY <1>1, <3>1, <3>2 DEF Going
    <2>4. World' /\ Kept' /\ Ended' /\ Shape(run)'
      BY <1>1, <2>1, <2>3
      DEF IInv, World, Kept, Ended, Whole, Slice, Numeric, Shape, Control, worldVars, storeVars
    <2>5. Going(run)' /\ OffsetRun(run)'
      BY <1>1, <2>1
      DEF Going, OffsetRun, Numeric, Shape, Holding, Handling, NoRun, worldVars, storeVars, Slice
    <2> QED
      BY <1>1, <2>1, <2>4, <2>5 DEF IInv, Running, worldVars, Csv
  <1>7. CASE /\ Len(source) = first
             /\ run' = [run EXCEPT !.pc = "delivering", !.total = first, !.opened = seenAt,
                                   !.group = items]
             /\ UNCHANGED <<worldVars, storeVars>>
    <2>1. first \in Nat /\ first # NoTotal /\ seenAt \in Nat /\ seenAt <= changes /\ begun <= seenAt
          /\ first = Len(source)
      BY <1>1, <1>7 DEF World, Shape, Going, OffsetRun, NoTotal
    <2> HIDE DEF first, seenAt
    <2>2. World' /\ Kept' /\ Ended' /\ Shape(run)'
      BY <1>1, <1>4, <1>7, <2>1
      DEF IInv, World, Kept, Ended, Whole, Slice, Numeric, Shape, Control, NoRun, worldVars, storeVars
    <2>3. /\ run'.pc = "delivering" /\ run'.total = first /\ run'.opened = seenAt
          /\ run'.group = items /\ run'.position = run.position /\ run'.local = run.local
          /\ run'.expected = run.expected
      BY <1>1, <1>7 DEF Shape, NoRun
    <2>4. Going(run)'
      BY <1>1, <1>7, <2>1, <2>3 DEF Going, worldVars, storeVars
    <2>5. OffsetRun(run)'
      BY <1>1, <1>4, <1>7, <2>1, <2>3 DEF OffsetRun, Numeric, Handling, Slice, worldVars, storeVars
    <2> QED
      BY <1>1, <1>7, <2>2, <2>4, <2>5 DEF IInv, Running, worldVars, Csv
  <1> QED
    BY <1>5, <1>6, <1>7, <1>3

(* Everything at once, or nothing.                                         *)
LEMMA AllCame ==
    ASSUME IInv, SingleAnswered
    PROVE  IInv'
  <1>1. /\ run.pc = "requesting" /\ kind = "single" /\ Active(run)
        /\ World /\ Shape(run) /\ Going(run) /\ SingleRun(run)
    BY DEF SingleAnswered, IInv, Active, Running
  <1>2. \/ \E reason : Give(reason)
        \/ source = <<>> /\ Goto("finishing")
        \/ /\ run' = [run EXCEPT !.pc = "delivering", !.opened = changes, !.group = source]
           /\ UNCHANGED <<worldVars, storeVars>>
    BY DEF SingleAnswered
  <1>3. CASE \E reason : Give(reason)
    BY <1>3, Failed DEF Give
  <1>4. CASE source = <<>> /\ Goto("finishing")
    <2>1. /\ run' = [run EXCEPT !.pc = "finishing"] /\ UNCHANGED <<worldVars, storeVars>>
      BY <1>4 DEF Goto
    <2>2. begun = changes => Len(ledger) <= Len(source)
      BY <1>1, SliceLength DEF IInv, Kept, World
    <2>3. Whole
      BY <1>1, <1>4, <2>2 DEF Whole, World
    <2>4. World' /\ Kept' /\ Ended' /\ Shape(run)'
      BY <1>1, <2>1, <2>3
      DEF IInv, World, Kept, Ended, Whole, Slice, Numeric, Shape, Control, worldVars, storeVars
    <2>5. Going(run)' /\ SingleRun(run)'
      BY <1>1, <2>1
      DEF Going, SingleRun, Shape, Holding, Handling, NoRun, worldVars, storeVars
    <2> QED
      BY <1>1, <2>1, <2>4, <2>5 DEF IInv, Running, worldVars, Csv
  <1>5. CASE /\ run' = [run EXCEPT !.pc = "delivering", !.opened = changes, !.group = source]
             /\ UNCHANGED <<worldVars, storeVars>>
    <2>1. World' /\ Kept' /\ Ended' /\ Shape(run)'
      BY <1>1, <1>5
      DEF IInv, World, Kept, Ended, Whole, Slice, Numeric, Shape, Control, NoRun, worldVars, storeVars
    <2>2. Going(run)' /\ SingleRun(run)'
      BY <1>1, <1>5
      DEF Going, SingleRun, Shape, World, Holding, Handling, NoRun, worldVars, storeVars
    <2> QED
      BY <1>1, <1>5, <2>1, <2>2 DEF IInv, Running, worldVars, Csv
  <1> QED
    BY <1>2, <1>3, <1>4, <1>5

------------------------------------------------------------------------------
(* The CSV sources.                                                        *)

(* The rows of a source become known to the run: at most those it holds.    *)
LEMMA Opened ==
    ASSUME IInv, NEW verdict, NEW body \in Seq(Row),
           run.pc = "requesting", kind \in Csv, UNCHANGED <<worldVars, storeVars>>,
           \/ run' = [run EXCEPT !.pc = "reading", !.verdict = verdict, !.opened = changes,
                                 !.body = body]
           \/ /\ run' = [run EXCEPT !.pc = "reading", !.opened = changes, !.body = body]
              /\ verdict = run.verdict,
           Slice(body, 0, source), verdict = "ok" => Len(body) = Len(source),
           kind = "localCsv" => verdict = "ok"
    PROVE  IInv'
  <1>1. World /\ Shape(run) /\ Kept /\ Ended /\ Going(run) /\ CsvRun(run)
    BY DEF IInv, Active, Running
  <1>2. /\ kind' = kind /\ changes' = changes /\ checkpoint' = checkpoint /\ source' = source
        /\ begun' = begun /\ ledger' = ledger /\ status' = status
    BY DEF worldVars, storeVars
  <1>3. /\ DOMAIN run' = DOMAIN NoRun
        /\ run'.pc = "reading" /\ run'.verdict = verdict /\ run'.opened = changes
        /\ run'.body = body
        /\ run'.local = run.local /\ run'.expected = run.expected
        /\ run'.consumed = run.consumed /\ run'.place = run.place
        /\ run'.position = run.position /\ run'.total = run.total /\ run'.group = run.group
        /\ run'.complete = run.complete /\ run'.batch = run.batch /\ run'.raised = run.raised
    BY <1>1 DEF Shape, NoRun
  <1>4. World' /\ Kept' /\ Ended'
    BY <1>1, <1>2, <1>3 DEF World, Kept, Ended, Whole, Slice, Numeric
  <1>5. Shape(run)'
    BY <1>1, <1>3 DEF Shape, Control, World
  <1>6. Going(run)'
    BY <1>1, <1>2, <1>3 DEF Going, World
  <1>7. run.group = <<>> /\ ~run.complete
    BY <1>1 DEF CsvRun, Open, Holding
  <1>8. begun = changes /\ verdict = "ok" => Slice(ledger, 0, body)
    BY <1>1 DEF Kept, World, Slice
  <1>9. CsvOpen(run)'
    BY <1>1, <1>2, <1>3, <1>7, <1>8 DEF CsvOpen, World, Slice
  <1>10. CsvRun(run)'
    BY <1>1, <1>2, <1>3, <1>9 DEF CsvRun, Numeric, Open, Holding, Handling
  <1> QED
    BY <1>2, <1>4, <1>5, <1>6, <1>10 DEF IInv, Running, Csv

LEMMA SourceOpened ==
    ASSUME IInv, ResponseOpened \/ FileOpened
    PROVE  IInv'
  <1>1. CASE ResponseOpened
    <2>1. PICK fault \in StreamFault \union {"ok"}, length \in 0..Len(source) :
            /\ fault = "ok" => length = Len(source)
            /\ run' = [run EXCEPT !.pc = "reading", !.verdict = fault, !.opened = changes,
                                  !.body = SubSeq(source, 1, length)]
      BY <1>1 DEF ResponseOpened
    <2>2. source \in Seq(Row) /\ length \in Nat /\ length <= Len(source)
      BY DEF IInv, World
    <2>3. /\ SubSeq(source, 1, length) \in Seq(Row)
          /\ Len(SubSeq(source, 1, length)) = length
          /\ Slice(SubSeq(source, 1, length), 0, source)
      BY <2>2 DEF Slice
    <2> QED
      BY <1>1, <2>1, <2>2, <2>3, Opened DEF ResponseOpened, Csv
  <1>2. CASE FileOpened
    <2>1. run' = [run EXCEPT !.pc = "reading", !.opened = changes, !.body = source]
      BY <1>2 DEF FileOpened
    <2>2. Slice(source, 0, source) /\ source \in Seq(Row)
      BY DEF Slice, IInv, World
    <2>3. kind = "localCsv" /\ run.verdict = "ok"
      BY <1>2 DEF FileOpened, IInv, Active, Running, CsvRun, Csv
    <2> QED
      BY <1>2, <2>1, <2>2, <2>3, Opened DEF FileOpened, Csv
  <1> QED
    BY <1>1, <1>2

(* A row is taken up.                                                      *)
LEMMA RowRead ==
    ASSUME IInv, ReadRow
    PROVE  IInv'
  <1>1. /\ World /\ Shape(run) /\ Kept /\ Ended /\ Going(run) /\ CsvRun(run) /\ CsvOpen(run)
        /\ run.pc = "reading" /\ kind \in Csv
    BY DEF ReadRow, RowAhead, IInv, Active, Running, Going, CsvRun, Open
  <1>2. /\ kind' = kind /\ changes' = changes /\ checkpoint' = checkpoint /\ source' = source
        /\ begun' = begun /\ ledger' = ledger /\ status' = status
    BY DEF ReadRow, TakeRow, worldVars, storeVars
  <1>3. /\ DOMAIN run' = DOMAIN NoRun
        /\ run'.pc = "reading" /\ run'.position = run.position + 1
        /\ run'.group = Append(run.group, run.body[run.position + 1])
        /\ run'.verdict = run.verdict /\ run'.opened = run.opened /\ run'.body = run.body
        /\ run'.local = run.local /\ run'.expected = run.expected
        /\ run'.consumed = run.consumed /\ run'.place = run.place /\ run'.total = run.total
        /\ run'.complete = run.complete /\ run'.batch = run.batch /\ run'.raised = run.raised
    BY <1>1 DEF ReadRow, TakeRow, Shape, NoRun
  <1>4. World' /\ Kept' /\ Ended'
    BY <1>1, <1>2, <1>3 DEF World, Kept, Ended, Whole, Slice, Numeric
  <1>5. run.position = run.place + Len(run.group) /\ run.position < Len(run.body)
    BY <1>1 DEF ReadRow, RowAhead, CsvRun
  <1>6. run'.group \in Seq(Row) /\ Len(run'.group) = Len(run.group) + 1
    <2>1. run.body[run.position + 1] \in Row
      BY <1>1, <1>5 DEF Shape
    <2> QED
      BY <1>1, <1>3, <2>1 DEF Shape
  <1>7. Shape(run)'
    BY <1>1, <1>3, <1>6 DEF Shape, Control
  <1>8. Going(run)'
    BY <1>1, <1>2, <1>3 DEF Going
  <1>9. Slice(run.group, run.place, run.body) => Slice(run.group, run.place, run.body)'
    BY <1>1, <1>3, <1>5, SliceAppend DEF Shape
  <1>10. ~run.complete
    BY <1>1, <1>5 DEF CsvOpen, Shape
  <1>11. CsvOpen(run)'
    BY <1>1, <1>2, <1>3, <1>5, <1>9, <1>10 DEF CsvOpen, Sound
  <1>12. CsvRun(run)'
    <2>1. Len(run.group) \in Nat /\ run.place \in Nat
      BY <1>1 DEF Shape
    <2>2. run'.position = run'.place + Len(run'.group)
      BY <1>3, <1>5, <1>6, <2>1
    <2> QED
      BY <1>1, <1>2, <1>3, <1>11, <2>2 DEF CsvRun, Numeric, Open, Handling
  <1> QED
    BY <1>1, <1>2, <1>4, <1>7, <1>8, <1>12 DEF IInv, Running, Csv

(* The end of the rows proves to be the end of the source.                  *)
LEMMA Sealed ==
    ASSUME IInv, DownloadVerified \/ FileVerified
    PROVE  IInv'
  <1>1. CASE FileVerified /\ run.opened # changes
    BY <1>1, Failed DEF FileVerified, Give
  <1>2. CASE DownloadVerified \/ (FileVerified /\ run.opened = changes)
    <2>1. /\ World /\ Shape(run) /\ Kept /\ Ended /\ Going(run) /\ CsvRun(run) /\ CsvOpen(run)
          /\ run.pc = "sealing" /\ kind \in Csv /\ Sound(run)
      BY <1>2 DEF DownloadVerified, FileVerified, IInv, Active, Running, Going, CsvRun, Open,
                  Sound
    <2>2. /\ kind' = kind /\ changes' = changes /\ checkpoint' = checkpoint /\ source' = source
          /\ begun' = begun /\ ledger' = ledger /\ status' = status
      BY <1>2 DEF DownloadVerified, FileVerified, worldVars, storeVars
    <2>3. /\ DOMAIN run' = DOMAIN NoRun
          /\ run'.pc = "delivering" /\ run'.complete = TRUE
          /\ run'.position = run.position /\ run'.group = run.group
          /\ run'.verdict = run.verdict /\ run'.opened = run.opened /\ run'.body = run.body
          /\ run'.local = run.local /\ run'.expected = run.expected
          /\ run'.consumed = run.consumed /\ run'.place = run.place /\ run'.total = run.total
          /\ run'.batch = run.batch /\ run'.raised = run.raised
      BY <1>2, <2>1 DEF DownloadVerified, FileVerified, Shape, NoRun
    <2>4. World' /\ Kept' /\ Ended'
      BY <2>1, <2>2, <2>3 DEF World, Kept, Ended, Whole, Slice, Numeric
    <2>5. Shape(run)'
      BY <2>1, <2>3 DEF Shape, Control
    <2>6. Going(run)'
      BY <2>1, <2>2, <2>3 DEF Going
    <2>7. run.verdict = "ok" /\ run.position >= Len(run.body)
      BY <1>2, <2>1 DEF DownloadVerified, FileVerified, CsvRun, CsvOpen
    <2>8. CsvOpen(run)'
      BY <2>1, <2>2, <2>3, <2>7 DEF CsvOpen, Sound
    <2>9. CsvRun(run)'
      BY <2>1, <2>2, <2>3, <2>8 DEF CsvRun, Numeric, Open, Holding, Handling
    <2> QED
      BY <2>1, <2>2, <2>4, <2>5, <2>6, <2>9 DEF IInv, Running, Csv
  <1> QED
    BY <1>1, <1>2 DEF FileVerified

------------------------------------------------------------------------------
(* The source changes: what was begun before it has nothing to agree with     *)
(* any more, and a file that is not yet verified need not be one content.   *)
LEMMA Changed ==
    ASSUME IInv, SourceChanges
    PROVE  IInv'
  <1>1. World /\ Shape(run) /\ Kept /\ Ended
    BY DEF IInv
  <1>2. /\ changes' = changes + 1 /\ source' \in Content
        /\ kind' = kind /\ checkpoint' = checkpoint /\ begun' = begun /\ ledger' = ledger
        /\ status' = status
    BY DEF SourceChanges, storeVars
  <1>3. /\ DOMAIN run' = DOMAIN NoRun
        /\ run'.pc = run.pc /\ run'.position = run.position /\ run'.group = run.group
        /\ run'.verdict = run.verdict /\ run'.opened = run.opened
        /\ run'.local = run.local /\ run'.expected = run.expected
        /\ run'.consumed = run.consumed /\ run'.place = run.place /\ run'.total = run.total
        /\ run'.complete = run.complete /\ run'.batch = run.batch /\ run'.raised = run.raised
        /\ run'.body = run.body \/ (run'.body = source' /\ kind = "localCsv" /\ ~run.complete)
    <2>1. CASE run' = run
      BY <1>1, <2>1 DEF Shape
    <2>2. CASE /\ kind = "localCsv" /\ ~run.complete
               /\ \E inPlace \in BOOLEAN :
                    run' = [run EXCEPT !.body = IF inPlace THEN source' ELSE @]
      <3>1. PICK inPlace \in BOOLEAN : run' = [run EXCEPT !.body = IF inPlace THEN source' ELSE @]
        BY <2>2
      <3> QED
        BY <1>1, <2>2, <3>1 DEF Shape, NoRun
    <2> QED
      BY <2>1, <2>2 DEF SourceChanges
  <1>4. source' \in Seq(Row)
    BY <1>2, ContentAssumption
  <1>5. begun < changes' /\ begun # changes'
    BY <1>1, <1>2 DEF World
  <1>6. World'
    BY <1>1, <1>2, <1>4, <1>5 DEF World
  <1>7. Kept' /\ Ended'
    BY <1>1, <1>2, <1>3, <1>5 DEF Kept, Ended, Whole, Numeric
  <1>8. Shape(run)'
    BY <1>1, <1>3, <1>4 DEF Shape
  <1>9. ASSUME Active(run) PROVE Running(run)'
    <2>1. Running(run) /\ Going(run)
      BY <1>9 DEF IInv, Running
    <2>2. run.opened <= changes' /\ run.opened # changes'
      BY <1>1, <1>2, <2>1 DEF World, Shape, Going
    <2>3. Going(run)'
      BY <1>2, <1>3, <2>1, <2>2 DEF Going
    <2>4. (kind = "offset" => OffsetRun(run))'
      BY <1>2, <1>3, <2>1, <2>2 DEF Running, OffsetRun, Numeric
    <2>5. (kind = "single" => SingleRun(run))'
      BY <1>2, <1>3, <2>1, <2>2 DEF Running, SingleRun
    <2>6. Sound(run)' => Sound(run) /\ run'.body = run.body
      BY <1>2, <1>3, <2>2 DEF Sound
    <2>7. CsvOpen(run) => CsvOpen(run)'
      BY <1>2, <1>3, <2>2, <2>6 DEF CsvOpen
    <2>8. CsvBatch(run) => CsvBatch(run)'
      BY <1>2, <1>3, <2>6 DEF CsvBatch
    <2>9. (kind \in Csv => CsvRun(run))'
      BY <1>2, <1>3, <2>1, <2>7, <2>8 DEF Running, CsvRun, Numeric
    <2> QED
      BY <2>3, <2>4, <2>5, <2>9 DEF Running
  <1> QED
    BY <1>3, <1>6, <1>7, <1>8, <1>9 DEF IInv, Active

------------------------------------------------------------------------------
(* A batch is handed to the runner.                                        *)

(* The batch is what its kind says, and starts where the runner is.         *)
LEMMA BatchStarts ==
    ASSUME IInv, run.pc = "delivering"
    PROVE  /\ BatchOf(run.group).start = run.local
           /\ BatchOf(run.group).rows \in Seq(Row) \/ Skipped
           /\ kind = "offset" => BatchOf(run.group) =
                [rows |-> run.group, start |-> run.local, next |-> run.position + Len(run.group)]
           /\ kind = "single" => BatchOf(run.group) =
                [rows |-> run.group, start |-> NoCheckpoint, next |-> Finished]
  <1>1. World /\ Shape(run) /\ Running(run) /\ run.expected = run.local
    BY DEF IInv, Active, Running, Going
  <1>2. CASE kind = "offset"
    <2>1. BatchOf(run.group) =
            [rows |-> run.group, start |-> run.expected, next |-> run.position + Len(run.group)]
      BY <1>2 DEF BatchOf
    <2> QED
      BY <1>1, <1>2, <2>1 DEF Shape
  <1>3. CASE kind = "single"
    <2>1. BatchOf(run.group) = [rows |-> run.group, start |-> NoCheckpoint, next |-> Finished]
      BY <1>3 DEF BatchOf
    <2>2. run.local = NoCheckpoint
      BY <1>1, <1>3 DEF Running, SingleRun
    <2> QED
      BY <1>1, <1>3, <2>1, <2>2 DEF Shape
  <1>4. CASE kind \in Csv
    <2> DEFINE rest == SubSeq(run.group, Max({0, run.consumed - run.place}) + 1, Len(run.group))
    <2>1. BatchOf(run.group) =
            [rows |-> rest, start |-> run.expected, next |-> run.consumed + Len(rest)]
      BY <1>4 DEF BatchOf, Csv
    <2>2. Max({0, run.consumed - run.place}) = run.consumed - run.place
          /\ run.consumed - run.place \in Nat
      BY <1>1, <1>4, MaxOfTwo DEF Running, CsvRun, Shape
    <2>3. ~Skipped => rest \in Seq(Row)
      <3>1. ASSUME ~Skipped PROVE run.consumed - run.place \in 0..Len(run.group)
        BY <1>1, <1>4, <2>2, <3>1 DEF Skipped, Shape
      <3>2. run.group \in Seq(Row)
        BY <1>1 DEF Shape
      <3> QED
        BY <2>2, <3>1, <3>2, SliceRest
    <2> HIDE DEF rest
    <2>4. BatchOf(run.group).rows = rest /\ BatchOf(run.group).start = run.local
      BY <1>1, <2>1
    <2> QED
      BY <1>4, <2>3, <2>4 DEF Csv
  <1> QED
    BY <1>1, <1>2, <1>3, <1>4 DEF World, Csv

(* What is left of a batch of rows is the slice after what is stored.       *)
LEMMA RestIsSlice ==
    ASSUME IInv, run.pc = "delivering", kind \in Csv, ~Skipped
    PROVE  LET next == BatchOf(run.group)
           IN  /\ next.next = run.consumed + Len(next.rows) /\ next.next = run.position
               /\ Sound(run) => Slice(next.rows, run.consumed, run.body)
  <1> DEFINE rest == SubSeq(run.group, Max({0, run.consumed - run.place}) + 1, Len(run.group))
             gone == run.consumed - run.place
  <1>1. World /\ Shape(run) /\ CsvRun(run) /\ CsvOpen(run)
    BY DEF IInv, Active, Running, CsvRun, Open, Holding
  <1>2. BatchOf(run.group) =
            [rows |-> rest, start |-> run.expected, next |-> run.consumed + Len(rest)]
    BY DEF BatchOf, Csv
  <1>3. gone \in 0..Len(run.group) /\ run.group \in Seq(Row)
    BY <1>1 DEF Skipped, CsvRun, Shape
  <1>4. Max({0, gone}) = gone
    BY <1>3, MaxOfTwo
  <1>5. /\ Len(rest) = Len(run.group) - gone
        /\ Slice(run.group, run.place, run.body) => Slice(rest, run.place + gone, run.body)
    <2>1. run.place \in Nat
      BY <1>1 DEF Shape
    <2> HIDE DEF gone
    <2> QED
      BY <1>3, <1>4, <2>1, SliceRest DEF gone
  <1>6. run.place + gone = run.consumed
    BY <1>1 DEF Shape
  <1>7. run.consumed + Len(rest) = run.position
    <2>1. run.position = run.place + Len(run.group)
      BY <1>1 DEF CsvRun
    <2>2. /\ run.consumed \in Nat /\ run.place \in Nat /\ run.position \in Nat
          /\ Len(run.group) \in Nat
      BY <1>1 DEF Shape
    <2>3. Len(rest) = Len(run.group) - gone
      BY <1>5
    <2> HIDE DEF rest
    <2> QED
      BY <2>1, <2>2, <2>3
  <1>8. Sound(run) => Slice(run.group, run.place, run.body)
    BY <1>1 DEF CsvOpen
  <1> HIDE DEF rest, gone
  <1> QED
    BY <1>2, <1>5, <1>6, <1>7, <1>8

LEMMA Delivered ==
    ASSUME IInv, Deliver
    PROVE  IInv'
  <1>1. /\ World /\ Shape(run) /\ Kept /\ Ended /\ Running(run) /\ Going(run)
        /\ run.pc = "delivering"
    BY DEF Deliver, IInv, Active, Running
  <1>2. CASE Skipped
    <2>1. /\ run' = [run EXCEPT !.pc = "delivered", !.place = @ + Len(run.group)]
          /\ UNCHANGED <<worldVars, storeVars>>
      BY <1>2 DEF Deliver
    <2>2. /\ kind' = kind /\ changes' = changes /\ checkpoint' = checkpoint /\ source' = source
          /\ begun' = begun /\ ledger' = ledger /\ status' = status
      BY <2>1 DEF worldVars, storeVars
    <2>3. /\ DOMAIN run' = DOMAIN NoRun
          /\ run'.pc = "delivered" /\ run'.place = run.place + Len(run.group)
          /\ run'.position = run.position /\ run'.group = run.group
          /\ run'.verdict = run.verdict /\ run'.opened = run.opened /\ run'.body = run.body
          /\ run'.local = run.local /\ run'.expected = run.expected
          /\ run'.consumed = run.consumed /\ run'.total = run.total
          /\ run'.complete = run.complete /\ run'.batch = run.batch /\ run'.raised = run.raised
      BY <1>1, <2>1 DEF Shape, NoRun
    <2>4. kind \in Csv /\ CsvRun(run) /\ CsvOpen(run) /\ run.place + Len(run.group) <= run.consumed
      BY <1>1, <1>2 DEF Skipped, Running, CsvRun, Open, Holding
    <2>5. World' /\ Kept' /\ Ended' /\ Shape(run)' /\ Going(run)'
      BY <1>1, <2>2, <2>3 DEF World, Kept, Ended, Whole, Numeric, Shape, Control, Going
    <2>6. CsvOpen(run)'
      BY <2>2, <2>3, <2>4 DEF CsvOpen, Sound
    <2>7. CsvRun(run)'
      <3>1. run.position = run.place + Len(run.group)
        BY <1>1, <2>4 DEF CsvRun
      <3>2. run'.position = run'.place + 0
        BY <1>1, <2>3, <3>1 DEF Shape
      <3> QED
        BY <1>1, <2>2, <2>3, <2>4, <2>6, <3>2 DEF CsvRun, Numeric, Open, Holding, Handling
    <2> QED
      BY <2>2, <2>4, <2>5, <2>7 DEF IInv, Running, Csv
  <1>3. CASE ~Skipped /\ run.aborted
    BY <1>3, HandlerFailed DEF Deliver
  <1>4. CASE ~Skipped /\ ~run.aborted
    <2> DEFINE next == BatchOf(run.group)
    <2>1. next.start = run.local
      BY <1>1, BatchStarts
    <2>2. /\ run' = [run EXCEPT !.pc = "transforming", !.batch = next]
          /\ UNCHANGED <<worldVars, storeVars>>
      BY <1>4, <2>1 DEF Deliver
    <2>3. /\ kind' = kind /\ changes' = changes /\ checkpoint' = checkpoint /\ source' = source
          /\ begun' = begun /\ ledger' = ledger /\ status' = status
      BY <2>2 DEF worldVars, storeVars
    <2> HIDE DEF next
    <2>4. /\ DOMAIN run' = DOMAIN NoRun
          /\ run'.pc = "transforming" /\ run'.batch = next /\ run'.place = run.place
          /\ run'.position = run.position /\ run'.group = run.group
          /\ run'.verdict = run.verdict /\ run'.opened = run.opened /\ run'.body = run.body
          /\ run'.local = run.local /\ run'.expected = run.expected
          /\ run'.consumed = run.consumed /\ run'.total = run.total
          /\ run'.complete = run.complete /\ run'.raised = run.raised
      BY <1>1, <2>2 DEF Shape, NoRun
    <2>5. next.rows \in Seq(Row)
      BY <1>1, <1>4, BatchStarts DEF next
    <2>6. World' /\ Kept' /\ Ended' /\ Shape(run)' /\ Going(run)'
      BY <1>1, <2>3, <2>4, <2>5 DEF World, Kept, Ended, Whole, Numeric, Shape, Control, Going
    <2>7. ASSUME kind = "offset" PROVE OffsetRun(run)'
      <3>1. next = [rows |-> run.group, start |-> run.local,
                    next |-> run.position + Len(run.group)]
        BY <1>1, <2>7, BatchStarts DEF next
      <3> QED
        BY <1>1, <2>3, <2>4, <2>7, <3>1 DEF Running, OffsetRun, Numeric, Holding, Handling
    <2>8. ASSUME kind = "single" PROVE SingleRun(run)'
      <3>1. next = [rows |-> run.group, start |-> NoCheckpoint, next |-> Finished]
        BY <1>1, <2>8, BatchStarts DEF next
      <3> QED
        BY <1>1, <2>3, <2>4, <2>8, <3>1 DEF Running, SingleRun, Holding, Handling
    <2>9. ASSUME kind \in Csv PROVE CsvRun(run)'
      <3>1. CsvRun(run) /\ CsvOpen(run)
        BY <1>1, <2>9 DEF Running, CsvRun, Open, Holding
      <3>2. /\ next.next = run.consumed + Len(next.rows) /\ next.next = run.position
            /\ Sound(run) => Slice(next.rows, run.consumed, run.body)
        BY <1>1, <1>4, <2>9, RestIsSlice DEF next
      <3>3. CsvBatch(run)'
        BY <2>1, <2>3, <2>4, <3>2 DEF CsvBatch, Sound
      <3>4. CsvOpen(run)'
        BY <1>1, <2>3, <2>4, <3>1 DEF CsvOpen, Sound
      <3> QED
        BY <1>1, <2>3, <2>4, <3>1, <3>3, <3>4 DEF CsvRun, Numeric, Open, Holding, Handling
    <2> QED
      BY <2>3, <2>6, <2>7, <2>8, <2>9 DEF IInv, Running, Csv
  <1> QED
    BY <1>2, <1>3, <1>4

------------------------------------------------------------------------------
(* A batch is stored.                                                      *)

(* What the runner is about to store: the rows that follow the ledger, or    *)
(* those a source begins with.                                             *)
Fits(b) ==
    /\ b.rows \in Seq(Row)
    /\ begun <= run.opened
    /\ b.start = NoCheckpoint \/ (b.start = checkpoint /\ Len(ledger) = Numeric(b.start))
    /\ Numeric(b.start) \in Nat
    /\ run.opened = changes => Slice(b.rows, Numeric(b.start), source)
    /\ kind # "single" => b.next = Numeric(b.start) + Len(b.rows)
    /\ kind = "single" => /\ b.next = Finished /\ b.start = NoCheckpoint
                          /\ run.opened = changes => b.rows = source

LEMMA BatchFits ==
    ASSUME IInv, run.pc = "committing"
    PROVE  Fits(run.batch)
  <1>1. World /\ Shape(run) /\ Kept /\ Running(run) /\ Going(run)
    BY DEF IInv, Active, Running
  <1>2. CASE kind = "offset"
    <2>1. /\ OffsetRun(run) /\ begun <= run.opened
          /\ run.batch = [rows |-> run.group, start |-> run.local,
                          next |-> run.position + Len(run.group)]
          /\ run.opened = changes => Slice(run.group, run.position, source)
      BY <1>1, <1>2 DEF Running, OffsetRun, Holding, Handling
    <2>2. Numeric(run.local) = run.position
      BY <1>1, <2>1 DEF OffsetRun, Shape
    <2>3. run.local = NoCheckpoint \/ (run.local = checkpoint /\ Len(ledger) = Numeric(run.local))
      BY <1>1, <1>2 DEF Going, Kept
    <2> QED
      BY <1>1, <1>2, <2>1, <2>2, <2>3 DEF Fits, Shape
  <1>3. CASE kind = "single"
    <2>1. /\ begun <= run.opened
          /\ run.batch = [rows |-> run.group, start |-> NoCheckpoint, next |-> Finished]
          /\ run.opened = changes => run.group = source
      BY <1>1, <1>3 DEF Running, SingleRun, Holding, Handling
    <2>2. Numeric(NoCheckpoint) = 0 /\ Slice(source, 0, source)
      BY <1>1 DEF Numeric, Slice, World
    <2> QED
      BY <1>1, <1>3, <2>1, <2>2 DEF Fits, Shape
  <1>4. CASE kind \in Csv
    <2>1. CsvRun(run) /\ CsvOpen(run) /\ CsvBatch(run)
      BY <1>1, <1>4 DEF Running, CsvRun, Open, Holding, Handling
    <2>2. Numeric(run.local) = run.consumed /\ run.batch.start = run.local
      BY <2>1 DEF CsvRun, CsvBatch
    <2>3. run.local = NoCheckpoint \/ (run.local = checkpoint /\ Len(ledger) = Numeric(run.local))
      BY <1>1, <1>4 DEF Going, Kept, Csv
    <2>4. ASSUME run.opened = changes PROVE Slice(run.batch.rows, run.consumed, source)
      <3>1. Slice(run.batch.rows, run.consumed, run.body) /\ Slice(run.body, 0, source)
        BY <2>1, <2>4 DEF CsvBatch, CsvOpen, Sound
      <3>2. /\ run.batch.rows \in Seq(Row) /\ run.body \in Seq(Row) /\ source \in Seq(Row)
            /\ run.consumed \in Nat
        BY <1>1 DEF Shape, World
      <3> QED
        BY <3>1, <3>2, SliceOfSlice
    <2>5. /\ run.batch.rows \in Seq(Row) /\ run.consumed \in Nat /\ begun <= run.opened
          /\ run.batch.next = run.consumed + Len(run.batch.rows) /\ kind # "single"
      BY <1>1, <1>4, <2>1 DEF Shape, CsvOpen, CsvBatch, Csv
    <2> QED
      BY <2>2, <2>3, <2>4, <2>5 DEF Fits
  <1> QED
    BY <1>1, <1>2, <1>3, <1>4 DEF World, Csv

LEMMA StoredFits ==
    ASSUME IInv, run.pc = "committing", Stored, UNCHANGED worldVars
    PROVE  World' /\ Kept' /\ status' = status /\ checkpoint' = run.batch.next
           /\ begun' <= run.opened
  <1> DEFINE b == run.batch
  <1>1. World /\ Shape(run) /\ Kept /\ run.opened <= changes /\ Fits(b)
    BY BatchFits DEF IInv, Active, Running, Going
  <1>2. /\ kind' = kind /\ changes' = changes /\ source' = source
        /\ status' = status /\ checkpoint' = b.next
        /\ \/ b.start = NoCheckpoint /\ ledger' = b.rows /\ begun' = run.opened
           \/ b.start # NoCheckpoint /\ ledger' = ledger \o b.rows /\ begun' = begun
    BY DEF Stored, worldVars
  <1> HIDE DEF b
  <1>3. /\ b.rows \in Seq(Row) /\ ledger \in Seq(Row) /\ source \in Seq(Row)
        /\ run.opened \in Nat /\ begun \in Nat /\ changes \in Nat
    BY <1>1 DEF World, Shape, Fits
  <1>4. CASE b.start = NoCheckpoint
    <2>1. ledger' = b.rows /\ begun' = run.opened /\ Numeric(b.start) = 0
      BY <1>2, <1>4 DEF Numeric
    <2>2. World'
      BY <1>1, <1>2, <1>3, <2>1 DEF World, Fits
    <2>3. kind' # "single" => Len(ledger') = Numeric(checkpoint')
      BY <1>1, <1>2, <1>3, <2>1, CheckpointAssumption DEF Fits, Numeric
    <2>4. begun' = changes' => Slice(ledger', 0, source')
      BY <1>1, <1>2, <2>1 DEF Fits
    <2>5. kind' = "single" /\ begun' = changes' => Len(ledger') = Len(source')
      BY <1>1, <1>2, <2>1 DEF Fits
    <2> QED
      BY <1>2, <1>3, <2>1, <2>2, <2>3, <2>4, <2>5 DEF Kept, b
  <1>5. CASE b.start # NoCheckpoint
    <2>1. /\ ledger' = ledger \o b.rows /\ begun' = begun /\ kind # "single"
          /\ Len(ledger) = Numeric(b.start) /\ begun <= run.opened
      BY <1>1, <1>2, <1>5 DEF Fits
    <2>2. ledger' \in Seq(Row) /\ Len(ledger') = Len(ledger) + Len(b.rows)
      BY <1>3, <2>1
    <2>3. checkpoint' = Len(ledger') /\ checkpoint' \in Nat
      BY <1>1, <1>2, <1>3, <2>1, <2>2 DEF Fits
    <2>4. World'
      BY <1>1, <1>2, <2>1, <2>2, <2>3 DEF World
    <2>5. ASSUME begun = changes PROVE Slice(ledger', 0, source)
      <3>1. run.opened = changes
        BY <1>1, <1>3, <2>1, <2>5
      <3>2. Slice(ledger, 0, source) /\ Slice(b.rows, Len(ledger), source)
        BY <1>1, <2>1, <2>5, <3>1 DEF Kept, Fits
      <3> QED
        BY <1>3, <2>1, <3>2, SliceConcat
    <2>6. Numeric(checkpoint') = Len(ledger')
      BY <2>3, CheckpointAssumption DEF Numeric
    <2> QED
      BY <1>2, <1>3, <2>1, <2>4, <2>5, <2>6 DEF Kept, b
  <1> QED
    BY <1>4, <1>5

(* The ledger stays the beginning of what is open.                         *)
LEMMA StoredFollows ==
    ASSUME IInv, run.pc = "committing", Stored, kind \in Csv, Sound(run), run.verdict = "ok",
           begun' = run.opened
    PROVE  Slice(ledger', 0, run.body)
  <1> DEFINE b == run.batch
  <1>1. /\ World /\ Shape(run) /\ Fits(b) /\ CsvRun(run) /\ CsvOpen(run) /\ CsvBatch(run)
    BY BatchFits DEF IInv, Active, Running, CsvRun, Open, Holding, Handling
  <1>2. \/ b.start = NoCheckpoint /\ ledger' = b.rows /\ begun' = run.opened
        \/ b.start # NoCheckpoint /\ ledger' = ledger \o b.rows /\ begun' = begun
    BY DEF Stored
  <1>3. Slice(b.rows, Numeric(b.start), run.body)
    BY <1>1 DEF CsvBatch, CsvRun
  <1> HIDE DEF b
  <1>4. b.rows \in Seq(Row) /\ ledger \in Seq(Row) /\ run.body \in Seq(Row)
    BY <1>1 DEF World, Shape, Fits
  <1>5. CASE b.start = NoCheckpoint
    BY <1>2, <1>3, <1>5 DEF Numeric
  <1>6. CASE b.start # NoCheckpoint
    <2>1. Slice(ledger, 0, run.body) /\ Len(ledger) = Numeric(b.start)
      BY <1>1, <1>2, <1>6 DEF CsvOpen, Fits
    <2> QED
      BY <1>2, <1>3, <1>4, <1>6, <2>1, SliceConcat
  <1> QED
    BY <1>5, <1>6

LEMMA Committed ==
    ASSUME IInv, CommitBatch
    PROVE  IInv'
  <1> DEFINE b == run.batch
  <1>1. /\ World /\ Shape(run) /\ Running(run) /\ Going(run) /\ Fits(b)
        /\ run.pc = "committing" /\ Stored /\ UNCHANGED worldVars
    BY BatchFits DEF CommitBatch, IInv, Active, Running
  <1>2. /\ World' /\ Kept' /\ status' = status /\ checkpoint' = b.next /\ begun' <= run.opened
    BY <1>1, StoredFits
  <1>3. kind' = kind /\ changes' = changes /\ source' = source
    BY <1>1 DEF worldVars
  <1>4. b.next \in Nat \/ (kind = "single" /\ b.next = Finished)
    BY <1>1 DEF Fits
  <1> HIDE DEF b
  <1>5. /\ DOMAIN run' = DOMAIN NoRun
        /\ run'.pc = "delivered" /\ run'.place = run.place + Len(run.group)
        /\ run'.local = b.next /\ run'.expected = b.next
        /\ run'.consumed = IF kind \in Csv THEN b.next ELSE run.consumed
        /\ run'.position = run.position /\ run'.group = run.group
        /\ run'.verdict = run.verdict /\ run'.opened = run.opened /\ run'.body = run.body
        /\ run'.total = run.total /\ run'.batch = run.batch
        /\ run'.complete = run.complete /\ run'.raised = run.raised
    BY <1>1 DEF CommitBatch, Shape, NoRun, b
  <1>6. Ended'
    BY <1>5 DEF Ended
  <1>7. Shape(run)'
    BY <1>1, <1>4, <1>5 DEF Shape, Control, Checkpoint, Csv
  <1>8. Going(run)'
    BY <1>1, <1>2, <1>3, <1>5 DEF Going
  <1>9. ASSUME kind = "offset" PROVE OffsetRun(run)'
    <2>1. OffsetRun(run) /\ b.next = run.position + Len(run.group) /\ b.next \in Nat
      BY <1>1, <1>4, <1>9 DEF Running, OffsetRun, Handling, b
    <2>2. Numeric(b.next) = b.next
      BY <2>1, CheckpointAssumption DEF Numeric
    <2> QED
      BY <1>1, <1>2, <1>3, <1>5, <2>1, <2>2 DEF OffsetRun, Holding, Handling
  <1>10. ASSUME kind = "single" PROVE SingleRun(run)'
    <2>1. SingleRun(run) /\ b.next = Finished
      BY <1>1, <1>10 DEF Running, Fits
    <2> QED
      BY <1>1, <1>2, <1>3, <1>5, <2>1 DEF SingleRun, Holding, Handling
  <1>11. ASSUME kind \in Csv PROVE CsvRun(run)'
    <2>1. CsvRun(run) /\ CsvOpen(run) /\ CsvBatch(run) /\ b.next \in Nat /\ b.next = run.position
      BY <1>1, <1>4, <1>11 DEF Running, CsvRun, Open, Holding, Handling, CsvBatch, Csv, b
    <2>2. Numeric(b.next) = b.next
      BY <2>1, CheckpointAssumption DEF Numeric
    <2>3. Sound(run) /\ run.verdict = "ok" /\ begun' = run.opened => Slice(ledger', 0, run.body)
      BY <1>1, <1>11, StoredFollows
    <2>4. Sound(run)' <=> Sound(run)
      BY <1>3, <1>5 DEF Sound
    <2>5. CsvOpen(run)'
      BY <1>2, <1>3, <1>5, <2>1, <2>3, <2>4 DEF CsvOpen
    <2>6. run.position = run.place + Len(run.group)
      BY <1>1, <2>1 DEF CsvRun
    <2>7. run'.place = run'.consumed /\ run'.position = run'.place + 0 /\ run'.place <= run'.consumed
      BY <1>1, <1>5, <1>11, <2>1, <2>6 DEF Shape
    <2> QED
      BY <1>1, <1>3, <1>5, <1>11, <2>1, <2>2, <2>5, <2>7 DEF CsvRun, Open, Holding, Handling
  <1> QED
    BY <1>2, <1>3, <1>6, <1>7, <1>8, <1>9, <1>10, <1>11 DEF IInv, Running, Csv

(* A lost answer: the batch may be stored all the same.                     *)
LEMMA CommitFailed ==
    ASSUME IInv, CommitFails
    PROVE  IInv'
  <1>1. CASE UNCHANGED storeVars
    BY <1>1, HandlerFailed DEF CommitFails
  <1>2. CASE Stored
    <2>1. run.pc = "committing" /\ UNCHANGED worldVars /\ HandlerFails("storage")
      BY DEF CommitFails, HandlerFails
    <2>2. World' /\ Kept'
      BY <1>2, <2>1, StoredFits
    <2>3. Shape(run)' /\ run'.pc = "failing"
      BY <2>1 DEF IInv, Shape, HandlerFails, Control
    <2> QED
      BY <2>2, <2>3 DEF IInv, Ended, Active
  <1> QED
    BY <1>1, <1>2 DEF CommitFails

------------------------------------------------------------------------------
(* After a batch: the next one, or the end.                                 *)

(* The last batch leaves nothing to be stored.                              *)
LEMMA LastIsWhole ==
    ASSUME IInv, run.pc = "delivered",
           kind = "offset" => run.position + Len(run.group) = run.total,
           kind \in Csv => run.complete
    PROVE  Whole
  <1>1. World /\ Shape(run) /\ Kept /\ Running(run) /\ Going(run)
    BY DEF IInv, Active, Running
  <1> SUFFICES ASSUME begun = changes PROVE Len(ledger) = Len(source)
    BY DEF Whole
  <1>2. CASE kind = "offset"
    <2>1. /\ OffsetRun(run) /\ run.local = checkpoint /\ begun <= run.opened
          /\ run.opened = changes => run.total = Len(source)
      BY <1>1, <1>2 DEF Running, OffsetRun, Holding
    <2>2. run.opened = changes
      BY <1>1, <2>1 DEF World, Shape, Going
    <2>3. Numeric(run.local) = run.position + Len(run.group)
      BY <2>1 DEF OffsetRun
    <2> QED
      BY <1>1, <1>2, <2>1, <2>2, <2>3 DEF Kept
  <1>3. CASE kind = "single"
    BY <1>1, <1>3 DEF Running, SingleRun, Kept
  <1>4. CASE kind \in Csv
    <2>1. /\ CsvRun(run) /\ CsvOpen(run) /\ begun <= run.opened
          /\ run.verdict = "ok" /\ run.position >= Len(run.body)
      BY <1>1, <1>4 DEF Running, CsvRun, CsvOpen, Open, Holding
    <2>2. run.opened = changes
      BY <1>1, <2>1 DEF World, Shape, Going
    <2>3. Len(run.body) = Len(source)
      BY <2>1, <2>2 DEF CsvOpen
    <2>4. Numeric(run.local) >= Len(source)
      <3>1. run.position = run.place + 0 /\ run.place <= Numeric(run.local)
        BY <2>1 DEF CsvRun
      <3>2. run.position \in Nat /\ run.place \in Nat /\ Numeric(run.local) \in Nat
        BY <1>1, <2>1 DEF CsvRun, Shape
      <3> QED
        BY <1>1, <2>1, <2>3, <3>1, <3>2 DEF World
    <2>5. Len(ledger) <= Len(source)
      BY <1>1, SliceLength DEF Kept, World
    <2>6. CASE run.local = checkpoint
      <3>1. Len(ledger) = Numeric(run.local)
        BY <1>1, <1>4, <2>6 DEF Kept, Csv
      <3> QED
        BY <1>1, <2>4, <2>5, <3>1 DEF World
    <2>7. CASE run.local = NoCheckpoint
      <3>1. 0 >= Len(source)
        BY <2>4, <2>7 DEF Numeric
      <3> QED
        BY <1>1, <2>5, <3>1 DEF World
    <2> QED
      BY <1>1, <2>6, <2>7 DEF Going
  <1> QED
    BY <1>1, <1>2, <1>3, <1>4 DEF World, Csv

LEMMA WentOn ==
    ASSUME IInv, AfterBatch
    PROVE  IInv'
  <1> DEFINE last == CASE kind = "offset" -> run.position + Len(run.group) = run.total
                       [] kind = "single" -> TRUE
                       [] OTHER -> run.complete
             label == IF last THEN "finishing"
                      ELSE IF kind \in Csv THEN "reading" ELSE "opening"
             place == IF kind = "offset" THEN run.position + Len(run.group) ELSE run.position
  <1>1. /\ World /\ Shape(run) /\ Kept /\ Ended /\ Running(run) /\ Going(run)
        /\ run.pc = "delivered"
    BY DEF AfterBatch, IInv, Active, Running
  <1>2. CASE run.aborted /\ kind \in Http
    BY <1>2, Failed DEF AfterBatch, Give
  <1>3. CASE kind = "httpCsv" /\ run.timedOut /\ ~run.aborted
    BY <1>3, Failed DEF AfterBatch, Give
  <1>4. CASE /\ ~(run.aborted /\ kind \in Http)
             /\ ~(kind = "httpCsv" /\ run.timedOut /\ ~run.aborted)
    <2>1. /\ run' = [run EXCEPT !.pc = label, !.position = place, !.group = <<>>]
          /\ UNCHANGED <<worldVars, storeVars>>
      BY <1>4 DEF AfterBatch
    <2>2. /\ kind' = kind /\ changes' = changes /\ checkpoint' = checkpoint /\ source' = source
          /\ begun' = begun /\ ledger' = ledger /\ status' = status
      BY <2>1 DEF worldVars, storeVars
    <2>3. /\ kind = "offset" => (last <=> run.position + Len(run.group) = run.total)
          /\ kind = "single" => last
          /\ kind \in Csv => (last <=> run.complete)
      BY DEF Csv
    <2>4. label = "finishing" => Whole
      BY <1>1, <2>3, LastIsWhole
    <2>5. /\ label = "finishing" <=> last
          /\ ~last => label = IF kind \in Csv THEN "reading" ELSE "opening"
      OBVIOUS
    <2>6. place \in Nat /\ (kind # "offset" => place = run.position)
          /\ (kind = "offset" => place = run.position + Len(run.group))
      BY <1>1 DEF Shape
    <2> HIDE DEF last, label, place
    <2>7. /\ DOMAIN run' = DOMAIN NoRun
          /\ run'.pc = label /\ run'.place = run.place
          /\ run'.local = run.local /\ run'.expected = run.expected
          /\ run'.consumed = run.consumed /\ run'.position = place /\ run'.group = <<>>
          /\ run'.verdict = run.verdict /\ run'.opened = run.opened /\ run'.body = run.body
          /\ run'.total = run.total /\ run'.batch = run.batch
          /\ run'.complete = run.complete /\ run'.raised = run.raised
      BY <1>1, <2>1 DEF Shape, NoRun
    <2>8. label \in {"finishing", "reading", "opening"} /\ Len(<<>>) = 0 /\ <<>> \in Seq(Row)
      BY <2>5
    <2>9. World' /\ Kept'
      BY <1>1, <2>2 DEF World, Kept, Numeric
    <2>10. Ended'
      BY <2>2, <2>4, <2>7, <2>8 DEF Ended, Whole
    <2>11. Shape(run)'
      BY <1>1, <2>6, <2>7, <2>8 DEF Shape, Control
    <2>12. Going(run)'
      BY <1>1, <2>2, <2>5, <2>7, <2>8 DEF Going
    <2>13. ASSUME kind = "offset" PROVE OffsetRun(run)'
      <3>1. OffsetRun(run) /\ Numeric(run.local) = place
        BY <1>1, <2>6, <2>13 DEF Running, OffsetRun
      <3> QED
        BY <2>2, <2>6, <2>7, <2>8, <3>1 DEF OffsetRun, Holding, Handling
    <2>14. ASSUME kind = "single" PROVE SingleRun(run)'
      BY <2>3, <2>5, <2>7, <2>14 DEF SingleRun, Holding, Handling
    <2>15. ASSUME kind \in Csv PROVE CsvRun(run)'
      <3>1. CsvRun(run) /\ CsvOpen(run) /\ place = run.position
        BY <1>1, <2>6, <2>15 DEF Running, CsvRun, Open, Holding, Csv
      <3>2. run.position = run.place + 0
        BY <1>1, <3>1 DEF CsvRun
      <3>3. CsvOpen(run)'
        BY <2>2, <2>7, <2>8, <3>1, SliceEmpty DEF CsvOpen, Sound
      <3>4. label \in Open /\ label \notin Handling /\ label # "delivered"
            /\ (label = "finishing" => run.complete)
        BY <2>3, <2>5, <2>8, <2>15 DEF Open, Handling
      <3> QED
        BY <2>2, <2>7, <2>8, <3>1, <3>2, <3>3, <3>4 DEF CsvRun
    <2> QED
      BY <2>2, <2>9, <2>10, <2>11, <2>12, <2>13, <2>14, <2>15 DEF IInv, Running, Csv
  <1> QED
    BY <1>2, <1>3, <1>4

------------------------------------------------------------------------------
LEMMA NextLemma == IInv /\ [Next]_vars => IInv'
  <1> SUFFICES ASSUME IInv, [Next]_vars PROVE IInv'
    OBVIOUS
  <1>1. CASE UNCHANGED vars
    <2>1. UNCHANGED <<worldVars, storeVars, run>>
      BY <1>1 DEF vars
    <2> QED
      BY <2>1 DEF IInv, World, Shape, Kept, Ended, Whole, Active, Running, Going, OffsetRun,
                  SingleRun, CsvRun, CsvOpen, CsvBatch, Sound, Slice, Numeric, worldVars, storeVars
  <1>2. CASE StartRun
    BY <1>2, Started
  <1>3. CASE Proceed
    <2>1. \/ AuthenticationFails \/ RequestCutOff \/ StreamFails \/ ReadAborted
          \/ OpenSource \/ RowsExhausted \/ Transform \/ TransformThrows \/ Transformed
          \/ HandlerAborted
          \/ DownloadVerified \/ FileVerified
          \/ Deliver \/ CommitBatch \/ CommitFails \/ AfterBatch
          \/ FinishRun \/ RecordFailure
      BY <1>3 DEF Proceed
    <2> QED
      BY <2>1, GivingUp, Working, Sealed, Delivered, Committed, CommitFailed, WentOn, Leaving
  <1>4. CASE Answer
    <2>1. \/ FetchFails \/ ResponseRefused \/ FileRefused \/ MalformedRow \/ RowTooLarge
          \/ OffsetAnswered \/ SingleAnswered \/ ResponseOpened \/ FileOpened
          \/ ReadRow \/ BatchFull
      BY <1>4 DEF Answer
    <2> QED
      BY <2>1, GivingUp, PageCame, AllCame, SourceOpened, RowRead, Working
  <1>5. CASE SourceChanges
    BY <1>5, Changed
  <1>6. CASE Crash \/ Abort \/ Timeout
    BY <1>6, Leaving, Working
  <1> QED
    BY <1>1, <1>2, <1>3, <1>4, <1>5, <1>6 DEF Next

(* The ledger and what is open stay as described, through every request,     *)
(* row, batch, failure, crash, cancellation and change of the source.       *)
THEOREM Invariance == Spec => []IInv
  BY InitLemma, NextLemma, PTL DEF Spec

(* While the source is as it was when the traversal began, the rows           *)
(* committed are its first rows, each once, and all of them after a completed *)
(* run: for every content, batch size and number of failed, cancelled and     *)
(* resumed runs, whatever collectorFor has to skip.                         *)
THEOREM RowsAreExact == Spec => []TraversalIsExact
  <1>1. IInv => TraversalIsExact
    <2> SUFFICES ASSUME IInv, begun = changes
                 PROVE  /\ IsPrefix(ledger, source)
                        /\ status \in Completed /\ run.pc = "idle" => ledger = source
      BY DEF TraversalIsExact
    <2>1. ledger \in Seq(Row) /\ source \in Seq(Row) /\ Slice(ledger, 0, source)
      BY DEF IInv, World, Kept
    <2>2. status \in Completed /\ run.pc = "idle" => Len(ledger) = Len(source)
      BY DEF IInv, Ended, Whole
    <2> QED
      BY <2>1, <2>2, SliceLength
  <1> QED
    BY <1>1, Invariance, PTL

(* A CSV completes only on the rows of one verified content.                *)
THEOREM OneContent == Spec => []OneSnapshot
  <1>1. IInv => OneSnapshot
    <2> SUFFICES ASSUME IInv, run.pc = "finishing", kind \in Csv, begun = run.opened
                 PROVE  run.verdict = "ok" /\ ledger = run.body
      BY DEF OneSnapshot
    <2>1. /\ World /\ Shape(run) /\ Kept /\ Going(run) /\ CsvRun(run) /\ CsvOpen(run)
          /\ run.complete /\ run.group = <<>>
      BY DEF IInv, Active, Running, CsvRun, Open
    <2>2. run.verdict = "ok" /\ run.position >= Len(run.body) /\ Slice(ledger, 0, run.body)
      BY <2>1 DEF CsvOpen, Sound
    <2>3. Len(ledger) <= Len(run.body) /\ (Len(ledger) = Len(run.body) => ledger = run.body)
      BY <2>1, <2>2, SliceLength DEF World, Shape
    <2>4. Numeric(run.local) >= Len(run.body)
      <3>1. run.position = run.place + 0 /\ run.place <= Numeric(run.local)
        BY <2>1 DEF CsvRun
      <3>2. run.position \in Nat /\ run.place \in Nat /\ Numeric(run.local) \in Nat
            /\ Len(run.body) \in Nat
        BY <2>1 DEF CsvRun, Shape
      <3> QED
        BY <2>2, <3>1, <3>2
    <2>5. Len(ledger) = Len(run.body)
      <3>1. Len(ledger) \in Nat /\ Len(run.body) \in Nat
        BY <2>1 DEF World, Shape
      <3>2. Numeric(run.local) = Len(ledger) \/ Numeric(run.local) = 0
        BY <2>1 DEF Going, Kept, Numeric, Csv
      <3> QED
        BY <2>3, <2>4, <3>1, <3>2
    <2> QED
      BY <2>2, <2>3, <2>5
  <1> QED
    BY <1>1, Invariance, PTL

(* Every batch starts at the checkpoint the runner holds.                   *)
THEOREM BatchesAlwaysChain == Spec => []BatchesChain
  <1>1. IInv => BatchesChain
    BY DEF IInv, Shape, BatchesChain
  <1> QED
    BY <1>1, Invariance, PTL

------------------------------------------------------------------------------
(* The records of one batch.  Of the batches h that were handed over and the  *)
(* buffer b, k are the keys and l the relations.                            *)

Batch == [keys : Seq(RecordKey), links : Seq(Link), bytes : Nat]

KeysIn(h) == UNION {ToSet(h[i].keys) : i \in DOMAIN h}
LinksIn(h) == UNION {ToSet(h[i].links) : i \in DOMAIN h}

(* The texts of a set of keys.                                             *)
TextsOf(k) == {Scoped(key) : key \in k}

(* No text of a key is in two places.                                      *)
Apart(h) ==
    \A b, c \in DOMAIN h : \A i \in DOMAIN h[b].keys, j \in DOMAIN h[c].keys :
        Scoped(h[b].keys[i]) = Scoped(h[c].keys[j]) => b = c /\ i = j

Held(h, b, k, l) ==
    /\ h \in Seq(Batch) /\ b \in Batch
    /\ Apart(h) /\ IsInjective(Texts(b.keys))
    /\ TextsOf(KeysIn(h)) \intersect TextsOf(ToSet(b.keys)) = {}
    /\ k = KeysIn(h) \union ToSet(b.keys)
    /\ l = LinksIn(h) \union ToSet(b.links)

(* The output of this row was fit to be taken, and is in k and l.           *)
Taken(row, k, l) ==
    /\ ~Malformed(Output[row]) /\ ~TooLarge(Output[row])
    /\ ToSet(Output[row].keys) \subseteq k
    /\ ToSet(Output[row].links) \subseteq l

Consistent(k, l, rows) ==
    /\ \A link \in l : TextsOf(ToSet(link)) \subseteq TextsOf(k)
    /\ \A key \in k : \E row \in rows : key \in ToSet(Output[row].keys) /\ Taken(row, k, l)
    /\ \A link \in l : \E row \in rows : link \in ToSet(Output[row].links) /\ Taken(row, k, l)

Records == KeysIn(handed) \union ToSet(buffer.keys)
Relations == LinksIn(handed) \union ToSet(buffer.links)

(* What is left to do of the rows of the batch, and what was done.          *)
Progress(rows) ==
    /\ todo \in Seq(Row) /\ accepted \in Nat /\ issues \in Nat
    /\ accepted + issues + Len(todo) = Len(rows)
    /\ ToSet(todo) \subseteq ToSet(rows)
    /\ seen = TextsOf(Records)
    /\ Held(handed, buffer, Records, Relations)
    /\ Consistent(Records, Relations, ToSet(rows))

TInv ==
    run.pc \in Handling =>
        /\ Progress(run.batch.rows)
        /\ run.pc = "committing" => todo = <<>> /\ Empty(buffer)

(* Sequences, and what is in them.                                         *)
LEMMA ConcatAt ==
    ASSUME NEW T, NEW a \in Seq(T), NEW b \in Seq(T)
    PROVE  /\ a \o b \in Seq(T) /\ DOMAIN (a \o b) = 1..(Len(a) + Len(b))
           /\ DOMAIN a = 1..Len(a) /\ DOMAIN b = 1..Len(b)
           /\ Len(a) \in Nat /\ Len(b) \in Nat
           /\ \A i \in 1..Len(a) : (a \o b)[i] = a[i]
           /\ \A i \in 1..Len(b) : (a \o b)[Len(a) + i] = b[i]
           /\ \A i \in 1..(Len(a) + Len(b)) :
                i \in 1..Len(a) \/ (i - Len(a) \in 1..Len(b) /\ (a \o b)[i] = b[i - Len(a)])
  OBVIOUS

LEMMA ConcatSet ==
    ASSUME NEW T, NEW a \in Seq(T), NEW b \in Seq(T)
    PROVE  ToSet(a \o b) = ToSet(a) \union ToSet(b)
  <1>1. ASSUME NEW x \in ToSet(a \o b) PROVE x \in ToSet(a) \union ToSet(b)
    <2>1. PICK i \in DOMAIN (a \o b) : x = (a \o b)[i]
      BY DEF ToSet
    <2>. QED  BY <2>1, ConcatAt DEF ToSet
  <1>2. ASSUME NEW x \in ToSet(a) PROVE x \in ToSet(a \o b)
    <2>1. PICK i \in DOMAIN a : x = a[i]
      BY DEF ToSet
    <2>2. i \in DOMAIN (a \o b) /\ (a \o b)[i] = x
      BY <2>1, ConcatAt
    <2>. QED  BY <2>2, Zenon DEF ToSet
  <1>3. ASSUME NEW x \in ToSet(b) PROVE x \in ToSet(a \o b)
    <2>1. PICK i \in DOMAIN b : x = b[i]
      BY DEF ToSet
    <2>2. Len(a) + i \in DOMAIN (a \o b) /\ (a \o b)[Len(a) + i] = x
      BY <2>1, ConcatAt
    <2>. QED  BY <2>2, Zenon DEF ToSet
  <1>. QED  BY <1>1, <1>2, <1>3

LEMMA ConcatInjective ==
    ASSUME NEW T, NEW a \in Seq(T), NEW b \in Seq(T),
           IsInjective(Texts(a)), IsInjective(Texts(b)),
           TextsOf(ToSet(a)) \intersect TextsOf(ToSet(b)) = {}
    PROVE  IsInjective(Texts(a \o b))
  <1>. DEFINE c == a \o b
  <1>. SUFFICES ASSUME NEW i \in DOMAIN c, NEW j \in DOMAIN c, Scoped(c[i]) = Scoped(c[j])
                PROVE  i = j
    BY DEF IsInjective, Texts
  <1>a. \A k, m \in DOMAIN a : Scoped(a[k]) = Scoped(a[m]) => k = m
    BY DEF IsInjective, Texts
  <1>b. \A k, m \in DOMAIN b : Scoped(b[k]) = Scoped(b[m]) => k = m
    BY DEF IsInjective, Texts
  <1>0. ASSUME NEW k \in 1..Len(a), NEW m \in 1..Len(b) PROVE Scoped(a[k]) # Scoped(b[m])
    <2>1. a[k] \in ToSet(a) /\ b[m] \in ToSet(b)
      BY DEF ToSet
    <2>2. Scoped(a[k]) \in TextsOf(ToSet(a)) /\ Scoped(b[m]) \in TextsOf(ToSet(b))
      BY <2>1, Zenon DEF TextsOf
    <2>. QED  BY <2>2
  <1>1. /\ i \in 1..(Len(a) + Len(b)) /\ j \in 1..(Len(a) + Len(b))
        /\ Len(a) \in Nat /\ Len(b) \in Nat
    BY ConcatAt
  <1>2. CASE i \in 1..Len(a) /\ j \in 1..Len(a)
    BY <1>a, <1>2, ConcatAt
  <1>3. CASE i \in 1..Len(a) /\ j \notin 1..Len(a)
    BY <1>0, <1>1, <1>3, ConcatAt
  <1>4. CASE i \notin 1..Len(a) /\ j \in 1..Len(a)
    BY <1>0, <1>1, <1>4, ConcatAt
  <1>5. CASE i \notin 1..Len(a) /\ j \notin 1..Len(a)
    <2>1. /\ i - Len(a) \in DOMAIN b /\ j - Len(a) \in DOMAIN b
          /\ Scoped(b[i - Len(a)]) = Scoped(b[j - Len(a)])
      BY <1>1, <1>5, ConcatAt
    <2>2. i - Len(a) = j - Len(a)
      BY <1>b, <2>1
    <2>. QED  BY <1>1, <2>2
  <1>. QED  BY <1>2, <1>3, <1>4, <1>5

(* The texts of a sequence of keys are those of its keys.                   *)
LEMMA TextsSet ==
    ASSUME NEW T, NEW a \in Seq(T)
    PROVE  ToSet(Texts(a)) = TextsOf(ToSet(a))
  BY DEF ToSet, Texts, TextsOf

(* One batch more.                                                         *)
LEMMA AppendedKeys ==
    ASSUME NEW h \in Seq(Batch), NEW b \in Batch
    PROVE  /\ h \o <<b>> \in Seq(Batch) /\ DOMAIN (h \o <<b>>) = 1..(Len(h) + 1)
           /\ Len(h) \in Nat /\ DOMAIN h = 1..Len(h) /\ (h \o <<b>>)[Len(h) + 1] = b
           /\ \A i \in 1..Len(h) : (h \o <<b>>)[i] = h[i]
           /\ KeysIn(h \o <<b>>) = KeysIn(h) \union ToSet(b.keys)
           /\ LinksIn(h \o <<b>>) = LinksIn(h) \union ToSet(b.links)
  <1>1. <<b>> \in Seq(Batch) /\ Len(<<b>>) = 1 /\ <<b>>[1] = b
    OBVIOUS
  <1>2. /\ h \o <<b>> \in Seq(Batch) /\ DOMAIN (h \o <<b>>) = 1..(Len(h) + 1)
        /\ Len(h) \in Nat /\ DOMAIN h = 1..Len(h) /\ (h \o <<b>>)[Len(h) + 1] = b
        /\ \A i \in 1..Len(h) : (h \o <<b>>)[i] = h[i]
    BY <1>1, ConcatAt
  <1>. DEFINE g == h \o <<b>>
  <1>3. /\ DOMAIN g = 1..(Len(h) + 1) /\ g[Len(h) + 1] = b
        /\ \A i \in 1..Len(h) : g[i] = h[i]
    BY <1>2
  <1>4. \A i \in 1..(Len(h) + 1) : i \in 1..Len(h) \/ i = Len(h) + 1
    BY <1>2
  <1>5. \A i \in 1..Len(h) : i \in 1..(Len(h) + 1)
    BY <1>2
  <1>6. Len(h) + 1 \in 1..(Len(h) + 1)
    BY <1>2
  <1>. HIDE DEF g
  <1>7. KeysIn(g) = KeysIn(h) \union ToSet(b.keys)
    BY <1>2, <1>3, <1>4, <1>5, <1>6, Zenon DEF KeysIn
  <1>8. LinksIn(g) = LinksIn(h) \union ToSet(b.links)
    BY <1>2, <1>3, <1>4, <1>5, <1>6, Zenon DEF LinksIn
  <1>. QED  BY <1>2, <1>7, <1>8 DEF g

(* flush: nothing is lost, and nothing is there twice.                      *)
LEMMA FlushKeeps ==
    ASSUME NEW h, NEW b, NEW k, NEW l, Held(h, b, k, l), NEW g, g = h \o Flushed(b)
    PROVE  Held(g, Rest(b), k, l) /\ Empty(Rest(b))
  <1>1. /\ h \in Seq(Batch) /\ b \in Batch /\ Apart(h) /\ IsInjective(Texts(b.keys))
        /\ TextsOf(KeysIn(h)) \intersect TextsOf(ToSet(b.keys)) = {}
        /\ k = KeysIn(h) \union ToSet(b.keys) /\ l = LinksIn(h) \union ToSet(b.links)
    BY DEF Held
  <1>2. /\ EmptyBuffer \in Batch /\ ToSet(EmptyBuffer.keys) = {} /\ ToSet(EmptyBuffer.links) = {}
        /\ TextsOf({}) = {} /\ IsInjective(Texts(EmptyBuffer.keys)) /\ Empty(EmptyBuffer)
    BY DEF EmptyBuffer, Batch, ToSet, IsInjective, Texts, TextsOf, Empty
  <1>3. CASE Empty(b)
    <2>1. g = h /\ Rest(b) = b
      BY <1>1, <1>3 DEF Flushed, Rest
    <2>. QED  BY <1>3, <2>1
  <1>4. CASE ~Empty(b)
    <2>1. g = h \o <<b>> /\ Rest(b) = EmptyBuffer
      BY <1>4 DEF Flushed, Rest
    <2>2. /\ g \in Seq(Batch) /\ DOMAIN g = 1..(Len(h) + 1)
          /\ Len(h) \in Nat /\ DOMAIN h = 1..Len(h) /\ g[Len(h) + 1] = b
          /\ \A i \in 1..Len(h) : g[i] = h[i]
          /\ KeysIn(g) = k /\ LinksIn(g) = l
      BY <1>1, <2>1, AppendedKeys
    <2>3. \A n \in DOMAIN g : n \in DOMAIN h \/ n = Len(h) + 1
      BY <2>2
    <2>4. ASSUME NEW n \in DOMAIN h, NEW i \in DOMAIN h[n].keys, NEW j \in DOMAIN b.keys
          PROVE  Scoped(h[n].keys[i]) # Scoped(b.keys[j])
      <3>1. h[n].keys[i] \in ToSet(h[n].keys) /\ b.keys[j] \in ToSet(b.keys)
        BY Zenon DEF ToSet
      <3>2. h[n].keys[i] \in KeysIn(h)
        BY <3>1, Zenon DEF KeysIn
      <3>3. /\ Scoped(h[n].keys[i]) \in TextsOf(KeysIn(h))
            /\ Scoped(b.keys[j]) \in TextsOf(ToSet(b.keys))
        BY <3>1, <3>2, Zenon DEF TextsOf
      <3>. QED  BY <1>1, <3>3
    <2>5. Apart(g)
      <3>. SUFFICES ASSUME NEW n \in DOMAIN g, NEW m \in DOMAIN g,
                           NEW i \in DOMAIN g[n].keys, NEW j \in DOMAIN g[m].keys,
                           Scoped(g[n].keys[i]) = Scoped(g[m].keys[j])
                    PROVE  n = m /\ i = j
        BY DEF Apart
      <3>1. CASE n \in DOMAIN h /\ m \in DOMAIN h
        BY <1>1, <2>2, <3>1 DEF Apart
      <3>2. CASE n \in DOMAIN h /\ m = Len(h) + 1
        BY <2>2, <2>4, <3>2
      <3>3. CASE n = Len(h) + 1 /\ m \in DOMAIN h
        BY <2>2, <2>4, <3>3
      <3>4. CASE n = Len(h) + 1 /\ m = Len(h) + 1
        <4>1. /\ i \in DOMAIN Texts(b.keys) /\ j \in DOMAIN Texts(b.keys)
              /\ Texts(b.keys)[i] = Texts(b.keys)[j]
          BY <2>2, <3>4 DEF Texts
        <4>. QED  BY <1>1, <3>4, <4>1 DEF IsInjective
      <3>. QED  BY <2>3, <3>1, <3>2, <3>3, <3>4
    <2>6. TextsOf(KeysIn(g)) \intersect TextsOf(ToSet(EmptyBuffer.keys)) = {}
      BY <1>2
    <2>. QED  BY <1>2, <2>1, <2>2, <2>5, <2>6 DEF Held
  <1>. QED  BY <1>3, <1>4

LEMMA BatchMade ==
    ASSUME NEW k \in Seq(RecordKey), NEW l \in Seq(Link), NEW n \in Nat, NEW c,
           c = [keys |-> k, links |-> l, bytes |-> n]
    PROVE  c \in Batch /\ c.keys = k /\ c.links = l
  BY DEF Batch

(* An output joins the buffer.                                             *)
LEMMA GrowKeeps ==
    ASSUME NEW h, NEW b, NEW k, NEW l, Held(h, b, k, l), NEW row \in Row,
           ~RepeatsKey(Output[row]), seen = TextsOf(k),
           NEW keys, keys = b.keys \o Output[row].keys,
           NEW links, links = b.links \o Output[row].links,
           NEW bytes, bytes = b.bytes + Output[row].bytes,
           NEW c, c = [keys |-> keys, links |-> links, bytes |-> bytes]
    PROVE  Held(h, c, k \union ToSet(Output[row].keys), l \union ToSet(Output[row].links))
  <1>. DEFINE out == Output[row]
  <1>1. /\ h \in Seq(Batch) /\ b \in Batch /\ Apart(h) /\ IsInjective(Texts(b.keys))
        /\ TextsOf(KeysIn(h)) \intersect TextsOf(ToSet(b.keys)) = {}
        /\ k = KeysIn(h) \union ToSet(b.keys) /\ l = LinksIn(h) \union ToSet(b.links)
    BY DEF Held
  <1>2. out.keys \in Seq(RecordKey) /\ out.links \in Seq(Link) /\ out.bytes \in Nat
    BY OutputAssumption
  <1>3. b.keys \in Seq(RecordKey) /\ b.links \in Seq(Link) /\ b.bytes \in Nat
    BY <1>1 DEF Batch
  <1>4. IsInjective(Texts(out.keys)) /\ TextsOf(ToSet(out.keys)) \intersect TextsOf(k) = {}
    BY <1>2, TextsSet DEF RepeatsKey
  <1>. HIDE DEF out
  <1>5. keys = b.keys \o out.keys /\ links = b.links \o out.links /\ bytes = b.bytes + out.bytes
    BY DEF out
  <1>6. c \in Batch /\ c.keys = b.keys \o out.keys /\ c.links = b.links \o out.links
    <2>1. keys \in Seq(RecordKey) /\ links \in Seq(Link)
      BY <1>2, <1>3, <1>5, ConcatAt
    <2>2. bytes \in Nat
      BY <1>2, <1>3, <1>5
    <2>3. c \in Batch /\ c.keys = keys /\ c.links = links
      BY <2>1, <2>2, BatchMade
    <2>. QED  BY <1>5, <2>3
  <1>7. /\ ToSet(c.keys) = ToSet(b.keys) \union ToSet(out.keys)
        /\ ToSet(c.links) = ToSet(b.links) \union ToSet(out.links)
    <2>1. ToSet(b.keys \o out.keys) = ToSet(b.keys) \union ToSet(out.keys)
      BY <1>2, <1>3, ConcatSet
    <2>2. ToSet(b.links \o out.links) = ToSet(b.links) \union ToSet(out.links)
      BY <1>2, <1>3, ConcatSet
    <2>. QED  BY <1>6, <2>1, <2>2, Zenon
  <1>8. IsInjective(Texts(c.keys)) /\ TextsOf(KeysIn(h)) \intersect TextsOf(ToSet(c.keys)) = {}
    <2>1. /\ TextsOf(k) = TextsOf(KeysIn(h)) \union TextsOf(ToSet(b.keys))
          /\ TextsOf(ToSet(c.keys)) = TextsOf(ToSet(b.keys)) \union TextsOf(ToSet(out.keys))
      BY <1>1, <1>7, Zenon DEF TextsOf
    <2>2. TextsOf(ToSet(b.keys)) \intersect TextsOf(ToSet(out.keys)) = {}
      BY <1>4, <2>1
    <2>3. IsInjective(Texts(b.keys \o out.keys))
      BY <1>1, <1>2, <1>3, <1>4, <2>2, ConcatInjective
    <2>. QED  BY <1>1, <1>4, <1>6, <2>1, <2>3
  <1>9. Held(h, c, k \union ToSet(out.keys), l \union ToSet(out.links))
    BY <1>1, <1>6, <1>7, <1>8 DEF Held
  <1>. QED  BY <1>9 DEF out

(* What is consistent stays so when a row is taken that points nowhere else. *)
LEMMA TakenIsConsistent ==
    ASSUME NEW s, NEW l, NEW rows, Consistent(s, l, rows), NEW row \in rows, row \in Row,
           seen = TextsOf(s), ~Rejected(Output[row])
    PROVE  Consistent(s \union ToSet(Output[row].keys), l \union ToSet(Output[row].links), rows)
  <1>. DEFINE k == s \union ToSet(Output[row].keys)
              m == l \union ToSet(Output[row].links)
  <1>1. /\ ~Malformed(Output[row]) /\ ~TooLarge(Output[row]) /\ ~LinksNowhere(Output[row])
    BY DEF Rejected
  <1>2. Taken(row, k, m)
    BY <1>1 DEF Taken
  <1>3. \A r : Taken(r, s, l) => Taken(r, k, m)
    BY DEF Taken
  <1>0. TextsOf(k) = seen \union ToSet(Texts(Output[row].keys))
    <2>1. Output[row].keys \in Seq(RecordKey)
      BY OutputAssumption
    <2>2. ToSet(Texts(Output[row].keys)) = TextsOf(ToSet(Output[row].keys))
      BY <2>1, TextsSet
    <2>3. TextsOf(k) = TextsOf(s) \union TextsOf(ToSet(Output[row].keys))
      BY Zenon DEF TextsOf
    <2>. QED  BY <2>2, <2>3
  <1>4. ASSUME NEW link \in ToSet(Output[row].links) PROVE TextsOf(ToSet(link)) \subseteq TextsOf(k)
    <2>1. PICK i \in DOMAIN Output[row].links : link = Output[row].links[i]
      BY DEF ToSet
    <2>2. ToSet(Texts(link)) \subseteq TextsOf(k)
      BY <1>0, <1>1, <2>1 DEF LinksNowhere
    <2>3. TextsOf(ToSet(link)) \subseteq ToSet(Texts(link))
      BY Zenon DEF TextsOf, ToSet, Texts
    <2>. QED  BY <2>2, <2>3
  <1>. HIDE DEF Taken
  <1>5. \A link \in m : TextsOf(ToSet(link)) \subseteq TextsOf(k)
    <2>1. TextsOf(s) \subseteq TextsOf(k)
      BY Zenon DEF TextsOf
    <2>. QED  BY <1>4, <2>1 DEF Consistent
  <1>6. \A key \in k : \E r \in rows : key \in ToSet(Output[r].keys) /\ Taken(r, k, m)
    BY <1>2, <1>3 DEF Consistent
  <1>7. \A link \in m : \E r \in rows : link \in ToSet(Output[r].links) /\ Taken(r, k, m)
    BY <1>2, <1>3 DEF Consistent
  <1>. QED  BY <1>5, <1>6, <1>7 DEF Consistent

(* The output of a row is taken.                                           *)
LEMMA TakenKeeps ==
    ASSUME NEW k, NEW l, Held(handed, buffer, k, l), seen = TextsOf(k), NEW row \in Row,
           ~RepeatsKey(Output[row]), TakeOutput(Output[row])
    PROVE  /\ seen' = TextsOf(k \union ToSet(Output[row].keys))
           /\ Held(handed', buffer', k \union ToSet(Output[row].keys),
                   l \union ToSet(Output[row].links))
           /\ accepted' = accepted + 1 /\ issues' = issues
  <1>. DEFINE out == Output[row]
              before == IF NeedsRoom(out) THEN Flushed(buffer) ELSE <<>>
              base == IF NeedsRoom(out) THEN Rest(buffer) ELSE buffer
              grown == [keys |-> base.keys \o out.keys, links |-> base.links \o out.links,
                        bytes |-> base.bytes + out.bytes]
              after == IF Full(grown) THEN Flushed(grown) ELSE <<>>
              m == l \union ToSet(out.links)
              n == k \union ToSet(out.keys)
              room == handed \o before
  <1>1. /\ handed' = room \o after
        /\ buffer' = IF Full(grown) THEN Rest(grown) ELSE grown
        /\ seen' = seen \union ToSet(Texts(out.keys))
        /\ accepted' = accepted + 1 /\ issues' = issues
    BY DEF TakeOutput
  <1>2. \A h \in Seq(Batch) : h \o <<>> = h
    OBVIOUS
  <1>3. Held(room, base, k, l)
    <2>1. CASE NeedsRoom(out)
      <3>1. room = handed \o Flushed(buffer) /\ base = Rest(buffer)
        BY <2>1
      <3>. HIDE DEF room, base
      <3>. QED  BY <3>1, FlushKeeps
    <2>2. CASE ~NeedsRoom(out)
      <3>1. handed \in Seq(Batch)
        BY DEF Held
      <3>2. room = handed /\ base = buffer
        BY <1>2, <2>2, <3>1
      <3>. HIDE DEF room, base
      <3>. QED  BY <3>2
    <2>. QED  BY <2>1, <2>2
  <1>4. Held(room, grown, n, m)
    <2>. DEFINE c == grown
                keys == base.keys \o Output[row].keys
                links == base.links \o Output[row].links
                bytes == base.bytes + Output[row].bytes
    <2>1. /\ keys = base.keys \o Output[row].keys /\ links = base.links \o Output[row].links
          /\ bytes = base.bytes + Output[row].bytes
          /\ c = [keys |-> keys, links |-> links, bytes |-> bytes]
      OBVIOUS
    <2>. HIDE DEF room, base, c, keys, links, bytes
    <2>2. Held(room, c, k \union ToSet(Output[row].keys), l \union ToSet(Output[row].links))
      BY <1>3, <2>1, GrowKeeps
    <2>. QED  BY <2>2 DEF c
  <1>. HIDE DEF grown, room
  <1>5. Held(handed', buffer', n, m)
    <2>1. CASE Full(grown)
      <3>1. handed' = room \o Flushed(grown) /\ buffer' = Rest(grown)
        BY <1>1, <2>1
      <3>. HIDE DEF m, n
      <3>. QED  BY <1>4, <3>1, FlushKeeps
    <2>2. CASE ~Full(grown)
      <3>1. room \in Seq(Batch)
        BY <1>4 DEF Held
      <3>2. handed' = room /\ buffer' = grown
        BY <1>1, <1>2, <2>2, <3>1
      <3>. QED  BY <1>4, <3>2
    <2>. QED  BY <2>1, <2>2
  <1>6. seen' = TextsOf(n)
    <2>1. out.keys \in Seq(RecordKey)
      BY OutputAssumption
    <2>2. ToSet(Texts(out.keys)) = TextsOf(ToSet(out.keys))
      BY <2>1, TextsSet
    <2>3. TextsOf(n) = TextsOf(k) \union TextsOf(ToSet(out.keys))
      BY Zenon DEF TextsOf
    <2>. QED  BY <1>1, <2>2, <2>3
  <1>. QED  BY <1>1, <1>5, <1>6

(* The keys and relations are what Held says of them.                       *)
LEMMA HeldParts ==
    ASSUME NEW h, NEW b, NEW k, NEW l, Held(h, b, k, l)
    PROVE  k = KeysIn(h) \union ToSet(b.keys) /\ l = LinksIn(h) \union ToSet(b.links)
  BY DEF Held

LEMMA RowsLeft ==
    ASSUME NEW t \in Seq(Row), t # <<>>
    PROVE  /\ Head(t) \in Row /\ Head(t) \in ToSet(t)
           /\ Tail(t) \in Seq(Row) /\ Len(Tail(t)) = Len(t) - 1 /\ Len(t) \in Nat
           /\ ToSet(Tail(t)) \subseteq ToSet(t)
  <1>1. /\ Len(t) \in Nat \ {0} /\ DOMAIN t = 1..Len(t) /\ Head(t) = t[1]
        /\ Tail(t) \in Seq(Row) /\ Len(Tail(t)) = Len(t) - 1
        /\ \A i \in 1..(Len(t) - 1) : i + 1 \in 1..Len(t) /\ Tail(t)[i] = t[i + 1]
    OBVIOUS
  <1>2. 1 \in DOMAIN t
    BY <1>1
  <1>3. ASSUME NEW x \in ToSet(Tail(t)) PROVE x \in ToSet(t)
    <2>1. PICK i \in 1..(Len(t) - 1) : x = Tail(t)[i]
      BY <1>1 DEF ToSet
    <2>2. i + 1 \in DOMAIN t /\ x = t[i + 1]
      BY <1>1, <2>1
    <2>. QED  BY <2>2, Zenon DEF ToSet
  <1>. QED  BY <1>1, <1>2, <1>3 DEF ToSet

(* One row, taken or isolated whole.                                        *)
LEMMA RowTransformed ==
    ASSUME NEW rows, rows \in Seq(Row), Progress(rows), TransformRow \/ TransformInterrupted
    PROVE  /\ todo' \in Seq(Row) /\ accepted' \in Nat /\ issues' \in Nat
           /\ accepted' + issues' + Len(todo') = Len(rows)
           /\ ToSet(todo') \subseteq ToSet(rows)
           /\ seen' = TextsOf(Records')
           /\ Held(handed', buffer', Records', Relations')
           /\ Consistent(Records', Relations', ToSet(rows))
  <1>. DEFINE row == Head(todo)
  <1>1. /\ todo \in Seq(Row) /\ accepted \in Nat /\ issues \in Nat
        /\ accepted + issues + Len(todo) = Len(rows) /\ Len(rows) \in Nat
        /\ ToSet(todo) \subseteq ToSet(rows) /\ seen = TextsOf(Records)
        /\ Held(handed, buffer, Records, Relations)
        /\ Consistent(Records, Relations, ToSet(rows))
    BY DEF Progress
  <1>2. todo # <<>> /\ todo' = Tail(todo)
    BY DEF TransformRow, TransformInterrupted
  <1>3. /\ row \in Row /\ row \in ToSet(rows)
        /\ todo' \in Seq(Row) /\ Len(todo') = Len(todo) - 1 /\ Len(todo) \in Nat
        /\ ToSet(todo') \subseteq ToSet(rows)
    BY <1>1, <1>2, RowsLeft
  <1>4. CASE IsolateOutput
    <2>1. issues' = issues + 1 /\ UNCHANGED <<buffer, seen, handed, accepted>>
      BY <1>4 DEF IsolateOutput
    <2>2. Records' = Records /\ Relations' = Relations
      BY <2>1 DEF Records, Relations
    <2>3. accepted' + issues' + Len(todo') = Len(rows) /\ accepted' \in Nat /\ issues' \in Nat
      BY <1>1, <1>3, <2>1
    <2>. QED  BY <1>1, <1>3, <2>1, <2>2, <2>3
  <1>5. CASE TakeOutput(Output[row]) /\ ~Rejected(Output[row])
    <2>. DEFINE k == Records \union ToSet(Output[row].keys)
                l == Relations \union ToSet(Output[row].links)
    <2>1. ~RepeatsKey(Output[row])
      BY <1>5 DEF Rejected
    <2>. HIDE DEF row
    <2>2. /\ seen' = TextsOf(k)
          /\ Held(handed', buffer', k, l)
          /\ accepted' = accepted + 1 /\ issues' = issues
      BY <1>1, <1>3, <1>5, <2>1, TakenKeeps
    <2>3. Consistent(k, l, ToSet(rows))
      BY <1>1, <1>3, <1>5, TakenIsConsistent
    <2>4. k = Records' /\ l = Relations'
      <3>. HIDE DEF k, l
      <3>1. k = KeysIn(handed') \union ToSet(buffer'.keys) /\ l = LinksIn(handed') \union ToSet(buffer'.links)
        BY <2>2, HeldParts
      <3>. QED  BY <3>1 DEF Records, Relations, KeysIn, LinksIn
    <2>5. accepted' + issues' + Len(todo') = Len(rows) /\ accepted' \in Nat /\ issues' \in Nat
      BY <1>1, <1>3, <2>2
    <2>. HIDE DEF k, l
    <2>. QED  BY <1>3, <2>2, <2>3, <2>4, <2>5
  <1>6. IsolateOutput \/ (TakeOutput(Output[row]) /\ ~Rejected(Output[row]))
    BY DEF TransformRow, TransformInterrupted
  <1>. QED  BY <1>4, <1>5, <1>6

------------------------------------------------------------------------------
(* The steps that touch the rows of the batch, and the others.              *)

(* Outside the handler nothing is said of the batch.                        *)
LEMMA NotHandling ==
    ASSUME run'.pc \notin Handling
    PROVE  TInv'
  BY DEF TInv

LEMMA BatchKept ==
    ASSUME TInv, run'.pc = run.pc, run'.batch = run.batch, UNCHANGED transformVars
    PROVE  TInv'
  <1>1. /\ todo' = todo /\ handed' = handed /\ buffer' = buffer /\ seen' = seen
        /\ accepted' = accepted /\ issues' = issues
    BY DEF transformVars
  <1>2. Records' = Records /\ Relations' = Relations
    BY <1>1 DEF Records, Relations
  <1>3. Progress(run.batch.rows) <=> Progress(run.batch.rows)'
    BY <1>1, <1>2 DEF Progress
  <1>. QED  BY <1>1, <1>3 DEF TInv, Empty

LEMMA TransformedRow ==
    ASSUME IInv, TInv, Transform \/ TransformThrows
    PROVE  TInv'
  <1>1. /\ run.pc = "transforming" /\ run' = run
        /\ TransformRow \/ TransformInterrupted
    BY DEF Transform, TransformThrows
  <1>2. Progress(run.batch.rows) /\ run.batch.rows \in Seq(Row)
    BY <1>1 DEF IInv, Shape, TInv, Handling
  <1>. DEFINE rows == run.batch.rows
  <1>3. /\ todo' \in Seq(Row) /\ accepted' \in Nat /\ issues' \in Nat
        /\ accepted' + issues' + Len(todo') = Len(rows)
        /\ ToSet(todo') \subseteq ToSet(rows)
        /\ seen' = TextsOf(Records')
        /\ Held(handed', buffer', Records', Relations')
        /\ Consistent(Records', Relations', ToSet(rows))
    BY <1>1, <1>2, RowTransformed
  <1>4. Progress(rows)'
    BY <1>1, <1>3 DEF Progress, Held, Consistent, Taken
  <1>. QED  BY <1>1, <1>4 DEF TInv

LEMMA TransformOver ==
    ASSUME IInv, TInv, Transformed
    PROVE  TInv'
  <1>. DEFINE rows == run.batch.rows
  <1>1. /\ run.pc = "transforming" /\ EndTransform /\ run'.pc = "committing"
        /\ run'.batch = run.batch
    BY DEF Transformed, IInv, Shape, NoRun
  <1>2. Progress(rows)
    BY <1>1 DEF TInv, Handling
  <1>3. /\ todo = <<>> /\ handed' = handed \o Flushed(buffer) /\ buffer' = Rest(buffer)
        /\ UNCHANGED <<todo, seen, accepted, issues>>
    BY <1>1 DEF EndTransform
  <1>4. Held(handed', buffer', Records, Relations) /\ Empty(buffer')
    <2>1. Held(handed, buffer, Records, Relations)
      BY <1>2 DEF Progress
    <2>. QED  BY <1>3, <2>1, FlushKeeps
  <1>5. Records = Records' /\ Relations = Relations'
    <2>1. /\ Records = KeysIn(handed') \union ToSet(buffer'.keys)
          /\ Relations = LinksIn(handed') \union ToSet(buffer'.links)
      BY <1>4, HeldParts
    <2>. QED  BY <2>1 DEF Records, Relations, KeysIn, LinksIn
  <1>6. Progress(rows)'
    BY <1>1, <1>2, <1>3, <1>4, <1>5 DEF Progress, Held, Consistent, Taken
  <1>. QED  BY <1>1, <1>3, <1>4, <1>6 DEF TInv, Empty

(* The start of the handler: nothing is held of the batch yet.              *)
LEMMA TransformBegins ==
    ASSUME IInv, TInv, Deliver, IInv'
    PROVE  TInv'
  <1>1. CASE Skipped
    <2>1. run'.pc = "delivered"
      BY <1>1 DEF Deliver, IInv, Shape, NoRun
    <2>. QED  BY <2>1, NotHandling DEF Handling
  <1>2. CASE ~Skipped /\ \E error : HandlerFails(error)
    <2>1. run'.pc = "failing"
      BY <1>2 DEF HandlerFails, IInv, Shape, NoRun
    <2>. QED  BY <2>1, NotHandling DEF Handling
  <1>3. CASE ~Skipped /\ \E next : /\ run' = [run EXCEPT !.pc = "transforming", !.batch = next]
                                   /\ BeginTransform(next.rows)
    <2>1. PICK next : /\ run' = [run EXCEPT !.pc = "transforming", !.batch = next]
                      /\ BeginTransform(next.rows)
      BY <1>3
    <2>2. run'.pc = "transforming" /\ run'.batch = next
      BY <2>1 DEF IInv, Shape, NoRun
    <2>3. next.rows \in Seq(Row) /\ Len(next.rows) \in Nat
      BY <2>2 DEF IInv, Shape
    <2>4. /\ todo' = next.rows /\ buffer' = EmptyBuffer /\ seen' = {} /\ handed' = <<>>
          /\ accepted' = 0 /\ issues' = 0
      BY <2>1 DEF BeginTransform
    <2>5. /\ EmptyBuffer \in Batch /\ EmptyBuffer.keys = <<>> /\ EmptyBuffer.links = <<>>
          /\ <<>> \in Seq(Batch)
      BY DEF EmptyBuffer, Batch
    <2>6. Records' = {} /\ Relations' = {} /\ TextsOf({}) = {}
      BY <2>4, <2>5 DEF Records, Relations, KeysIn, LinksIn, ToSet, TextsOf
    <2>7. Held(handed', buffer', Records', Relations')
      <3>1. Apart(<<>>) /\ IsInjective(Texts(<<>>)) /\ ToSet(<<>>) = {} /\ KeysIn(<<>>) = {} /\ LinksIn(<<>>) = {}
        BY DEF KeysIn, LinksIn, ToSet, Apart, IsInjective, Texts
      <3>. QED  BY <2>4, <2>5, <2>6, <3>1 DEF Held
    <2>8. Consistent(Records', Relations', ToSet(next.rows))
      BY <2>4, <2>6 DEF Consistent
    <2>9. Progress(run.batch.rows)'
      <3>1. accepted' + issues' + Len(todo') = Len(next.rows) /\ accepted' \in Nat /\ issues' \in Nat
        BY <2>3, <2>4
      <3>2. run'.batch.rows = next.rows /\ ToSet(todo') \subseteq ToSet(next.rows)
        BY <2>2, <2>4
      <3>. QED  BY <2>3, <2>4, <2>6, <2>7, <2>8, <3>1, <3>2 DEF Progress
    <2>. QED  BY <2>2, <2>9 DEF TInv
  <1>. QED  BY <1>1, <1>2, <1>3 DEF Deliver

(* Every other step leaves the handler, or leaves the batch alone.          *)
LEMMA Elsewhere ==
    ASSUME IInv, TInv,
           \/ StartRun \/ AuthenticationFails \/ OpenSource \/ RequestCutOff
           \/ StreamFails \/ DownloadVerified
           \/ ReadAborted \/ FileVerified \/ RowsExhausted
           \/ HandlerAborted \/ CommitBatch \/ CommitFails
           \/ AfterBatch \/ FinishRun \/ RecordFailure
           \/ Answer \/ SourceChanges \/ Crash \/ Abort \/ Timeout
    PROVE  TInv'
  <1>0. DOMAIN run = DOMAIN NoRun /\ "pc" \in DOMAIN NoRun /\ "batch" \in DOMAIN NoRun
    BY DEF IInv, Shape, NoRun
  <1>1. CASE StartRun
    <2>1. run'.pc \in {"opening", "finishing"}
      BY <1>1 DEF StartRun, NoRun
    <2>. QED  BY <2>1, NotHandling DEF Handling
  <1>2. CASE \E reason, result : Fail(reason, result)
    <2>1. run'.pc = "failing"
      BY <1>0, <1>2 DEF Fail
    <2>. QED  BY <2>1, NotHandling DEF Handling
  <1>3. CASE \E error : HandlerFails(error)
    <2>1. run'.pc = "failing"
      BY <1>0, <1>3 DEF HandlerFails
    <2>. QED  BY <2>1, NotHandling DEF Handling
  <1>4. CASE Leave
    <2>1. run'.pc = "idle"
      BY <1>4 DEF Leave, NoRun
    <2>. QED  BY <2>1, NotHandling DEF Handling
  <1>5. CASE \/ OpenSource \/ DownloadVerified \/ FileVerified \/ RowsExhausted
             \/ CommitBatch \/ AfterBatch
    <2>1. (\E reason, result : Fail(reason, result)) \/ run'.pc \notin Handling
      BY <1>0, <1>5 DEF OpenSource, DownloadVerified, FileVerified, RowsExhausted, CommitBatch,
                        AfterBatch, Goto, Give, Handling
    <2>. QED  BY <1>2, <2>1, NotHandling
  <1>6. CASE Answer
    <2>1. (\E reason, result : Fail(reason, result)) \/ run'.pc \notin Handling
      BY <1>0, <1>6 DEF Answer, FetchFails, OffsetAnswered, SingleAnswered, ResponseRefused,
                        ResponseOpened, FileRefused, FileOpened, MalformedRow, RowTooLarge,
                        ReadRow, RowAhead, TakeRow, BatchFull, Goto, Give, Handling
    <2>. QED  BY <1>2, <2>1, NotHandling
  <1>7. CASE SourceChanges \/ Abort \/ Timeout
    <2>1. run'.pc = run.pc /\ run'.batch = run.batch /\ UNCHANGED transformVars
      BY <1>0, <1>7 DEF SourceChanges, Abort, Timeout
    <2>. QED  BY <2>1, BatchKept
  <1>8. CASE AuthenticationFails \/ RequestCutOff \/ StreamFails \/ ReadAborted
    BY <1>2, <1>8 DEF AuthenticationFails, RequestCutOff, StreamFails, ReadAborted, Give
  <1>9. CASE HandlerAborted \/ CommitFails
    BY <1>3, <1>9 DEF HandlerAborted, CommitFails
  <1>10. CASE FinishRun \/ RecordFailure \/ Crash
    BY <1>2, <1>4, <1>10 DEF FinishRun, RecordFailure, Crash
  <1>. QED  BY <1>1, <1>5, <1>6, <1>7, <1>8, <1>9, <1>10

LEMMA TransformNext == IInv /\ IInv' /\ TInv /\ [Next]_vars => TInv'
  <1>. SUFFICES ASSUME IInv, IInv', TInv, [Next]_vars PROVE TInv'
    OBVIOUS
  <1>1. CASE UNCHANGED vars
    BY <1>1, BatchKept DEF vars
  <1>2. CASE Transform \/ TransformThrows
    BY <1>2, TransformedRow
  <1>3. CASE Transformed
    BY <1>3, TransformOver
  <1>4. CASE Deliver
    BY <1>4, TransformBegins
  <1>5. CASE /\ Next /\ ~Transform /\ ~TransformThrows /\ ~Transformed /\ ~Deliver
    BY <1>5, Elsewhere DEF Next, Proceed
  <1>. QED  BY <1>1, <1>2, <1>3, <1>4, <1>5

(* What a batch holds and has left to do is as described, through every row,  *)
(* flush, interruption and retry.                                           *)
THEOREM BatchInvariance == Spec => [](IInv /\ TInv)
  <1>1. Init => TInv
    BY DEF Init, NoRun, TInv, Handling
  <1>2. IInv /\ TInv /\ [Next]_vars => (IInv /\ TInv)'
    BY NextLemma, TransformNext
  <1>. QED  BY <1>1, <1>2, InitLemma, PTL DEF Spec

(* What is handed to commitBatch belongs together: no text of a key twice, the *)
(* ends of every relation among its records by their texts, every row          *)
(* accepted or isolated and none of it in part; and the storage, which tells   *)
(* numbers from strings, takes it if the transform writes each key in one way  *)
(* and makes nothing no storage holds.  For every transform, batch and limit.  *)
THEOREM CommitsAreSelfContained == Spec => []CommitIsSelfContained
  <1>1. TInv => CommitIsSelfContained
    <2>. DEFINE keys == ToSet(HandedKeys)
                links == ToSet(HandedLinks)
                rows == ToSet(run.batch.rows)
    <2>. SUFFICES ASSUME TInv, run.pc = "committing"
                  PROVE  /\ IsInjective(Texts(HandedKeys))
                         /\ \A end \in HandedEnds : \E key \in keys : Scoped(end) = Scoped(key)
                         /\ accepted + issues = Len(run.batch.rows)
                         /\ \A key \in keys : \E row \in rows :
                                key \in ToSet(Output[row].keys) /\ TakenWhole(row)
                         /\ \A link \in links : \E row \in rows :
                                link \in ToSet(Output[row].links) /\ TakenWhole(row)
                         /\ Regular(rows) => Storable
      BY Zenon DEF CommitIsSelfContained
    <2>1. /\ accepted \in Nat /\ issues \in Nat /\ todo = <<>> /\ Empty(buffer)
          /\ accepted + issues + Len(todo) = Len(run.batch.rows)
          /\ Held(handed, buffer, Records, Relations)
          /\ Consistent(Records, Relations, rows)
      BY DEF TInv, Handling, Progress
    <2>2. ToSet(buffer.keys) = {} /\ ToSet(buffer.links) = {}
      BY <2>1 DEF Empty, ToSet
    <2>3. Apart(handed) /\ Records = KeysIn(handed) /\ Relations = LinksIn(handed)
      BY <2>1, <2>2 DEF Held
    <2>4. keys = Records
      <3>1. ASSUME NEW x \in keys PROVE x \in Records
        <4>1. PICK p \in DOMAIN HandedKeys : x = HandedKeys[p]
          BY DEF ToSet
        <4>2. PICK n \in DOMAIN handed : p \in {n} \X DOMAIN handed[n].keys
          BY <4>1 DEF HandedKeys
        <4>3. p[1] = n /\ p[2] \in DOMAIN handed[n].keys /\ x = handed[n].keys[p[2]]
          BY <4>1, <4>2 DEF HandedKeys
        <4>4. x \in ToSet(handed[n].keys)
          BY <4>3, Zenon DEF ToSet
        <4>. QED  BY <2>3, <4>4, Zenon DEF KeysIn
      <3>2. ASSUME NEW x \in Records PROVE x \in keys
        <4>1. PICK n \in DOMAIN handed : x \in ToSet(handed[n].keys)
          BY <2>3 DEF KeysIn
        <4>2. PICK i \in DOMAIN handed[n].keys : x = handed[n].keys[i]
          BY <4>1 DEF ToSet
        <4>3. <<n, i>> \in DOMAIN HandedKeys /\ HandedKeys[<<n, i>>] = x
          BY <4>2 DEF HandedKeys
        <4>. QED  BY <4>3, Zenon DEF ToSet
      <3>. QED  BY <3>1, <3>2
    <2>5. links = Relations
      <3>1. ASSUME NEW x \in links PROVE x \in Relations
        <4>1. PICK p \in DOMAIN HandedLinks : x = HandedLinks[p]
          BY DEF ToSet
        <4>2. PICK n \in DOMAIN handed : p \in {n} \X DOMAIN handed[n].links
          BY <4>1 DEF HandedLinks
        <4>3. p[1] = n /\ p[2] \in DOMAIN handed[n].links /\ x = handed[n].links[p[2]]
          BY <4>1, <4>2 DEF HandedLinks
        <4>4. x \in ToSet(handed[n].links)
          BY <4>3, Zenon DEF ToSet
        <4>. QED  BY <2>3, <4>4, Zenon DEF LinksIn
      <3>2. ASSUME NEW x \in Relations PROVE x \in links
        <4>1. PICK n \in DOMAIN handed : x \in ToSet(handed[n].links)
          BY <2>3 DEF LinksIn
        <4>2. PICK i \in DOMAIN handed[n].links : x = handed[n].links[i]
          BY <4>1 DEF ToSet
        <4>3. <<n, i>> \in DOMAIN HandedLinks /\ HandedLinks[<<n, i>>] = x
          BY <4>2 DEF HandedLinks
        <4>. QED  BY <4>3, Zenon DEF ToSet
      <3>. QED  BY <3>1, <3>2
    <2>6. IsInjective(Texts(HandedKeys))
      <3>. SUFFICES ASSUME NEW p \in DOMAIN HandedKeys, NEW q \in DOMAIN HandedKeys,
                           Scoped(HandedKeys[p]) = Scoped(HandedKeys[q])
                    PROVE  p = q
        BY DEF IsInjective, Texts
      <3>1. PICK n \in DOMAIN handed : p \in {n} \X DOMAIN handed[n].keys
        BY DEF HandedKeys
      <3>2. PICK m \in DOMAIN handed : q \in {m} \X DOMAIN handed[m].keys
        BY DEF HandedKeys
      <3>3. /\ p = <<n, p[2]>> /\ p[1] = n /\ p[2] \in DOMAIN handed[n].keys
            /\ q = <<m, q[2]>> /\ q[1] = m /\ q[2] \in DOMAIN handed[m].keys
        BY <3>1, <3>2
      <3>4. Scoped(handed[n].keys[p[2]]) = Scoped(handed[m].keys[q[2]])
        BY <3>3 DEF HandedKeys
      <3>5. n = m /\ p[2] = q[2]
        BY <2>3, <3>3, <3>4 DEF Apart
      <3>. QED  BY <3>3, <3>5
    <2>7. \A row : Taken(row, Records, Relations) => TakenWhole(row)
      BY <2>4, <2>5 DEF Taken, TakenWhole
    <2>8. accepted + issues = Len(run.batch.rows)
      BY <2>1
    <2>. HIDE DEF keys, links, rows
    <2>9. /\ \A key \in keys : \E row \in rows :
                key \in ToSet(Output[row].keys) /\ TakenWhole(row)
          /\ \A link \in links : \E row \in rows :
                link \in ToSet(Output[row].links) /\ TakenWhole(row)
      BY <2>1, <2>4, <2>5, <2>7 DEF Consistent
    <2>10. ASSUME NEW end \in HandedEnds PROVE \E key \in keys : Scoped(end) = Scoped(key)
      <3>1. PICK link \in links : end \in ToSet(link)
        BY DEF HandedEnds, links
      <3>2. TextsOf(ToSet(link)) \subseteq TextsOf(keys)
        BY <2>1, <2>4, <2>5 DEF Consistent
      <3>. QED  BY <3>1, <3>2 DEF TextsOf
    <2>11. ASSUME Regular(rows) PROVE Storable
      <3>. DEFINE all == UNION {KeysOf(row) : row \in rows}
      <3>1. keys \subseteq all
        <4>. SUFFICES ASSUME NEW key \in keys PROVE key \in all
          OBVIOUS
        <4>1. PICK row \in rows : key \in ToSet(Output[row].keys)
          BY <2>9
        <4>2. key \in KeysOf(row)
          BY <4>1 DEF KeysOf
        <4>. QED  BY <4>2
      <3>2. ASSUME NEW end \in HandedEnds PROVE end \in all
        <4>1. PICK link \in links : end \in ToSet(link)
          BY DEF HandedEnds, links
        <4>2. PICK row \in rows : link \in ToSet(Output[row].links)
          BY <2>9
        <4>3. end \in KeysOf(row)
          BY <4>1, <4>2 DEF KeysOf
        <4>. QED  BY <4>3
      <3>3. /\ \A k, l \in all : Scoped(k) = Scoped(l) => k = l
            /\ all \intersect Unusable = {} /\ rows \intersect UnusableIssue = {}
        BY <2>11, Zenon DEF Regular
      <3>. HIDE DEF all
      <3>4. HandedEnds \subseteq keys
        BY <2>10, <3>1, <3>2, <3>3
      <3>5. IsInjective(HandedKeys)
        BY <2>6 DEF IsInjective, Texts
      <3>6. (keys \union HandedEnds) \intersect Unusable = {}
        BY <3>1, <3>2, <3>3
      <3>. QED  BY <3>3, <3>4, <3>5, <3>6 DEF Storable, keys, rows
    <2>. QED  BY <2>6, <2>8, <2>9, <2>10, <2>11
  <1>. QED  BY <1>1, BatchInvariance, PTL

=============================================================================
