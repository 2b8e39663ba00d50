--------------------------- MODULE RecordTransform ---------------------------
(***************************************************************************)
(* processRecords of packages/collection-engine: the rows of one collector  *)
(* batch go through the plugin's transform one at a time; what it makes of  *)
(* a row is taken whole or isolated whole, and is handed to the consumer in *)
(* bounded batches.                                                        *)
(*                                                                         *)
(* Output[row] is what the transform returns for a source row:              *)
(*   malformed  the answer or a record of it does not fit the declarations  *)
(*              (or the transform throws)                                  *)
(*   keys       the keys of its records, in order                          *)
(*   links      its relations, pairs of keys                               *)
(*   bytes      its size as JSON                                           *)
(* A key is a pair <<text, kind>>: "type:key" with the key as text, and      *)
(* whether the key is a number or a string.                                *)
(***************************************************************************)
EXTENDS Integers, Sequences, FiniteSets, SequencesExt

CONSTANTS
    Row,            \* rows of the source
    Output,         \* what the transform returns for each of them
    RecordLimit,    \* recordsPerSource and batchRecords: 100
    RelationLimit,  \* relationsPerSource: 200
    ByteLimit       \* outputBytes and batchBytes: 1 MiB

ASSUME LimitAssumption ==
    /\ RecordLimit \in Nat \ {0}
    /\ RelationLimit \in Nat
    /\ ByteLimit \in Nat \ {0}

RecordKey == UNION {ToSet(Output[row].keys) : row \in Row}
Link == UNION {ToSet(Output[row].links) : row \in Row}

(* `${type}:${String(key)}`: a number and its digits become the same text.   *)
Scoped(key) == key[1]
Texts(keys) == [i \in DOMAIN keys |-> Scoped(keys[i])]

ASSUME OutputAssumption ==
    \A row \in Row :
        /\ Output[row].keys \in Seq(RecordKey)
        /\ Output[row].links \in Seq(Link)
        /\ Output[row].bytes \in Nat

VARIABLES
    todo,       \* rows of the collector batch not looked at yet
    buffer,     \* records, relations and bytes not handed over yet
    seen,       \* key texts of the accepted records of this batch
    handed,     \* the batches the consumer got
    accepted,   \* rows whose output was taken
    issues      \* rows that were isolated

transformVars == <<todo, buffer, seen, handed, accepted, issues>>

EmptyBuffer == [keys |-> <<>>, links |-> <<>>, bytes |-> 0]

-----------------------------------------------------------------------------
(* validateOutput.                                                         *)

TooLarge(out) ==
    \/ out.bytes > ByteLimit
    \/ Len(out.keys) > RecordLimit
    \/ Len(out.links) > RelationLimit

(* Mutant: a key is only compared with the keys of the same output.        *)
RepeatsOwnKey(out) == ~IsInjective(Texts(out.keys))

(* DUPLICATE_UNIQUE_KEY                                                    *)
RepeatsKey(out) ==
    \/ ~IsInjective(Texts(out.keys))
    \/ ToSet(Texts(out.keys)) \intersect seen # {}

(* INVALID_RELATION: an end whose text is that of no record of this batch.   *)
LinksNowhere(out) ==
    \E i \in DOMAIN out.links :
        ~(ToSet(Texts(out.links[i])) \subseteq seen \union ToSet(Texts(out.keys)))

(* validateRecord and valueError: the first field of a record that is      *)
(* unknown, missing, of another type, too deep or too long, or an unusable  *)
(* unique key.                                                             *)
Malformed(out) == out.malformed

Rejected(out) ==
    \/ Malformed(out)
    \/ TooLarge(out)
    \/ RepeatsKey(out)
    \/ LinksNowhere(out)

-----------------------------------------------------------------------------
(* The start of processRecords.                                            *)
BeginTransform(rows) ==
    /\ todo' = rows
    /\ buffer' = EmptyBuffer
    /\ seen' = {}
    /\ handed' = <<>>
    /\ accepted' = 0
    /\ issues' = 0

NoTransform ==
    /\ todo = <<>>
    /\ buffer = EmptyBuffer
    /\ seen = {}
    /\ handed = <<>>
    /\ accepted = 0
    /\ issues = 0

Empty(buf) == buf.keys = <<>> /\ buf.links = <<>>

(* What flush hands over: nothing, or everything in the buffer.  It returns  *)
(* at once from an empty buffer, whose bytes stay counted.                  *)
Flushed(buf) == IF Empty(buf) THEN <<>> ELSE <<buf>>
Rest(buf) == IF Empty(buf) THEN buf ELSE EmptyBuffer

(* Does the output have to wait for the buffer to be handed over?  Only    *)
(* records are looked at: relations alone are never handed over first.      *)
NeedsRoom(out) ==
    /\ buffer.keys # <<>>
    /\ \/ Len(buffer.keys) + Len(out.keys) > RecordLimit
       \/ buffer.bytes + out.bytes > ByteLimit

Full(buf) == Len(buf.keys) >= RecordLimit \/ buf.bytes >= ByteLimit

(* The output of the next row is taken, all of it.                         *)
TakeOutput(out) ==
    LET before == IF NeedsRoom(out) THEN Flushed(buffer) ELSE <<>>
        base == IF NeedsRoom(out) THEN Rest(buffer) ELSE buffer
        grown == [keys |-> base.keys \o out.keys,
                  links |-> base.links \o out.links,
                  bytes |-> base.bytes + out.bytes]
        after == IF Full(grown) THEN Flushed(grown) ELSE <<>>
    IN  /\ handed' = handed \o before \o after
        /\ buffer' = IF Full(grown) THEN Rest(grown) ELSE grown
        /\ seen' = seen \union ToSet(Texts(out.keys))
        /\ accepted' = accepted + 1
        /\ issues' = issues

(* The output of the next row is isolated, all of it.                      *)
IsolateOutput ==
    /\ issues' = issues + 1
    /\ UNCHANGED <<buffer, seen, handed, accepted>>

(* One turn of the loop of processRecords.                                 *)
TransformRow ==
    LET out == Output[Head(todo)]
    IN  /\ todo # <<>>
        /\ todo' = Tail(todo)
        /\ IF Rejected(out) THEN IsolateOutput ELSE TakeOutput(out)

(* The transform gives up because the signal fired while it ran.           *)
TransformInterrupted ==
    /\ todo # <<>>
    /\ todo' = Tail(todo)
    /\ IsolateOutput

(* The last flush.                                                         *)
EndTransform ==
    /\ todo = <<>>
    /\ handed' = handed \o Flushed(buffer)
    /\ buffer' = Rest(buffer)
    /\ UNCHANGED <<todo, seen, accepted, issues>>

-----------------------------------------------------------------------------
(* What the runner collects of the batches for one commitBatch, by the       *)
(* batch and the place in it.                                              *)
HandedKeys ==
    [p \in UNION {{b} \X DOMAIN handed[b].keys : b \in DOMAIN handed} |->
        handed[p[1]].keys[p[2]]]
HandedLinks ==
    [p \in UNION {{b} \X DOMAIN handed[b].links : b \in DOMAIN handed} |->
        handed[p[1]].links[p[2]]]

(* The ends of those relations.                                            *)
HandedEnds == UNION {ToSet(link) : link \in ToSet(HandedLinks)}

(* The output of this row was fit to be taken, and all of it is handed over. *)
TakenWhole(row) ==
    LET out == Output[row]
    IN  /\ ~Malformed(out) /\ ~TooLarge(out)
        /\ ToSet(out.keys) \subseteq ToSet(HandedKeys)
        /\ ToSet(out.links) \subseteq ToSet(HandedLinks)

=============================================================================
