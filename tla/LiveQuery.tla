------------------------------ MODULE LiveQuery ------------------------------
(***************************************************************************)
(* Lists of a live PostgreSQL source with a watchlist cache:                *)
(* LiveQueryManager of apps/api/src.  A list is a read-only transaction on   *)
(* the source, whose rows other clients change; lists of one key that come   *)
(* while it is under way share its promise, and its result is kept for a     *)
(* while.  Everything between two awaits is one action.                     *)
(*                                                                         *)
(* A key is the page asked for, everything else of the request being equal.  *)
(* A result is the total and how many rows its page has, which make its size. *)
(***************************************************************************)
EXTENDS Integers, Sequences, FiniteSets, SequencesExt

CONSTANTS
    Request,    \* lists that may be under way at once
    NoRequest,  \* no list
    Page,       \* pages that are asked for
    PageSize,   \* limit
    MaxRows,    \* bound: rows of the source
    Ttl,        \* cache.ttlSeconds
    MaxEntries, \* results the cache keeps: 100
    MaxBytes,   \* their bytes: 16 MiB
    MaxTime     \* bound: the clock

Bytes(items) == items + 1

ASSUME RequestAssumption == NoRequest \notin Request
ASSUME PageAssumption == Page \subseteq Nat \ {0} /\ 1 \in Page /\ PageSize \in Nat \ {0}
ASSUME BoundAssumption == {MaxRows, Ttl, MaxTime} \subseteq Nat
(* source.schema.json: maxResponseBytes is at most 16 MiB.                  *)
ASSUME LimitAssumption ==
    MaxEntries \in Nat \ {0} /\ MaxBytes \in Nat /\ MaxBytes >= Bytes(PageSize)

VARIABLES
    cache,      \* the Map of results, in its insertion order
    cacheBytes, \* cacheBytes
    pending,    \* the list under way for each key
    request,    \* where each list is
    rows,       \* rows of the source now
    clock       \* now()

vars == <<cache, cacheBytes, pending, request, rows, clock>>

Idle == [pc |-> "idle", key |-> 1, snapshot |-> 0, items |-> 0]
Entry == [key : Page, total : 0..MaxRows, items : 0..PageSize, expiresAt : 0..(MaxTime + Ttl)]

TypeOK ==
    /\ cache \in Seq(Entry)
    /\ \A i, j \in DOMAIN cache : cache[i].key = cache[j].key => i = j
    /\ cacheBytes \in Nat
    /\ pending \in [Page -> Request \union {NoRequest}]
    /\ request \in [Request -> [pc : {"idle", "count", "page", "finish", "joined"},
                                key : Page, snapshot : 0..MaxRows,
                                items : 0..PageSize]]
    /\ rows \in 0..MaxRows
    /\ clock \in 0..MaxTime

Init ==
    /\ cache = << >>
    /\ cacheBytes = 0
    /\ pending = [k \in Page |-> NoRequest]
    /\ request = [r \in Request |-> Idle]
    /\ rows \in 0..MaxRows
    /\ clock = 0

-----------------------------------------------------------------------------
(* numberedPageInfo: the page that is there, and its rows.                 *)
PageInfo(page, total) == Min({page, Max({1, (total + PageSize - 1) \div PageSize})})
RowsOn(page, total) == Max({0, Min({PageSize, total - (page - 1) * PageSize})})

Fresh(k) == \E i \in DOMAIN cache : cache[i].key = k /\ cache[i].expiresAt > clock

(* list, when the cache has no answer: it joins the list under way, or      *)
(* starts one.                                                             *)
Ask(r, k) ==
    /\ request[r].pc = "idle"
    /\ ~Fresh(k)
    /\ IF pending[k] /= NoRequest
       THEN /\ request' = [request EXCEPT ![r] = [Idle EXCEPT !.pc = "joined", !.key = k]]
            /\ UNCHANGED pending
       ELSE /\ request' = [request EXCEPT ![r] = [Idle EXCEPT !.pc = "count", !.key = k]]
            /\ pending' = [pending EXCEPT ![k] = r]
    /\ UNCHANGED <<cache, cacheBytes, rows, clock>>

(* The transaction is begun and the rows counted: its snapshot is taken.   *)
Count(r) ==
    /\ request[r].pc = "count"
    /\ request' = [request EXCEPT ![r].pc = "page", ![r].snapshot = rows]
    /\ UNCHANGED <<cache, cacheBytes, pending, rows, clock>>

(* Mutant: the page is read as the rows are now.                           *)
ReadPageCommitted(r) ==
    /\ request[r].pc = "page"
    /\ request' = [request EXCEPT ![r].pc = "finish",
         ![r].items = RowsOn(PageInfo(request[r].key, request[r].snapshot), rows)]
    /\ UNCHANGED <<cache, cacheBytes, pending, rows, clock>>

(* The page that is there is read, in the same snapshot.                   *)
ReadPage(r) ==
    /\ request[r].pc = "page"
    /\ request' = [request EXCEPT ![r].pc = "finish",
         ![r].items = RowsOn(PageInfo(request[r].key, request[r].snapshot), request[r].snapshot)]
    /\ UNCHANGED <<cache, cacheBytes, pending, rows, clock>>

-----------------------------------------------------------------------------
KeysOf(entries) == {e.key : e \in ToSet(entries)}

(* The bytes of all results, each the place of its result and its place in it. *)
BytesOf(entries) ==
    Cardinality(UNION {{i} \X (1..Bytes(entries[i].items)) : i \in DOMAIN entries})

(* Mutant: one more result than the cache may keep.                        *)
EvictedTooFew(bytes) ==
    LET Stops(n) == \/ n = Len(cache)
                    \/ /\ Len(cache) - n <= MaxEntries
                       /\ cacheBytes - BytesOf(SubSeq(cache, 1, n)) + bytes <= MaxBytes
    IN CHOOSE n \in 0..Len(cache) : Stops(n) /\ \A m \in 0..(n - 1) : ~Stops(m)

(* How many of the oldest results make place for one of this size.         *)
Evicted(bytes) ==
    LET Stops(n) == \/ n = Len(cache)
                    \/ /\ Len(cache) - n < MaxEntries
                       /\ cacheBytes - BytesOf(SubSeq(cache, 1, n)) + bytes <= MaxBytes
    IN CHOOSE n \in 0..Len(cache) : Stops(n) /\ \A m \in 0..(n - 1) : ~Stops(m)

(* Map.set: a key that is there keeps its place.                           *)
Put(entries, e) ==
    IF e.key \in KeysOf(entries)
    THEN [i \in DOMAIN entries |-> IF entries[i].key = e.key THEN e ELSE entries[i]]
    ELSE Append(entries, e)

(* The lists that wait for the promise of this key are over with it.       *)
Release(k) ==
    /\ pending' = [pending EXCEPT ![k] = NoRequest]
    /\ request' = [r \in Request |->
         IF request[r].pc /= "idle" /\ request[r].key = k THEN Idle ELSE request[r]]

(* The transaction is committed and the result kept and given out.         *)
Finish(r) ==
    LET size == Bytes(request[r].items)
        n == Evicted(size)
    IN /\ request[r].pc = "finish"
       /\ cache' = Put(SubSeq(cache, n + 1, Len(cache)),
            [key |-> request[r].key, total |-> request[r].snapshot,
             items |-> request[r].items, expiresAt |-> clock + Ttl])
       /\ cacheBytes' = cacheBytes - BytesOf(SubSeq(cache, 1, n)) + size
       /\ Release(request[r].key)
       /\ UNCHANGED <<rows, clock>>

(* Mutant: the list under way is forgotten only when it succeeds.          *)
FailStillPending(r) ==
    /\ request[r].pc \in {"count", "page", "finish"}
    /\ request' = [q \in Request |->
         IF request[q].pc /= "idle" /\ request[q].key = request[r].key THEN Idle ELSE request[q]]
    /\ UNCHANGED <<cache, cacheBytes, pending, rows, clock>>

(* No connection, a statement timeout, a transform that fails, a response   *)
(* that is too large: rolled back, and all that wait get the error.         *)
Fail(r) ==
    /\ request[r].pc \in {"count", "page", "finish"}
    /\ Release(request[r].key)
    /\ UNCHANGED <<cache, cacheBytes, rows, clock>>

Write ==
    /\ rows' \in 0..MaxRows \ {rows}
    /\ UNCHANGED <<cache, cacheBytes, pending, request, clock>>

Tick ==
    /\ clock < MaxTime
    /\ clock' = clock + 1
    /\ UNCHANGED <<cache, cacheBytes, pending, request, rows>>

Next ==
    \/ \E r \in Request :
        \/ \E k \in Page : Ask(r, k)
        \/ Count(r) \/ ReadPage(r) \/ Finish(r) \/ Fail(r)
    \/ Write \/ Tick

Spec == Init /\ [][Next]_vars

-----------------------------------------------------------------------------
Working(r) == request[r].pc \in {"count", "page", "finish"}

(* A key is queried once at a time, and whoever is pending or waits for it   *)
(* is so because that one query is still under way: a failed query is not    *)
(* remembered and no list is left behind.                                   *)
OneQueryPerKey ==
    /\ \A k \in Page :
        IF pending[k] = NoRequest THEN \A r \in Request : request[r].pc = "idle" \/ request[r].key /= k
        ELSE Working(pending[k]) /\ request[pending[k]].key = k
    /\ \A r \in Request : Working(r) => pending[request[r].key] = r

(* A page that is given out, now or from the cache, has the rows its own     *)
(* total says it must have, though the source changes and the page asked     *)
(* for may be beyond its end.                                               *)
PageAgreesWithTotal ==
    \A e \in ToSet(cache) :
        /\ e.items = RowsOn(PageInfo(e.key, e.total), e.total)
        /\ e.items = 0 <=> e.total = 0

(* live-postgres-plugin: the cache keeps at most MaxEntries results and      *)
(* MaxBytes bytes.                                                          *)
CacheWithinLimits == Len(cache) <= MaxEntries /\ BytesOf(cache) <= MaxBytes

(* live-postgres-plugin: the limits are what makes the cache drop results.   *)
EvictsOnlyAtLimit ==
    [][\A r \in Request :
        Finish(r) /\ ~(KeysOf(cache) \subseteq KeysOf(cache')) =>
            \/ Len(cache) >= MaxEntries
            \/ BytesOf(cache) + Bytes(request[r].items) > MaxBytes]_vars
=============================================================================
