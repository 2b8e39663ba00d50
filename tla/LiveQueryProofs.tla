---------------------------- MODULE LiveQueryProofs ----------------------------
(***************************************************************************)
(* Proofs about LiveQuery, for any number of lists and pages, any page size   *)
(* and any limits: a key is queried once at a time, a result has the rows    *)
(* that its total says, and the cache stays within its limits.               *)
(*                                                                         *)
(* cacheBytes may be more than the bytes of the cache, since a result that    *)
(* replaces one of its key is added and the other is not subtracted.  So the *)
(* invariant has an inequality (Bounded), and where everything is evicted    *)
(* the limit holds because one result is never larger.                      *)
(***************************************************************************)
EXTENDS LiveQuery, FiniteSetTheorems, SequenceTheorems, WellFoundedInduction, TLAPS

Slot == [pc : {"idle", "count", "page", "finish", "joined"}, key : Page, snapshot : Nat,
         items : 0..PageSize]

Result == [key : Page, total : Nat, items : 0..PageSize, expiresAt : Int]

Shapes ==
    /\ cache \in Seq(Result)
    /\ pending \in [Page -> Request \union {NoRequest}]
    /\ request \in [Request -> Slot]
    /\ rows \in Nat /\ clock \in Int

(* The rows of a page that is there.                                       *)
OfPage(key, total) == RowsOn(PageInfo(key, total), total)

(* What was read is the page of the snapshot, and so is what is kept of it.  *)
Read ==
    /\ \A r \in Request : request[r].pc = "finish" => request[r].items = OfPage(request[r].key, request[r].snapshot)
    /\ \A i \in DOMAIN cache : cache[i].items = OfPage(cache[i].key, cache[i].total)

(* A key without a list under way has no list at all, another has one.      *)
Served(l) ==
    IF pending[l] = NoRequest THEN \A r \in Request : request[r].pc = "idle" \/ request[r].key # l
    ELSE Working(pending[l]) /\ request[pending[l]].key = l

Distinct(s) == \A i, j \in DOMAIN s : s[i].key = s[j].key => i = j

(* What the counter counts is at least what is there.                      *)
Bounded ==
    /\ Distinct(cache)
    /\ Len(cache) <= MaxEntries
    /\ BytesOf(cache) <= MaxBytes
    /\ cacheBytes \in Int /\ BytesOf(cache) <= cacheBytes

IInv == Shapes /\ OneQueryPerKey /\ Read /\ Bounded

-----------------------------------------------------------------------------
(* Pages.                                                                  *)

LEMMA MinOfTwo ==
    ASSUME NEW a \in Int, NEW b \in Int
    PROVE  Min({a, b}) = IF a <= b THEN a ELSE b
  <1>1. CASE a <= b
    BY <1>1 DEF Min
  <1>2. CASE ~(a <= b)
    BY <1>2 DEF Min
  <1>. QED  BY <1>1, <1>2

LEMMA MaxOfTwo ==
    ASSUME NEW a \in Int, NEW b \in Int
    PROVE  Max({a, b}) = IF a >= b THEN a ELSE b
  <1>1. CASE a >= b
    BY <1>1 DEF Max
  <1>2. CASE ~(a >= b)
    BY <1>2 DEF Max
  <1>. QED  BY <1>1, <1>2

(* The last page begins before the end of a list that is not empty.         *)
LEMMA LastPage ==
    ASSUME NEW total \in Nat
    PROVE  LET q == (total + PageSize - 1) \div PageSize
           IN  /\ q \in Int
               /\ total = 0 => q = 0
               /\ total > 0 => q >= 1 /\ (q - 1) * PageSize < total
  <1>. DEFINE q == (total + PageSize - 1) \div PageSize
  <1>1. PageSize \in Nat /\ PageSize > 0
    BY PageAssumption
  <1>2. q \in Int /\ q * PageSize <= total + PageSize - 1 /\ total + PageSize - 1 < q * PageSize + PageSize
    BY <1>1
  <1>. HIDE DEF q
  <1>3. (q - 1) * PageSize = q * PageSize - PageSize
    BY <1>1, <1>2
  <1>4. q <= 0 => q * PageSize <= 0
    BY <1>1, <1>2
  <1>5. q >= 1 => q * PageSize >= PageSize
    BY <1>1, <1>2
  <1>6. q < 0 => q * PageSize + PageSize <= 0
    BY <1>1, <1>2
  <1>. QED  BY <1>1, <1>2, <1>3, <1>4, <1>5, <1>6 DEF q

LEMMA PagesHaveRows ==
    ASSUME NEW key \in Page, NEW total \in Nat
    PROVE  OfPage(key, total) \in 0..PageSize /\ (OfPage(key, total) = 0 <=> total = 0)
  <1>. DEFINE q == (total + PageSize - 1) \div PageSize
              p == PageInfo(key, total)
  <1>1. PageSize \in Nat /\ PageSize > 0 /\ key \in Nat /\ key >= 1
    BY PageAssumption
  <1>2. /\ q \in Int
        /\ total = 0 => q = 0
        /\ total > 0 => q >= 1 /\ (q - 1) * PageSize < total
    BY LastPage
  <1>3. p = IF key <= (IF 1 >= q THEN 1 ELSE q) THEN key ELSE (IF 1 >= q THEN 1 ELSE q)
    <2>0. p = Min({key, Max({1, q})})
      BY DEF PageInfo
    <2>. HIDE DEF q, p
    <2>1. Max({1, q}) = IF 1 >= q THEN 1 ELSE q
      BY <1>2, MaxOfTwo
    <2>2. Max({1, q}) \in Int
      BY <1>2, <2>1
    <2>. QED  BY <1>1, <2>0, <2>1, <2>2, MinOfTwo
  <1>. HIDE DEF q, p
  <1>4. p \in Int /\ p >= 1 /\ (total = 0 => p = 1) /\ (total > 0 => p <= q)
    BY <1>1, <1>2, <1>3
  <1>5. (p - 1) * PageSize \in Int /\ (total = 0 => (p - 1) * PageSize = 0)
    BY <1>1, <1>4
  <1>6. total > 0 => (p - 1) * PageSize <= (q - 1) * PageSize
    BY <1>1, <1>2, <1>4
  <1>7. (q - 1) * PageSize \in Int
    BY <1>1, <1>2
  <1>. DEFINE rest == total - (p - 1) * PageSize
  <1>8. rest \in Int /\ (total = 0 => rest = 0) /\ (total > 0 => rest > 0)
    BY <1>2, <1>5, <1>6, <1>7
  <1>9. OfPage(key, total) = Max({0, Min({PageSize, rest})})
    BY DEF OfPage, RowsOn, p
  <1>. HIDE DEF rest
  <1>10. Min({PageSize, rest}) = IF PageSize <= rest THEN PageSize ELSE rest
    BY <1>1, <1>8, MinOfTwo
  <1>11. Min({PageSize, rest}) \in Int
    BY <1>1, <1>8, <1>10
  <1>12. OfPage(key, total) = IF 0 >= Min({PageSize, rest}) THEN 0 ELSE Min({PageSize, rest})
    BY <1>9, <1>11, MaxOfTwo
  <1>. QED  BY <1>1, <1>8, <1>10, <1>12

-----------------------------------------------------------------------------
(* The cache.                                                              *)

(* There is always a number of results to evict.                            *)
LEMMA EvictsSome ==
    ASSUME cache \in Seq(Result), NEW STATE size
    PROVE  LET n == Evicted(size)
           IN  /\ n \in 0..Len(cache)
               /\ \/ n = Len(cache)
                  \/ /\ Len(cache) - n < MaxEntries
                     /\ cacheBytes - BytesOf(SubSeq(cache, 1, n)) + size <= MaxBytes
  <1>. DEFINE Stops(n) == \/ n = Len(cache)
                          \/ /\ Len(cache) - n < MaxEntries
                             /\ cacheBytes - BytesOf(SubSeq(cache, 1, n)) + size <= MaxBytes
              S == {n \in 0..Len(cache) : Stops(n)}
              Less == {s \in Nat \X Nat : s[1] < s[2]}
  <1>1. Len(cache) \in Nat
    OBVIOUS
  <1>2. S \subseteq Nat /\ S # {}
    BY <1>1
  <1>3. IsWellFoundedOn(Less, Nat)
    BY NatLessThanWellFounded DEF OpToRel
  <1>4. PICK n \in S : \A m \in S : ~(<<m, n>> \in Less)
    <2>. HIDE DEF S, Less
    <2>. QED  BY <1>2, <1>3, WFMin
  <1>5. ASSUME NEW m \in 0..(n - 1) PROVE ~Stops(m)
    <2>. HIDE DEF Stops
    <2>1. m \in 0..Len(cache) /\ <<m, n>> \in Less
      BY <1>1
    <2>. QED  BY <1>4, <2>1
  <1>6. n \in 0..Len(cache) /\ Stops(n)
    OBVIOUS
  <1>. HIDE DEF Stops, S, Less
  <1>7. \E x \in 0..Len(cache) : Stops(x) /\ \A m \in 0..(x - 1) : ~Stops(m)
    BY <1>5, <1>6
  <1>. DEFINE chosen == CHOOSE x \in 0..Len(cache) : Stops(x) /\ \A m \in 0..(x - 1) : ~Stops(m)
  <1>8. chosen \in 0..Len(cache) /\ Stops(chosen)
    BY <1>7
  <1>9. Evicted(size) = chosen
    BY DEF Evicted, Stops
  <1>. HIDE DEF chosen
  <1>. QED  BY <1>8, <1>9 DEF Stops

(* What is in the cache after a result is put there was there, or is it.     *)
LEMMA Kept ==
    ASSUME cache \in Seq(Result), NEW STATE n, n \in 0..Len(cache), NEW STATE e, e \in Result
    PROVE  LET s == Put(SubSeq(cache, n + 1, Len(cache)), e)
           IN  /\ s \in Seq(Result)
               /\ \A i \in DOMAIN s : s[i] = e \/ \E j \in DOMAIN cache : s[i] = cache[j]
  <1>. DEFINE t == SubSeq(cache, n + 1, Len(cache))
  <1>1. /\ t \in Seq(Result) /\ Len(cache) \in Nat
        /\ \A i \in DOMAIN t : i + n \in DOMAIN cache /\ t[i] = cache[i + n]
    <2>1. Len(cache) \in Nat /\ n \in Nat
      OBVIOUS
    <2>2. \A i \in (n + 1)..Len(cache) : i \in 1..Len(cache)
      BY <2>1
    <2>3. t \in Seq(Result)
      BY <2>1, <2>2, SubSeqProperties
    <2>4. /\ Len(t) = IF n + 1 <= Len(cache) THEN Len(cache) - (n + 1) + 1 ELSE 0
          /\ \A i \in 1..Len(t) : t[i] = cache[(n + 1) + i - 1]
      BY <2>1, <2>2, SubSeqProperties
    <2>. HIDE DEF t
    <2>5. DOMAIN t = 1..Len(t) /\ DOMAIN cache = 1..Len(cache)
      BY <2>3
    <2>6. ASSUME NEW i \in DOMAIN t PROVE i + n \in DOMAIN cache /\ t[i] = cache[i + n]
      <3>1. i \in 1..Len(t) /\ i \in Int /\ (n + 1) + i - 1 = i + n
        BY <2>1, <2>5
      <3>2. t[i] = cache[i + n]
        BY <2>4, <3>1
      <3>3. i + n \in 1..Len(cache)
        BY <2>1, <2>4, <3>1
      <3>. QED  BY <2>5, <3>2, <3>3
    <2>. QED  BY <2>1, <2>3, <2>6
  <1>. HIDE DEF t
  <1>2. CASE e.key \in KeysOf(t)
    <2>1. Put(t, e) = [i \in DOMAIN t |-> IF t[i].key = e.key THEN e ELSE t[i]]
      BY <1>2 DEF Put
    <2>2. Put(t, e) \in Seq(Result)
      <3>1. DOMAIN t = 1..Len(t) /\ Len(t) \in Nat /\ \A i \in 1..Len(t) : t[i] \in Result
        BY <1>1
      <3>2. Put(t, e) \in [1..Len(t) -> Result]
        BY <2>1, <3>1
      <3>. QED  BY <3>1, <3>2
    <2>. QED  BY <1>1, <2>1, <2>2 DEF t
  <1>3. CASE e.key \notin KeysOf(t)
    <2>1. Put(t, e) = Append(t, e)
      BY <1>3 DEF Put
    <2>2. Append(t, e) \in Seq(Result)
      BY <1>1
    <2>3. \A i \in DOMAIN Append(t, e) : Append(t, e)[i] = e \/ (i \in DOMAIN t /\ Append(t, e)[i] = t[i])
      BY <1>1
    <2>. QED  BY <1>1, <2>1, <2>2, <2>3 DEF t
  <1>. QED  BY <1>2, <1>3

-----------------------------------------------------------------------------
(* The bytes of the cache.                                                 *)

Cells(s) == UNION {{i} \X (1..Bytes(s[i].items)) : i \in DOMAIN s}

LEMMA CellsIn ==
    ASSUME NEW s, NEW x
    PROVE  x \in Cells(s) <=>
                \E i \in DOMAIN s, b \in Int : b \in 1..Bytes(s[i].items) /\ x = <<i, b>>
  BY DEF Cells

LEMMA OneResult ==
    ASSUME NEW p, NEW e \in Result
    PROVE  /\ IsFiniteSet({p} \X (1..Bytes(e.items)))
           /\ Cardinality({p} \X (1..Bytes(e.items))) = Bytes(e.items)
           /\ Bytes(e.items) \in Nat
  <1>1. Bytes(e.items) \in Nat
    BY PageAssumption DEF Bytes, Result
  <1>. DEFINE n == Bytes(e.items)
  <1>. HIDE DEF n
  <1>2. IsFiniteSet({p}) /\ Cardinality({p}) = 1
    BY FS_Singleton
  <1>3. IsFiniteSet(1..n) /\ Cardinality(1..n) = n
    BY <1>1, FS_Interval DEF n
  <1>4. /\ IsFiniteSet({p} \X (1..n))
        /\ Cardinality({p} \X (1..n)) = Cardinality({p}) * Cardinality(1..n)
    BY <1>2, <1>3, FS_Product
  <1>5. Cardinality({p} \X (1..n)) = n
    BY <1>1, <1>2, <1>3, <1>4 DEF n
  <1>. QED  BY <1>1, <1>4, <1>5 DEF n

LEMMA CellsFinite ==
    ASSUME NEW s \in Seq(Result)
    PROVE  IsFiniteSet(Cells(s)) /\ BytesOf(s) = Cardinality(Cells(s)) /\ BytesOf(s) \in Nat
  <1>. DEFINE T == {{i} \X (1..Bytes(s[i].items)) : i \in DOMAIN s}
              f == [i \in DOMAIN s |-> {i} \X (1..Bytes(s[i].items))]
  <1>1. IsFiniteSet(DOMAIN s)
    <2>1. DOMAIN s = 1..Len(s) /\ Len(s) \in Nat
      OBVIOUS
    <2>. QED  BY <2>1, FS_Interval
  <1>2. f \in Surjection(DOMAIN s, T)
    BY DEF Surjection
  <1>3. IsFiniteSet(T)
    BY <1>1, <1>2, FS_Surjection
  <1>4. \A i \in DOMAIN s : s[i] \in Result
    OBVIOUS
  <1>5. \A i \in DOMAIN s : IsFiniteSet({i} \X (1..Bytes(s[i].items)))
    BY <1>4, OneResult
  <1>6. IsFiniteSet(Cells(s))
    BY <1>3, <1>5, FS_UNION DEF Cells
  <1>7. BytesOf(s) = Cardinality(Cells(s))
    BY DEF BytesOf, Cells
  <1>. QED  BY <1>6, <1>7, FS_CardinalityType

LEMMA NoBytes == BytesOf(<< >>) = 0
  <1>1. DOMAIN << >> = {}
    OBVIOUS
  <1>2. Cells(<< >>) = {}
    BY <1>1 DEF Cells
  <1>. QED  BY <1>2, FS_EmptySet DEF BytesOf, Cells

(* Where s differs from t in one place at most, it is larger by that result  *)
(* at most.                                                                *)
LEMMA OneLarger ==
    ASSUME NEW s \in Seq(Result), NEW t \in Seq(Result), NEW p, NEW e \in Result,
           \A i \in DOMAIN s : IF i = p THEN s[i] = e ELSE i \in DOMAIN t /\ s[i] = t[i]
    PROVE  BytesOf(s) <= BytesOf(t) + Bytes(e.items)
  <1>. DEFINE new == {p} \X (1..Bytes(e.items))
  <1>1. IsFiniteSet(new) /\ Cardinality(new) = Bytes(e.items) /\ Bytes(e.items) \in Nat
    BY OneResult
  <1>2. /\ IsFiniteSet(Cells(s)) /\ BytesOf(s) = Cardinality(Cells(s)) /\ BytesOf(s) \in Nat
        /\ IsFiniteSet(Cells(t)) /\ BytesOf(t) = Cardinality(Cells(t)) /\ BytesOf(t) \in Nat
    BY CellsFinite
  <1>3. Cells(s) \subseteq Cells(t) \union new
    <2>. SUFFICES ASSUME NEW x \in Cells(s) PROVE x \in Cells(t) \union new
      OBVIOUS
    <2>1. PICK i \in DOMAIN s, b \in Int : b \in 1..Bytes(s[i].items) /\ x = <<i, b>>
      BY CellsIn
    <2>2. CASE i = p
      BY <2>1, <2>2
    <2>3. CASE i # p
      <3>1. i \in DOMAIN t /\ s[i] = t[i]
        BY <2>3
      <3>2. b \in 1..Bytes(t[i].items)
        BY <2>1, <3>1
      <3>. QED  BY <2>1, <3>1, <3>2, CellsIn
    <2>. QED  BY <2>2, <2>3
  <1>. HIDE DEF new
  <1>4. /\ IsFiniteSet(Cells(t) \union new)
        /\ Cardinality(Cells(t) \union new) =
            Cardinality(Cells(t)) + Cardinality(new) - Cardinality(Cells(t) \intersect new)
    BY <1>1, <1>2, FS_Union
  <1>5. Cardinality(Cells(t) \intersect new) \in Nat
    BY <1>1, <1>2, FS_Intersection, FS_CardinalityType
  <1>6. Cardinality(Cells(s)) <= Cardinality(Cells(t) \union new)
    BY <1>3, <1>4, FS_Subset
  <1>7. Cardinality(Cells(t) \union new) \in Nat
    BY <1>4, FS_CardinalityType
  <1>. QED  BY <1>1, <1>2, <1>4, <1>5, <1>6, <1>7

(* A sequence is no smaller than the two parts it is cut into.              *)
LEMMA TwoParts ==
    ASSUME NEW s \in Seq(Result), NEW n \in 0..Len(s), NEW a \in Seq(Result),
           NEW c \in Seq(Result),
           \A i \in DOMAIN a : i <= n /\ i \in DOMAIN s /\ a[i] = s[i],
           \A i \in DOMAIN c : i + n \in DOMAIN s /\ c[i] = s[i + n]
    PROVE  BytesOf(a) + BytesOf(c) <= BytesOf(s)
  <1>0. \A i \in DOMAIN c : i \in Nat /\ i > 0
    OBVIOUS
  <1>1. /\ IsFiniteSet(Cells(s)) /\ BytesOf(s) = Cardinality(Cells(s)) /\ BytesOf(s) \in Nat
        /\ IsFiniteSet(Cells(a)) /\ BytesOf(a) = Cardinality(Cells(a)) /\ BytesOf(a) \in Nat
        /\ IsFiniteSet(Cells(c)) /\ BytesOf(c) = Cardinality(Cells(c)) /\ BytesOf(c) \in Nat
    BY CellsFinite
  <1>. DEFINE rest == Cells(s) \ Cells(a)
              f == [x \in Cells(c) |-> <<x[1] + n, x[2]>>]
  <1>2. Cells(a) \subseteq Cells(s)
    <2>. SUFFICES ASSUME NEW x \in Cells(a) PROVE x \in Cells(s)
      OBVIOUS
    <2>1. PICK i \in DOMAIN a, b \in Int : b \in 1..Bytes(a[i].items) /\ x = <<i, b>>
      BY CellsIn
    <2>2. i \in DOMAIN s /\ b \in 1..Bytes(s[i].items)
      BY <2>1
    <2>. QED  BY <2>1, <2>2, CellsIn
  <1>3. ASSUME NEW x \in Cells(c)
        PROVE  /\ <<x[1] + n, x[2]>> \in rest
               /\ x = <<x[1], x[2]>> /\ x[1] \in Nat
    <2>1. PICK i \in DOMAIN c, b \in Int : b \in 1..Bytes(c[i].items) /\ x = <<i, b>>
      BY CellsIn
    <2>2. i + n \in DOMAIN s /\ b \in 1..Bytes(s[i + n].items)
      BY <2>1
    <2>3. <<i + n, b>> \in Cells(s)
      BY <2>2, CellsIn
    <2>4. <<i + n, b>> \notin Cells(a)
      <3>1. SUFFICES ASSUME <<i + n, b>> \in Cells(a) PROVE FALSE
        OBVIOUS
      <3>2. PICK j \in DOMAIN a, d \in Int : d \in 1..Bytes(a[j].items) /\ <<i + n, b>> = <<j, d>>
        BY <3>1, CellsIn
      <3>3. i + n = j /\ j <= n
        BY <3>2
      <3>. QED  BY <1>0, <3>3
    <2>. QED  BY <1>0, <2>1, <2>3, <2>4
  <1>4. f \in Injection(Cells(c), rest)
    <2>1. f \in [Cells(c) -> rest]
      BY <1>3
    <2>2. ASSUME NEW x \in Cells(c), NEW y \in Cells(c), f[x] = f[y] PROVE x = y
      <3>1. x[1] + n = y[1] + n /\ x[2] = y[2]
        BY <2>2
      <3>2. x[1] \in Nat /\ y[1] \in Nat
        BY <1>3, Zenon
      <3>5. n \in Nat
        OBVIOUS
      <3>3. x[1] = y[1]
        <4>. DEFINE p == x[1]
                    q == y[1]
        <4>1. p + n = q + n /\ p \in Nat /\ q \in Nat
          BY <3>1, <3>2
        <4>. HIDE DEF p, q
        <4>2. p = q
          BY <3>5, <4>1
        <4>. QED  BY <4>2 DEF p, q
      <3>4. x = <<x[1], x[2]>> /\ y = <<y[1], y[2]>>
        BY <1>3
      <3>. QED  BY <3>1, <3>3, <3>4, Zenon
    <2>. HIDE DEF f, rest
    <2>3. \A x \in Cells(c) : \A y \in Cells(c) : f[x] = f[y] => x = y
      BY <2>2
    <2>. QED  BY <2>1, <2>3 DEF Injection, IsInjective
  <1>5. IsFiniteSet(rest) /\ Cardinality(rest) = Cardinality(Cells(s)) - Cardinality(Cells(a))
    <2>1. /\ IsFiniteSet(Cells(s) \ Cells(a))
          /\ Cardinality(Cells(s) \ Cells(a)) =
                Cardinality(Cells(s)) - Cardinality(Cells(s) \intersect Cells(a))
      BY <1>1, FS_Difference
    <2>2. Cells(s) \intersect Cells(a) = Cells(a)
      BY <1>2
    <2>. QED  BY <2>1, <2>2
  <1>. HIDE DEF rest, f
  <1>6. Cardinality(Cells(c)) <= Cardinality(rest)
    BY <1>1, <1>4, <1>5, FS_Injection
  <1>. QED  BY <1>1, <1>5, <1>6

LEMMA Placed ==
    ASSUME NEW t \in Seq(Result), Distinct(t), NEW e \in Result, NEW s, s = Put(t, e)
    PROVE  /\ s \in Seq(Result) /\ Len(s) <= Len(t) + 1 /\ Distinct(s)
           /\ BytesOf(s) <= BytesOf(t) + Bytes(e.items)
  <1>0. Len(t) \in Nat /\ DOMAIN t = 1..Len(t) /\ \A i \in DOMAIN t : t[i] \in Result
    OBVIOUS
  <1>1. CASE \E i \in DOMAIN t : t[i].key = e.key
    <2>1. PICK p \in DOMAIN t : t[p].key = e.key
      BY <1>1
    <2>2. s = [i \in DOMAIN t |-> IF t[i].key = e.key THEN e ELSE t[i]]
      <3>1. e.key \in KeysOf(t)
        BY <2>1 DEF KeysOf, ToSet
      <3>. QED  BY <3>1 DEF Put
    <2>3. s \in Seq(Result) /\ DOMAIN s = DOMAIN t /\ Len(s) = Len(t)
      <3>1. s \in [1..Len(t) -> Result]
        BY <1>0, <2>2
      <3>. QED  BY <1>0, <3>1
    <2>4. \A i \in DOMAIN s : IF i = p THEN s[i] = e ELSE i \in DOMAIN t /\ s[i] = t[i]
      BY <2>1, <2>2 DEF Distinct
    <2>5. \A i \in DOMAIN s : s[i].key = t[i].key
      BY <2>2
    <2>6. Distinct(s)
      <3>. SUFFICES ASSUME NEW i \in DOMAIN s, NEW j \in DOMAIN s, s[i].key = s[j].key
                    PROVE  i = j
        BY DEF Distinct
      <3>1. t[i].key = t[j].key
        BY <2>5
      <3>. QED  BY <2>3, <3>1 DEF Distinct
    <2>7. BytesOf(s) <= BytesOf(t) + Bytes(e.items)
      BY <2>3, <2>4, OneLarger
    <2>. QED  BY <1>0, <2>3, <2>6, <2>7
  <1>2. CASE ~\E i \in DOMAIN t : t[i].key = e.key
    <2>1. s = Append(t, e)
      <3>1. e.key \notin KeysOf(t)
        BY <1>2 DEF KeysOf, ToSet
      <3>. QED  BY <3>1 DEF Put
    <2>2. /\ s \in Seq(Result) /\ Len(s) = Len(t) + 1 /\ DOMAIN s = 1..(Len(t) + 1)
          /\ s[Len(t) + 1] = e /\ \A i \in 1..Len(t) : s[i] = t[i]
      BY <2>1
    <2>3. \A i \in DOMAIN s :
            IF i = Len(t) + 1 THEN s[i] = e ELSE i \in DOMAIN t /\ s[i] = t[i]
      BY <1>0, <2>2
    <2>4. Distinct(s)
      <3>. SUFFICES ASSUME NEW i \in DOMAIN s, NEW j \in DOMAIN s, s[i].key = s[j].key
                    PROVE  i = j
        BY DEF Distinct
      <3>1. CASE i \in DOMAIN t /\ j \in DOMAIN t
        BY <1>0, <2>2, <3>1 DEF Distinct
      <3>2. CASE i \notin DOMAIN t
        <4>1. i = Len(t) + 1 /\ s[i] = e
          BY <2>3, <3>2
        <4>. QED  BY <1>2, <2>3, <4>1
      <3>3. CASE j \notin DOMAIN t
        <4>1. j = Len(t) + 1 /\ s[j] = e
          BY <2>3, <3>3
        <4>. QED  BY <1>2, <2>3, <4>1
      <3>. QED  BY <3>1, <3>2, <3>3
    <2>5. BytesOf(s) <= BytesOf(t) + Bytes(e.items)
      <3>. DEFINE p == Len(t) + 1
      <3>1. \A i \in DOMAIN s : IF i = p THEN s[i] = e ELSE i \in DOMAIN t /\ s[i] = t[i]
        BY <2>3
      <3>2. s \in Seq(Result)
        BY <2>2
      <3>. HIDE DEF p
      <3>. QED  BY <3>1, <3>2, OneLarger
    <2>. QED  BY <1>0, <2>2, <2>4, <2>5
  <1>. QED  BY <1>1, <1>2

LEMMA StaysBounded ==
    ASSUME IInv, NEW STATE e, e \in Result, NEW STATE n, n = Evicted(Bytes(e.items)),
           cache' = Put(SubSeq(cache, n + 1, Len(cache)), e),
           cacheBytes' = cacheBytes - BytesOf(SubSeq(cache, 1, n)) + Bytes(e.items)
    PROVE  Bounded'
  <1>. DEFINE size == Bytes(e.items)
              a == SubSeq(cache, 1, n)
              c == SubSeq(cache, n + 1, Len(cache))
  <1>0. cache \in Seq(Result) /\ Len(cache) \in Nat /\ Bounded
    BY DEF IInv, Shapes
  <1>1. /\ n \in 0..Len(cache)
        /\ \/ n = Len(cache)
           \/ Len(cache) - n < MaxEntries /\ cacheBytes - BytesOf(a) + size <= MaxBytes
    BY <1>0, EvictsSome
  <1>2. /\ a \in Seq(Result) /\ Len(a) = n
        /\ \A i \in DOMAIN a : i <= n /\ i \in DOMAIN cache /\ a[i] = cache[i]
    BY <1>0, <1>1
  <1>3. /\ c \in Seq(Result) /\ Len(c) = Len(cache) - n
        /\ \A i \in DOMAIN c : i + n \in DOMAIN cache /\ c[i] = cache[i + n]
    BY <1>0, <1>1
  <1>4. Distinct(c)
    <2>. HIDE DEF c
    <2>. SUFFICES ASSUME NEW i \in DOMAIN c, NEW j \in DOMAIN c, c[i].key = c[j].key
                  PROVE  i = j
      BY DEF Distinct
    <2>1. i \in Int /\ j \in Int /\ n \in Int
      BY <1>1, <1>3
    <2>2. /\ i + n \in DOMAIN cache /\ c[i] = cache[i + n]
          /\ j + n \in DOMAIN cache /\ c[j] = cache[j + n]
      BY <1>3
    <2>3. i + n = j + n
      BY <1>0, <2>2 DEF Bounded, Distinct
    <2>. QED  BY <2>1, <2>3
  <1>5. cache' = Put(c, e) /\ cacheBytes' = cacheBytes - BytesOf(a) + size
    OBVIOUS
  <1>6. size \in Nat /\ size <= MaxBytes
    BY PageAssumption, LimitAssumption DEF Bytes, Result
  <1>7. n = Len(cache) => BytesOf(c) = 0
    <2>. SUFFICES ASSUME n = Len(cache) PROVE BytesOf(c) = 0
      OBVIOUS
    <2>1. c = << >>
      BY <1>3
    <2>. QED  BY <2>1, NoBytes
  <1>. HIDE DEF a, c, size
  <1>8. BytesOf(a) + BytesOf(c) <= BytesOf(cache)
    BY <1>0, <1>1, <1>2, <1>3, TwoParts
  <1>9. /\ cache' \in Seq(Result) /\ Len(cache') <= Len(c) + 1 /\ Distinct(cache')
        /\ BytesOf(cache') <= BytesOf(c) + size
    BY <1>3, <1>4, <1>5, Placed DEF size
  <1>10. /\ BytesOf(a) \in Nat /\ BytesOf(c) \in Nat /\ BytesOf(cache) \in Nat
         /\ BytesOf(cache') \in Nat /\ Len(cache') \in Nat
    BY <1>0, <1>2, <1>3, <1>9, CellsFinite
  <1>11. cacheBytes \in Int /\ BytesOf(cache) <= cacheBytes
    BY <1>0 DEF Bounded
  <1>12. cacheBytes' \in Int /\ BytesOf(cache') <= cacheBytes'
    BY <1>5, <1>6, <1>8, <1>9, <1>10, <1>11
  <1>13. BytesOf(cache') <= MaxBytes
    <2>1. CASE n = Len(cache)
      BY <1>6, <1>7, <1>9, <1>10, <2>1, LimitAssumption
    <2>2. CASE cacheBytes - BytesOf(a) + size <= MaxBytes
      BY <1>5, <1>10, <1>12, <2>2, LimitAssumption
    <2>. QED  BY <1>1, <2>1, <2>2
  <1>14. Len(cache') <= MaxEntries
    BY <1>0, <1>1, <1>3, <1>9, <1>10, LimitAssumption
  <1>. QED  BY <1>9, <1>12, <1>13, <1>14 DEF Bounded, Distinct

-----------------------------------------------------------------------------
LEMMA Initially == Init => IInv
  <1>. SUFFICES ASSUME Init PROVE IInv
    OBVIOUS
  <1>1. Idle \in Slot /\ Idle.pc = "idle"
    BY PageAssumption DEF Idle, Slot
  <1>2. cache = << >> /\ rows \in Nat /\ clock = 0
    BY BoundAssumption DEF Init
  <1>3. (\A r \in Request : request[r] = Idle) /\ (\A k \in Page : pending[k] = NoRequest)
    BY DEF Init
  <1>4. Shapes
    BY <1>1, <1>2 DEF Init, Shapes
  <1>5. OneQueryPerKey /\ Read
    BY <1>1, <1>2, <1>3 DEF OneQueryPerKey, Working, Read
  <1>6. Bounded
    <2>1. DOMAIN cache = {} /\ Len(cache) = 0 /\ BytesOf(cache) = 0
      BY <1>2, NoBytes
    <2>. QED  BY <2>1, LimitAssumption DEF Init, Bounded, Distinct
  <1>. QED  BY <1>4, <1>5, <1>6 DEF IInv

(* The lists of a key are over together.                                   *)
LEMMA Released ==
    ASSUME Shapes, OneQueryPerKey, NEW k \in Page, Release(k)
    PROVE  /\ pending' \in [Page -> Request \union {NoRequest}] /\ request' \in [Request -> Slot]
           /\ \A r \in Request : request'[r] = request[r] \/ request'[r].pc = "idle"
           /\ OneQueryPerKey'
  <1>1. Idle \in Slot /\ Idle.pc = "idle"
    BY PageAssumption DEF Idle, Slot
  <1>2. \A r \in Request : request'[r] = IF request[r].pc # "idle" /\ request[r].key = k THEN Idle ELSE request[r]
    BY DEF Release
  <1>3. \A l \in Page : pending'[l] = IF l = k THEN NoRequest ELSE pending[l]
    BY DEF Release, Shapes
  <1>4. pending' \in [Page -> Request \union {NoRequest}] /\ request' \in [Request -> Slot]
    BY <1>1 DEF Release, Shapes
  <1>5. ASSUME NEW l \in Page
        PROVE  Served(l)'
    <2>1. CASE l = k
      BY <1>1, <1>2, <1>3, <2>1 DEF Served
    <2>2. CASE l # k /\ pending[l] = NoRequest
      BY <1>1, <1>2, <1>3, <2>2 DEF OneQueryPerKey, Served
    <2>3. CASE l # k /\ pending[l] # NoRequest
      <3>1. pending[l] \in Request /\ Working(pending[l]) /\ request[pending[l]].key = l
        BY <2>3 DEF OneQueryPerKey, Shapes
      <3>2. pending'[l] = pending[l] /\ request'[pending[l]] = request[pending[l]]
        BY <1>2, <1>3, <2>3, <3>1
      <3>. QED  BY <2>3, <3>1, <3>2 DEF Served, Working
    <2>. QED  BY <2>1, <2>2, <2>3
  <1>6. ASSUME NEW r \in Request, Working(r)' PROVE pending'[request'[r].key] = r
    <2>1. request'[r] = request[r] /\ request[r].key # k /\ Working(r)
      BY <1>1, <1>2, <1>6 DEF Working
    <2>2. request[r].key \in Page
      BY DEF Shapes, Slot
    <2>. QED  BY <1>3, <2>1, <2>2 DEF OneQueryPerKey
  <1>7. OneQueryPerKey'
    BY <1>5, <1>6 DEF OneQueryPerKey, Served
  <1>. QED  BY <1>1, <1>2, <1>4, <1>7

(* A step of a list that is under way.                                     *)
LEMMA Moved ==
    ASSUME Shapes, OneQueryPerKey, NEW r \in Request, NEW STATE q, q \in Slot,
           Working(r), q.pc \in {"count", "page", "finish"}, q.key = request[r].key,
           request' = [request EXCEPT ![r] = q], UNCHANGED pending
    PROVE  request' \in [Request -> Slot] /\ OneQueryPerKey'
  <1>1. request' \in [Request -> Slot]
    BY DEF Shapes
  <1>2. \A x \in Request : /\ request'[x].key = request[x].key
                           /\ Working(x)' <=> Working(x)
                           /\ request'[x].pc = "idle" <=> request[x].pc = "idle"
    BY DEF Shapes, Working
  <1>3. \A l \in Page : pending[l] \in Request \union {NoRequest}
    BY DEF Shapes
  <1>. QED  BY <1>1, <1>2, <1>3 DEF OneQueryPerKey

LEMMA Asked ==
    ASSUME IInv, NEW r \in Request, NEW k \in Page, Ask(r, k)
    PROVE  IInv'
  <1>0. Idle \in Slot
    BY PageAssumption DEF Idle, Slot
  <1>1. UNCHANGED <<cache, cacheBytes, rows, clock>> /\ request[r].pc = "idle"
    BY DEF Ask
  <1>b. Bounded'
    BY <1>1 DEF IInv, Bounded, Distinct, BytesOf
  <1>2. \A l \in Page : pending[l] \in Request \union {NoRequest} /\ pending[l] # r
    BY RequestAssumption DEF IInv, Shapes, OneQueryPerKey, Working, Ask
  <1>3. CASE pending[k] # NoRequest
    <2>. DEFINE q == [Idle EXCEPT !.pc = "joined", !.key = k]
    <2>1. q \in Slot /\ q.pc = "joined" /\ q.key = k
      BY <1>0 DEF Slot
    <2>2. request' = [request EXCEPT ![r] = q] /\ pending' = pending
      BY <1>3 DEF Ask
    <2>. HIDE DEF q
    <2>3. request' \in [Request -> Slot] /\ \A x \in Request : request'[x] = IF x = r THEN q ELSE request[x]
      BY <2>1, <2>2 DEF IInv, Shapes
    <2>4. OneQueryPerKey'
      BY <1>1, <1>2, <1>3, <2>1, <2>2, <2>3 DEF IInv, OneQueryPerKey, Working
    <2>5. Read'
      BY <1>1, <2>1, <2>3 DEF IInv, Read
    <2>. QED  BY <1>1, <1>b, <2>2, <2>3, <2>4, <2>5 DEF IInv, Shapes
  <1>4. CASE pending[k] = NoRequest
    <2>. DEFINE q == [Idle EXCEPT !.pc = "count", !.key = k]
    <2>1. q \in Slot /\ q.pc = "count" /\ q.key = k
      BY <1>0 DEF Slot
    <2>2. request' = [request EXCEPT ![r] = q] /\ pending' = [pending EXCEPT ![k] = r]
      BY <1>4 DEF Ask
    <2>. HIDE DEF q
    <2>3. request' \in [Request -> Slot] /\ \A x \in Request : request'[x] = IF x = r THEN q ELSE request[x]
      BY <2>1, <2>2 DEF IInv, Shapes
    <2>4. /\ pending' \in [Page -> Request \union {NoRequest}]
          /\ \A l \in Page : pending'[l] = IF l = k THEN r ELSE pending[l]
      BY <2>2 DEF IInv, Shapes
    <2>5. \A x \in Request : request[x].pc = "idle" \/ request[x].key # k
      BY <1>4 DEF IInv, OneQueryPerKey
    <2>6. \A x \in Request : request[x].key \in Page
      BY DEF IInv, Shapes, Slot
    <2>7. OneQueryPerKey'
      <3>1. ASSUME NEW l \in Page
            PROVE  Served(l)'
        <4>1. CASE l = k
          BY <2>1, <2>3, <2>4, <4>1, RequestAssumption DEF Served, Working
        <4>2. CASE l # k
          BY <1>2, <2>1, <2>3, <2>4, <4>2 DEF IInv, OneQueryPerKey, Served, Working
        <4>. QED  BY <4>1, <4>2
      <3>2. ASSUME NEW x \in Request, Working(x)' PROVE pending'[request'[x].key] = x
        <4>1. CASE x = r
          BY <2>1, <2>3, <2>4, <4>1
        <4>2. CASE x # r
          BY <2>3, <2>4, <2>5, <2>6, <3>2, <4>2 DEF IInv, OneQueryPerKey, Working
        <4>. QED  BY <4>1, <4>2
      <3>. QED  BY <3>1, <3>2 DEF OneQueryPerKey, Served
    <2>8. Read'
      BY <1>1, <2>1, <2>3 DEF IInv, Read
    <2>. QED  BY <1>1, <1>b, <2>3, <2>4, <2>7, <2>8 DEF IInv, Shapes
  <1>. QED  BY <1>3, <1>4

LEMMA Worked ==
    ASSUME IInv, NEW r \in Request, Count(r) \/ ReadPage(r)
    PROVE  IInv'
  <1>1. UNCHANGED <<cache, cacheBytes, pending, rows, clock>> /\ request[r] \in Slot
    BY DEF IInv, Shapes, Count, ReadPage
  <1>b. Bounded'
    BY <1>1 DEF IInv, Bounded, Distinct, BytesOf
  <1>2. CASE Count(r)
    <2>. DEFINE q == [request[r] EXCEPT !.pc = "page", !.snapshot = rows]
    <2>1. /\ request' = [request EXCEPT ![r] = q] /\ Working(r)
          /\ q \in Slot /\ q.pc = "page" /\ q.key = request[r].key
      BY <1>1, <1>2 DEF Count, Working, IInv, Shapes, Slot
    <2>. HIDE DEF q
    <2>2. request' \in [Request -> Slot] /\ OneQueryPerKey'
      BY <1>1, <2>1, Moved DEF IInv
    <2>3. Read'
      BY <1>1, <2>1 DEF IInv, Shapes, Read
    <2>. QED  BY <1>1, <1>b, <2>2, <2>3 DEF IInv, Shapes
  <1>3. CASE ReadPage(r)
    <2>. DEFINE n == OfPage(request[r].key, request[r].snapshot)
                q == [request[r] EXCEPT !.pc = "finish", !.items = n]
    <2>1. n \in 0..PageSize
      BY <1>1, PagesHaveRows DEF Slot
    <2>2. request' = [request EXCEPT ![r] = q] /\ Working(r)
      BY <1>3 DEF ReadPage, Working, OfPage
    <2>. HIDE DEF n
    <2>3. /\ q \in Slot /\ q.pc = "finish" /\ q.key = request[r].key
          /\ q.snapshot = request[r].snapshot /\ q.items = n
      BY <1>1, <2>1 DEF Slot
    <2>. HIDE DEF q
    <2>4. request' \in [Request -> Slot] /\ OneQueryPerKey'
      BY <1>1, <2>2, <2>3, Moved DEF IInv
    <2>5. \A x \in Request : request'[x] = IF x = r THEN q ELSE request[x]
      BY <2>2 DEF IInv, Shapes
    <2>6. Read'
      BY <1>1, <2>3, <2>5 DEF IInv, Read, n
    <2>. QED  BY <1>1, <1>b, <2>4, <2>6 DEF IInv, Shapes
  <1>. QED  BY <1>2, <1>3

LEMMA Over ==
    ASSUME IInv, NEW r \in Request, Finish(r) \/ Fail(r)
    PROVE  IInv'
  <1>. DEFINE k == request[r].key
  <1>1. request[r] \in Slot /\ k \in Page /\ Release(k) /\ UNCHANGED <<rows, clock>>
    BY DEF IInv, Shapes, Slot, Finish, Fail
  <1>2. /\ pending' \in [Page -> Request \union {NoRequest}] /\ request' \in [Request -> Slot]
        /\ \A x \in Request : request'[x] = request[x] \/ request'[x].pc = "idle"
        /\ OneQueryPerKey'
    BY <1>1, Released DEF IInv
  <1>3. cache' \in Seq(Result) /\ \A i \in DOMAIN cache' : cache'[i].items = OfPage(cache'[i].key, cache'[i].total)
    <2>1. CASE Fail(r)
      BY <2>1 DEF Fail, IInv, Shapes, Read
    <2>2. CASE Finish(r)
      <3>. DEFINE e == [key |-> request[r].key, total |-> request[r].snapshot,
                        items |-> request[r].items, expiresAt |-> clock + Ttl]
                  n == Evicted(Bytes(request[r].items))
      <3>1. cache' = Put(SubSeq(cache, n + 1, Len(cache)), e)
        BY <2>2 DEF Finish
      <3>2. e \in Result
        BY <1>1, BoundAssumption DEF Slot, Result, IInv, Shapes
      <3>3. e.items = OfPage(e.key, e.total)
        BY <2>2 DEF Finish, IInv, Read
      <3>4. n \in 0..Len(cache)
        BY EvictsSome DEF IInv, Shapes
      <3>. HIDE DEF e, n
      <3>5. /\ cache' \in Seq(Result)
            /\ \A i \in DOMAIN cache' : cache'[i] = e \/ \E j \in DOMAIN cache : cache'[i] = cache[j]
        BY <3>1, <3>2, <3>4, Kept DEF IInv, Shapes
      <3>. QED  BY <3>3, <3>5 DEF IInv, Read
    <2>. QED  BY <2>1, <2>2
  <1>4. Read'
    BY <1>2, <1>3 DEF IInv, Read
  <1>5. Bounded'
    <2>1. CASE Fail(r)
      BY <2>1 DEF Fail, IInv, Bounded, Distinct, BytesOf
    <2>2. CASE Finish(r)
      <3>. DEFINE e == [key |-> request[r].key, total |-> request[r].snapshot,
                        items |-> request[r].items, expiresAt |-> clock + Ttl]
                  n == Evicted(Bytes(e.items))
      <3>1. /\ cache' = Put(SubSeq(cache, n + 1, Len(cache)), e)
            /\ cacheBytes' = cacheBytes - BytesOf(SubSeq(cache, 1, n)) + Bytes(e.items)
        BY <2>2 DEF Finish
      <3>2. e \in Result
        BY <1>1, BoundAssumption DEF Slot, Result, IInv, Shapes
      <3>3. n = Evicted(Bytes(e.items))
        OBVIOUS
      <3>. HIDE DEF e, n
      <3>. QED  BY <3>1, <3>2, <3>3, StaysBounded
    <2>. QED  BY <2>1, <2>2
  <1>. QED  BY <1>1, <1>2, <1>3, <1>4, <1>5 DEF IInv, Shapes

-----------------------------------------------------------------------------
(* The inductive invariant holds.                                          *)
THEOREM Invariance == Spec => []IInv
  <1>1. IInv /\ [Next]_vars => IInv'
    <2>. SUFFICES ASSUME IInv, [Next]_vars PROVE IInv'
      OBVIOUS
    <2>1. CASE Write \/ Tick \/ UNCHANGED vars
      <3>1. /\ UNCHANGED <<cache, cacheBytes, pending, request>>
            /\ rows' \in Nat /\ clock' \in Int
        BY <2>1, BoundAssumption DEF Write, Tick, vars, IInv, Shapes
      <3>2. Bounded'
        BY <3>1 DEF IInv, Bounded, Distinct, BytesOf
      <3>. QED  BY <3>1, <3>2 DEF IInv, Shapes, OneQueryPerKey, Working, Read
    <2>. QED  BY <2>1, Asked, Worked, Over DEF Next
  <1>. QED  BY Initially, <1>1, PTL DEF Spec

(* A key is queried once at a time, and nobody waits for a query that is     *)
(* over.                                                                   *)
THEOREM QueriesAreShared == Spec => []OneQueryPerKey
  <1>1. IInv => OneQueryPerKey
    BY DEF IInv
  <1>. QED  BY Invariance, <1>1, PTL

(* A result has the rows that the page has of its own total, and none only   *)
(* when there are none at all, for every page size.                         *)
THEOREM PagesFitTotals == Spec => []PageAgreesWithTotal
  <1>1. ASSUME IInv, NEW i \in DOMAIN cache
        PROVE  /\ cache[i].items = RowsOn(PageInfo(cache[i].key, cache[i].total), cache[i].total)
               /\ cache[i].items = 0 <=> cache[i].total = 0
    <2>1. cache[i] \in Result
      BY <1>1 DEF IInv, Shapes
    <2>2. cache[i].items = OfPage(cache[i].key, cache[i].total)
      BY <1>1 DEF IInv, Read
    <2>3. OfPage(cache[i].key, cache[i].total) = 0 <=> cache[i].total = 0
      BY <2>1, PagesHaveRows DEF Result
    <2>. QED  BY <2>2, <2>3 DEF OfPage
  <1>2. IInv => PageAgreesWithTotal
    BY <1>1 DEF PageAgreesWithTotal, ToSet
  <1>. QED  BY Invariance, <1>2, PTL

(* The cache keeps at most MaxEntries results and MaxBytes bytes, whatever    *)
(* its counter of bytes has drifted to.                                     *)
THEOREM CacheStaysWithinLimits == Spec => []CacheWithinLimits
  <1>1. IInv => CacheWithinLimits
    BY DEF IInv, Bounded, CacheWithinLimits
  <1>. QED  BY Invariance, <1>1, PTL

=============================================================================
