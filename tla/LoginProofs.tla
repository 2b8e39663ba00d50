----------------------------- MODULE LoginProofs -----------------------------
(***************************************************************************)
(* Proofs about logging in: of LoginRateLimiter, that its buckets count what *)
(* they should, that no window length admits more than twice the limit and   *)
(* that its memory is bounded; of AuthSessions, for any number of requests   *)
(* and sessions, that a logout is final, an answered login is settled, and   *)
(* only sessions that expired or are logged out of are deleted.             *)
(*                                                                         *)
(* A bucket remembers one window and the bound speaks of every stretch of    *)
(* time.  The invariant of the limiter says of each key, for the window of   *)
(* its bucket and for the window length before it, how many attempts there   *)
(* were: a stretch that an attempt is admitted in is covered by the two.     *)
(* That of the sessions says that there are as many as were created and that *)
(* those logged out of are not among the rows; of each request, how far a    *)
(* login has come when its attempt is pending, committed or released.        *)
(***************************************************************************)
EXTENDS LoginRateLimiter, AuthSessions, FiniteSetTheorems, TLAPS

-----------------------------------------------------------------------------
(* LoginRateLimiter.                                                       *)

(* Window number of instants from an instant on.                            *)
Span(start) == {t \in Instant : start <= t /\ t < start + Window}

(* The attempts of a key that are open in att, and when their window in its  *)
(* bucket ends.                                                            *)
Concerned(att, k) == {r \in Login : att[r] # NoAttempt /\ k \in {att[r].ip, att[r].login}}
Due(att, k, r) == IF k \in Ip THEN att[r].ipResetAt ELSE att[r].loginResetAt

Open(att, k, span) == {r \in Concerned(att, k) : att[r].at \in span}
Of(att, k, resetAt) == {r \in Concerned(att, k) : Due(att, k, r) = resetAt}

Tally(att, history, k, span) ==
    Cardinality(Failed(history, span)) + Cardinality(Open(att, k, span))

(* What holds of a key with a bucket: it counts the failures and open         *)
(* attempts of its window, nothing is later than its window, and the window   *)
(* length before it has at most Limit.                                      *)
BucketFits(b, att, history, now, k) ==
    LET start == b.resetAt - Window
    IN  /\ 0 <= start /\ start <= now
        /\ \A r \in Concerned(att, k) : Due(att, k, r) = b.resetAt \/ Due(att, k, r) <= start
        /\ \A t \in Instant : t >= b.resetAt => history[t] = 0
        /\ b.pending = Cardinality(Of(att, k, b.resetAt))
        /\ b.count = Tally(att, history, k, Span(start))
        /\ b.count \in 1..Limit
        /\ Tally(att, history, k, Span(start - Window)) <= Limit

(* And without one: nothing is as late as now, and the window length before   *)
(* now has at most Limit.                                                   *)
NoBucketFits(att, history, now, k) ==
    /\ \A r \in Concerned(att, k) : Due(att, k, r) <= now
    /\ \A t \in Instant : t >= now => history[t] = 0
    /\ Tally(att, history, k, Span(now - Window)) <= Limit

Fits(bs, att, history, now, k) ==
    /\ \A r \in Concerned(att, k) :
        /\ att[r].at <= now /\ att[r].at < Due(att, k, r)
        /\ Due(att, k, r) <= att[r].at + Window
    /\ IF k \in DOMAIN bs THEN BucketFits(bs[k], att, history, now, k)
                          ELSE NoBucketFits(att, history, now, k)
    /\ \A t \in Instant : Tally(att, history, k, Span(t)) <= 2 * Limit

(* Types.                                                                  *)
History == [Instant -> Nat]
Reservations == [Login -> Attempt \union {NoAttempt}]
SomeBucket == [count : Int, pending : Int, resetAt : Int]

Buckets(bs) ==
    /\ DOMAIN bs \subseteq Key /\ IsFiniteSet(DOMAIN bs)
    /\ Cardinality(DOMAIN bs) <= MaxBuckets
    /\ \A k \in DOMAIN bs : bs[k] \in SomeBucket

LimiterShapes ==
    /\ Buckets(buckets)
    /\ attempt \in Reservations
    /\ time \in Instant
    /\ failures \in [Key -> History]

KeysFit == \A k \in Key : Fits(buckets, attempt, failures[k], time, k)

LimiterInv == LimiterShapes /\ KeysFit

-----------------------------------------------------------------------------
(* Counting.                                                               *)

LEMMA FailedIn ==
    ASSUME NEW g, NEW span, NEW x
    PROVE  x \in Failed(g, span) <=> \E t \in span : \E n \in 1..g[t] : x = <<t, n>>
  BY DEF Failed

LEMMA FailedFinite ==
    ASSUME NEW g \in History, NEW span \in SUBSET Instant
    PROVE  IsFiniteSet(Failed(g, span)) /\ Cardinality(Failed(g, span)) \in Nat
  <1>1. IsFiniteSet(Instant)
    BY TimeAssumption, FS_Interval DEF Instant
  <1>2. IsFiniteSet(span)
    BY <1>1, FS_Subset
  <1>3. IsFiniteSet({{t} \X (1..g[t]) : t \in span})
    <2>. DEFINE T == {{t} \X (1..g[t]) : t \in span}
                f == [t \in span |-> {t} \X (1..g[t])]
    <2>1. f \in Surjection(span, T)
      BY DEF Surjection
    <2>. QED  BY <1>2, <2>1, FS_Surjection
  <1>4. \A t \in span : IsFiniteSet({t} \X (1..g[t]))
    <2>. SUFFICES ASSUME NEW t \in span PROVE IsFiniteSet({t} \X (1..g[t]))
      OBVIOUS
    <2>1. IsFiniteSet({t})
      BY FS_Singleton
    <2>2. 1 \in Int /\ g[t] \in Int
      BY DEF History
    <2>3. IsFiniteSet(1..g[t])
      BY <2>2, FS_Interval
    <2>. QED  BY <2>1, <2>3, FS_Product
  <1>5. IsFiniteSet(Failed(g, span))
    BY <1>3, <1>4, FS_UNION DEF Failed
  <1>. QED  BY <1>5, FS_CardinalityType

LEMMA OpenFinite ==
    ASSUME NEW att, NEW k, NEW S \in SUBSET Concerned(att, k)
    PROVE  IsFiniteSet(S) /\ Cardinality(S) \in Nat
  <1>1. S \in SUBSET Login
    BY DEF Concerned
  <1>2. IsFiniteSet(S)
    BY <1>1, LoginAssumption, FS_Subset
  <1>. QED  BY <1>2, FS_CardinalityType

LEMMA TallyNat ==
    ASSUME NEW att, NEW g \in History, NEW k, NEW span \in SUBSET Instant
    PROVE  /\ Tally(att, g, k, span) \in Nat
           /\ Cardinality(Open(att, k, span)) \in Nat
           /\ Cardinality(Failed(g, span)) \in Nat
  <1>1. Cardinality(Failed(g, span)) \in Nat
    BY FailedFinite
  <1>2. Open(att, k, span) \in SUBSET Concerned(att, k)
    BY DEF Open
  <1>3. Cardinality(Open(att, k, span)) \in Nat
    BY <1>2, OpenFinite
  <1>. QED  BY <1>1, <1>3 DEF Tally

LEMMA TwoCover ==
    ASSUME NEW S, NEW T, NEW U, IsFiniteSet(S), IsFiniteSet(T), IsFiniteSet(U), S \subseteq T \union U
    PROVE  Cardinality(S) <= Cardinality(T) + Cardinality(U)
  <1>1. IsFiniteSet(T \union U)
        /\ Cardinality(T \union U) = Cardinality(T) + Cardinality(U) - Cardinality(T \intersect U)
    BY FS_Union
  <1>2. Cardinality(S) <= Cardinality(T \union U)
    BY <1>1, FS_Subset
  <1>3. IsFiniteSet(T \intersect U)
    BY FS_Intersection
  <1>4. /\ Cardinality(S) \in Nat /\ Cardinality(T) \in Nat /\ Cardinality(U) \in Nat
        /\ Cardinality(T \intersect U) \in Nat
    BY <1>3, FS_CardinalityType
  <1>. QED  BY <1>1, <1>2, <1>4

(* What lies in one of two spans is counted in one of them.                 *)
LEMMA TallyCover ==
    ASSUME NEW att, NEW g \in History, NEW k,
           NEW A \in SUBSET Instant, NEW B \in SUBSET Instant, NEW C \in SUBSET Instant,
           \A t \in A : g[t] = 0 \/ t \in B \union C,
           \A r \in Open(att, k, A) : att[r].at \in B \union C
    PROVE  Tally(att, g, k, A) <= Tally(att, g, k, B) + Tally(att, g, k, C)
  <1>1. Failed(g, A) \subseteq Failed(g, B) \union Failed(g, C)
    <2>. SUFFICES ASSUME NEW x \in Failed(g, A)
                  PROVE  x \in Failed(g, B) \/ x \in Failed(g, C)
      OBVIOUS
    <2>1. PICK t \in A : \E n \in 1..g[t] : x = <<t, n>>
      BY FailedIn
    <2>2. g[t] # 0
      BY <2>1
    <2>. QED  BY <2>1, <2>2, FailedIn
  <1>2. Cardinality(Failed(g, A)) <= Cardinality(Failed(g, B)) + Cardinality(Failed(g, C))
    BY <1>1, FailedFinite, TwoCover
  <1>3. Open(att, k, A) \subseteq Open(att, k, B) \union Open(att, k, C)
    BY DEF Open
  <1>4. Cardinality(Open(att, k, A)) <= Cardinality(Open(att, k, B)) + Cardinality(Open(att, k, C))
    BY <1>3, OpenFinite, TwoCover DEF Open
  <1>. QED  BY <1>2, <1>4, TallyNat DEF Tally

(* One more failure, one more attempt, one attempt less.                    *)
Fails(g, at, more) ==
    /\ more \in History
    /\ \A t \in Instant : more[t] = IF t = at THEN g[t] + 1 ELSE g[t]

Adds(att, r, a, more) ==
    /\ more \in Reservations /\ more[r] = a
    /\ \A q \in Login : q # r => more[q] = att[q]

LEMMA FailsOne ==
    ASSUME NEW g \in History, NEW at \in Instant, NEW span \in SUBSET Instant,
           NEW more, Fails(g, at, more)
    PROVE  Cardinality(Failed(more, span)) =
                Cardinality(Failed(g, span)) + (IF at \in span THEN 1 ELSE 0)
  <1>. DEFINE last == <<at, g[at] + 1>>
  <1>1. more \in History /\ g[at] \in Nat /\ more[at] = g[at] + 1
        /\ \A t \in Instant : t # at => more[t] = g[t]
    BY DEF History, Fails
  <1>2. last \notin Failed(g, span)
    BY <1>1, FailedIn
  <1>3. CASE at \in span
    <2>1. Failed(more, span) \subseteq Failed(g, span) \union {last}
      <3>. SUFFICES ASSUME NEW x \in Failed(more, span) PROVE x \in Failed(g, span) \/ x = last
        OBVIOUS
      <3>1. PICK t \in span : \E n \in 1..more[t] : x = <<t, n>>
        BY FailedIn
      <3>2. PICK n \in 1..more[t] : x = <<t, n>>
        BY <3>1
      <3>3. CASE t = at
        <4>1. n \in 1..g[at] \/ n = g[at] + 1
          BY <1>1, <3>2, <3>3
        <4>. QED  BY <4>1, <3>2, <3>3, FailedIn
      <3>4. CASE t # at
        BY <1>1, <3>2, <3>4, FailedIn
      <3>. QED  BY <3>3, <3>4
    <2>2. Failed(g, span) \union {last} \subseteq Failed(more, span)
      <3>1. last \in Failed(more, span)
        BY <1>1, <1>3, FailedIn
      <3>2. ASSUME NEW x \in Failed(g, span) PROVE x \in Failed(more, span)
        <4>1. PICK t \in span : \E n \in 1..g[t] : x = <<t, n>>
          BY FailedIn
        <4>2. PICK n \in 1..g[t] : x = <<t, n>>
          BY <4>1
        <4>3. n \in 1..more[t]
          BY <1>1, <4>2 DEF History
        <4>. QED  BY <4>2, <4>3, FailedIn
      <3>. QED  BY <3>1, <3>2
    <2>3. Failed(more, span) = Failed(g, span) \union {last}
      BY <2>1, <2>2
    <2>4. IsFiniteSet(Failed(g, span))
      BY FailedFinite
    <2>5. Cardinality(Failed(g, span) \union {last}) = Cardinality(Failed(g, span)) + 1
      BY <1>2, <2>4, FS_AddElement
    <2>. QED  BY <1>1, <1>3, <2>3, <2>5
  <1>4. CASE at \notin span
    <2>1. \A t \in span : more[t] = g[t]
      BY <1>1, <1>4
    <2>2. Failed(more, span) = Failed(g, span)
      BY <2>1 DEF Failed
    <2>3. Cardinality(Failed(g, span)) \in Nat
      BY FailedFinite
    <2>. QED  BY <1>1, <1>4, <2>2, <2>3
  <1>. QED  BY <1>3, <1>4

LEMMA AddsOne ==
    ASSUME NEW att \in Reservations, NEW r \in Login, att[r] = NoAttempt,
           NEW a \in Attempt, NEW k, k = a.ip \/ k = a.login,
           NEW more, Adds(att, r, a, more)
    PROVE  /\ Concerned(more, k) = Concerned(att, k) \union {r}
           /\ more[r] = a /\ r \notin Concerned(att, k)
           /\ \A q \in Concerned(att, k) : more[q] = att[q]
  <1>1. a # NoAttempt
    BY LoginAssumption
  <1>2. more \in Reservations /\ more[r] = a /\ \A q \in Login : q # r => more[q] = att[q]
    BY DEF Adds
  <1>3. r \notin Concerned(att, k)
    BY DEF Concerned
  <1>4. Concerned(more, k) = Concerned(att, k) \union {r}
    BY <1>1, <1>2, <1>3 DEF Concerned
  <1>. QED  BY <1>2, <1>3, <1>4 DEF Concerned

LEMMA OneMore ==
    ASSUME NEW att, NEW k, NEW S \in SUBSET Concerned(att, k), NEW r, r \notin Concerned(att, k)
    PROVE  Cardinality(S \union {r}) = Cardinality(S) + 1
  BY OpenFinite, FS_AddElement

LEMMA RemovesOne ==
    ASSUME NEW att \in Reservations, NEW k, NEW r \in Concerned(att, k),
           NEW S \in SUBSET Concerned(att, k), NEW less, Adds(att, r, NoAttempt, less)
    PROVE  /\ Concerned(less, k) = Concerned(att, k) \ {r}
           /\ \A q \in Concerned(less, k) : less[q] = att[q]
           /\ Cardinality(S \ {r}) = Cardinality(S) - (IF r \in S THEN 1 ELSE 0)
  <1>1. less \in Reservations /\ r \in Login /\ less[r] = NoAttempt
        /\ \A q \in Login : q # r => less[q] = att[q]
    BY DEF Adds, Concerned
  <1>2. Concerned(less, k) = Concerned(att, k) \ {r}
    BY <1>1 DEF Concerned
  <1>3. IsFiniteSet(S) /\ Cardinality(S) \in Nat
    BY OpenFinite
  <1>4. Cardinality(S \ {r}) = Cardinality(S) - (IF r \in S THEN 1 ELSE 0)
    <2>1. CASE r \in S
      BY <1>3, <2>1, FS_RemoveElement
    <2>2. CASE r \notin S
      <3>1. S \ {r} = S
        BY <2>2
      <3>2. Cardinality(S \ {r}) = Cardinality(S)
        BY <3>1, Zenon
      <3>. QED  BY <1>3, <2>2, <3>2
    <2>. QED  BY <2>1, <2>2
  <1>. QED  BY <1>1, <1>2, <1>4 DEF Concerned

-----------------------------------------------------------------------------
(* One key.                                                                *)

LEMMA SpanType == \A start \in Int : Span(start) \in SUBSET Instant
  BY DEF Span

LEMMA ConcernedType ==
    ASSUME NEW att \in Reservations, NEW k, NEW r \in Concerned(att, k)
    PROVE  /\ r \in Login /\ att[r] \in Attempt
           /\ att[r].at \in Instant /\ att[r].at \in Int /\ Due(att, k, r) \in Int
  <1>1. r \in Login /\ att[r] \in Attempt
    BY DEF Concerned, Reservations
  <1>. QED  BY <1>1, TimeAssumption, LimitAssumption DEF Attempt, Instant, Due

LEMMA InSpan ==
    \A start \in Int, t \in Instant : t \in Span(start) <=> start <= t /\ t < start + Window
  BY DEF Span

(* A span that reaches now is covered, up to now, by two around now.          *)
LEMMA NearSpan ==
    ASSUME NEW start \in Int, NEW t \in Int, NEW now \in Int, NEW u \in Span(t), u <= now,
           t <= now, start <= now, now < start + Window, now < t + Window
    PROVE  u \in Span(start - Window) \union Span(start)
  BY TimeAssumption, LimitAssumption DEF Span, Instant

(* What is said of a key only looks at its bucket and its attempts.         *)
LEMMA SameKey ==
    ASSUME NEW bs, NEW bs2, NEW att, NEW att2, NEW g, NEW now, NEW k,
           k \in DOMAIN bs2 <=> k \in DOMAIN bs,
           k \in DOMAIN bs => bs2[k] = bs[k],
           Concerned(att2, k) = Concerned(att, k),
           \A q \in Concerned(att, k) : att2[q] = att[q],
           Fits(bs, att, g, now, k)
    PROVE  Fits(bs2, att2, g, now, k)
  <1>1. \A q \in Concerned(att, k) : Due(att2, k, q) = Due(att, k, q)
    BY DEF Due
  <1>2. \A span : Open(att2, k, span) = Open(att, k, span)
    BY DEF Open
  <1>3. \A x : Of(att2, k, x) = Of(att, k, x)
    BY <1>1 DEF Of
  <1>4. \A span : Tally(att2, g, k, span) = Tally(att, g, k, span)
    BY <1>2 DEF Tally
  <1>5. \A b : BucketFits(b, att, g, now, k) => BucketFits(b, att2, g, now, k)
    BY <1>1, <1>3, <1>4 DEF BucketFits
  <1>6. NoBucketFits(att, g, now, k) => NoBucketFits(att2, g, now, k)
    BY <1>1, <1>4 DEF NoBucketFits
  <1>. QED  BY <1>1, <1>4, <1>5, <1>6 DEF Fits

(* Nothing is counted in no time.                                          *)
LEMMA TallyNothing ==
    ASSUME NEW att, NEW g \in History, NEW k
    PROVE  Tally(att, g, k, {}) = 0
  <1>1. Failed(g, {}) = {} /\ Open(att, k, {}) = {}
    BY DEF Failed, Open
  <1>2. Cardinality({}) = 0
    BY FS_EmptySet
  <1>3. Cardinality(Failed(g, {})) = 0 /\ Cardinality(Open(att, k, {})) = 0
    BY <1>1, <1>2, Zenon
  <1>. QED  BY <1>3 DEF Tally

LEMMA TallyWithin ==
    ASSUME NEW att, NEW g \in History, NEW k, NEW A \in SUBSET Instant, NEW B \in SUBSET Instant,
           \A t \in A : g[t] = 0 \/ t \in B,
           \A r \in Open(att, k, A) : att[r].at \in B
    PROVE  Tally(att, g, k, A) <= Tally(att, g, k, B)
  <1>1. Tally(att, g, k, A) <= Tally(att, g, k, B) + Tally(att, g, k, {})
    BY TallyCover
  <1>. QED  BY <1>1, TallyNothing, TallyNat

(* A bucket whose window is over can go.                                    *)
LEMMA RunOut ==
    ASSUME NEW b \in SomeBucket, NEW att \in Reservations, NEW g \in History, NEW now \in Instant, NEW k,
           BucketFits(b, att, g, now, k), b.resetAt <= now,
           \A r \in Concerned(att, k) : att[r].at < Due(att, k, r)
    PROVE  NoBucketFits(att, g, now, k)
  <1>. DEFINE start == b.resetAt - Window
  <1>1. now \in Int /\ b.resetAt \in Int /\ start \in Int /\ Window \in Nat \ {0} /\ Instant \subseteq Nat
    BY TimeAssumption, LimitAssumption DEF Instant, SomeBucket
  <1>2. \A r \in Concerned(att, k) : Due(att, k, r) <= b.resetAt /\ att[r].at < b.resetAt
    BY <1>1, ConcernedType DEF BucketFits
  <1>3. \A r \in Concerned(att, k) : Due(att, k, r) <= now
    BY <1>1, <1>2, ConcernedType
  <1>4. \A t \in Instant : t >= now => g[t] = 0
    BY <1>1 DEF BucketFits
  <1>5. Tally(att, g, k, Span(now - Window)) <= Tally(att, g, k, Span(start))
    <2>1. \A t \in Span(now - Window) : g[t] = 0 \/ t \in Span(start)
      BY <1>1 DEF BucketFits, Span
    <2>2. \A r \in Open(att, k, Span(now - Window)) : att[r].at \in Span(start)
      BY <1>1, <1>2, ConcernedType DEF Open, Span
    <2>3. Span(now - Window) \in SUBSET Instant /\ Span(start) \in SUBSET Instant
      BY <1>1, SpanType
    <2>. HIDE DEF start
    <2>. QED  BY <2>1, <2>2, <2>3, TallyWithin
  <1>6. Tally(att, g, k, Span(start)) <= Limit
    BY LimitAssumption DEF BucketFits
  <1>7. Tally(att, g, k, Span(now - Window)) <= Limit
    BY <1>1, <1>5, <1>6, TallyNat, SpanType, LimitAssumption
  <1>. QED  BY <1>3, <1>4, <1>7 DEF NoBucketFits

(* The next instant.                                                       *)
LEMMA LaterFits ==
    ASSUME NEW bs, Buckets(bs), NEW att \in Reservations, NEW g \in History, NEW now \in Instant, NEW k,
           now + 1 \in Instant, Fits(bs, att, g, now, k)
    PROVE  Fits(bs, att, g, now + 1, k)
  <1>1. now \in Int /\ Window \in Nat \ {0} /\ Instant \subseteq Nat /\ Limit \in Nat
    BY TimeAssumption, LimitAssumption DEF Instant
  <1>2. \A r \in Concerned(att, k) : att[r].at <= now + 1
    BY <1>1, ConcernedType DEF Fits
  <1>3. CASE k \in DOMAIN bs
    <2>1. bs[k].resetAt \in Int
      BY <1>3 DEF Buckets, SomeBucket
    <2>2. BucketFits(bs[k], att, g, now + 1, k)
      BY <1>1, <1>3, <2>1 DEF Fits, BucketFits
    <2>. QED  BY <1>2, <1>3, <2>2 DEF Fits
  <1>4. CASE k \notin DOMAIN bs
    <2>1. NoBucketFits(att, g, now, k)
      BY <1>4 DEF Fits
    <2>2. \A r \in Concerned(att, k) : Due(att, k, r) <= now + 1 /\ att[r].at < now
      BY <1>1, <2>1, ConcernedType DEF Fits, NoBucketFits
    <2>3. \A t \in Instant : t >= now => g[t] = 0
      BY <2>1 DEF NoBucketFits
    <2>4. Tally(att, g, k, Span(now + 1 - Window)) <= Tally(att, g, k, Span(now - Window))
      <3>1. Span(now - Window) \in SUBSET Instant /\ Span(now + 1 - Window) \in SUBSET Instant
        BY <1>1, SpanType
      <3>2. \A t \in Span(now + 1 - Window) : g[t] = 0 \/ t \in Span(now - Window)
        BY <1>1, <2>3 DEF Span
      <3>3. \A r \in Open(att, k, Span(now + 1 - Window)) : att[r].at \in Span(now - Window)
        BY <1>1, <2>2, ConcernedType DEF Open, Span
      <3>. QED  BY <3>1, <3>2, <3>3, TallyWithin
    <2>5. Tally(att, g, k, Span(now + 1 - Window)) <= Limit
      <3>1. Span(now - Window) \in SUBSET Instant /\ Span(now + 1 - Window) \in SUBSET Instant
        BY <1>1, SpanType
      <3>2. Tally(att, g, k, Span(now - Window)) <= Limit
        BY <2>1 DEF NoBucketFits
      <3>. QED  BY <1>1, <2>4, <3>1, <3>2, TallyNat
    <2>6. NoBucketFits(att, g, now + 1, k)
      BY <1>1, <2>2, <2>3, <2>5 DEF NoBucketFits
    <2>. QED  BY <1>2, <1>4, <2>6 DEF Fits
  <1>. QED  BY <1>3, <1>4

(* What an attempt does to the tallies of its keys.                         *)
LEMMA TallyAdds ==
    ASSUME NEW att \in Reservations, NEW g \in History, NEW r \in Login, att[r] = NoAttempt,
           NEW a \in Attempt, NEW k, k = a.ip \/ k = a.login, NEW span \in SUBSET Instant,
           NEW more, Adds(att, r, a, more)
    PROVE  Tally(more, g, k, span) = Tally(att, g, k, span) + (IF a.at \in span THEN 1 ELSE 0)
  <1>1. Open(att, k, span) \in SUBSET Concerned(att, k)
    BY DEF Open
  <1>2. /\ Concerned(more, k) = Concerned(att, k) \union {r}
        /\ more[r] = a /\ r \notin Concerned(att, k)
        /\ \A q \in Concerned(att, k) : more[q] = att[q]
    BY AddsOne
  <1>5. Cardinality(Open(att, k, span) \union {r}) = Cardinality(Open(att, k, span)) + 1
    BY <1>1, <1>2, OneMore
  <1>3. CASE a.at \in span
    <2>1. Open(more, k, span) = Open(att, k, span) \union {r}
      BY <1>2, <1>3 DEF Open
    <2>2. Cardinality(Open(more, k, span)) = Cardinality(Open(att, k, span)) + 1
      BY <1>5, <2>1, Zenon
    <2>. QED  BY <1>3, <2>2, TallyNat DEF Tally
  <1>4. CASE a.at \notin span
    <2>1. Open(more, k, span) = Open(att, k, span)
      BY <1>2, <1>4 DEF Open
    <2>2. Cardinality(Open(more, k, span)) = Cardinality(Open(att, k, span))
      BY <2>1, Zenon
    <2>. QED  BY <1>4, <2>2, TallyNat DEF Tally
  <1>. QED  BY <1>3, <1>4

LEMMA TallyRemoves ==
    ASSUME NEW att \in Reservations, NEW g \in History, NEW k, NEW r \in Concerned(att, k),
           NEW span \in SUBSET Instant, NEW less, Adds(att, r, NoAttempt, less)
    PROVE  Tally(less, g, k, span) =
            Tally(att, g, k, span) - (IF att[r].at \in span THEN 1 ELSE 0)
  <1>1. Open(att, k, span) \in SUBSET Concerned(att, k)
    BY DEF Open
  <1>2. /\ Concerned(less, k) = Concerned(att, k) \ {r}
        /\ \A q \in Concerned(less, k) : less[q] = att[q]
        /\ Cardinality(Open(att, k, span) \ {r}) =
            Cardinality(Open(att, k, span)) - (IF r \in Open(att, k, span) THEN 1 ELSE 0)
    BY <1>1, RemovesOne
  <1>3. r \in Open(att, k, span) <=> att[r].at \in span
    BY DEF Open
  <1>4. Open(less, k, span) = Open(att, k, span) \ {r}
    BY <1>2 DEF Open
  <1>5. Cardinality(Open(less, k, span)) = Cardinality(Open(att, k, span) \ {r})
    BY <1>4, Zenon
  <1>6. Cardinality(Open(att, k, span)) \in Nat /\ Cardinality(Failed(g, span)) \in Nat
    BY TallyNat
  <1>7. CASE att[r].at \in span
    BY <1>2, <1>3, <1>5, <1>6, <1>7 DEF Tally
  <1>8. CASE att[r].at \notin span
    BY <1>2, <1>3, <1>5, <1>6, <1>8 DEF Tally
  <1>. QED  BY <1>7, <1>8

(* An attempt that is admitted in a bucket that is there.                    *)
LEMMA CountedFits ==
    ASSUME NEW bs, Buckets(bs), NEW att \in Reservations, NEW g \in History, NEW now \in Instant, NEW k,
           Fits(bs, att, g, now, k), k \in DOMAIN bs,
           bs[k].resetAt > now, bs[k].count < Limit,
           NEW r \in Login, att[r] = NoAttempt, NEW a \in Attempt, k = a.ip \/ k = a.login,
           NEW more \in Reservations, Adds(att, r, a, more),
           a.at = now, Due(more, k, r) = bs[k].resetAt,
           NEW bs2, k \in DOMAIN bs2, bs2[k] \in SomeBucket,
           bs2[k].count = bs[k].count + 1, bs2[k].pending = bs[k].pending + 1,
           bs2[k].resetAt = bs[k].resetAt
    PROVE  Fits(bs2, more, g, now, k)
  <1>. DEFINE end == bs[k].resetAt
              start == end - Window
  <1>1. /\ now \in Int /\ Window \in Nat \ {0} /\ Instant \subseteq Nat /\ Limit \in Nat \ {0}
        /\ end \in Int /\ start \in Int /\ start <= now /\ 0 <= start /\ now < end
        /\ end = start + Window /\ bs[k].count \in Int /\ bs[k].pending \in Int
    BY TimeAssumption, LimitAssumption DEF Instant, Fits, BucketFits, Buckets, SomeBucket
  <1>2. BucketFits(bs[k], att, g, now, k)
    BY DEF Fits
  <1>3. /\ Concerned(more, k) = Concerned(att, k) \union {r}
        /\ more[r] = a /\ r \notin Concerned(att, k)
        /\ \A q \in Concerned(att, k) : more[q] = att[q]
    BY AddsOne
  <1>4. \A q \in Concerned(att, k) : Due(more, k, q) = Due(att, k, q)
    BY <1>3 DEF Due
  <1>5. \A q \in Concerned(more, k) :
            /\ more[q].at <= now /\ more[q].at < Due(more, k, q)
            /\ Due(more, k, q) <= more[q].at + Window
            /\ Due(more, k, q) = end \/ Due(more, k, q) <= start
    BY <1>1, <1>2, <1>3, <1>4 DEF Fits, BucketFits
  <1>6. \A span \in SUBSET Instant :
            Tally(more, g, k, span) = Tally(att, g, k, span) + (IF now \in span THEN 1 ELSE 0)
    BY TallyAdds
  <1>7. Span(start) \in SUBSET Instant /\ Span(start - Window) \in SUBSET Instant
        /\ \A t \in Instant : Span(t) \in SUBSET Instant
    BY <1>1 DEF Span
  <1>8. now \in Span(start) /\ now \notin Span(start - Window)
    BY <1>1 DEF Span
  <1>9. Tally(att, g, k, Span(start)) = bs[k].count /\ Tally(att, g, k, Span(start - Window)) <= Limit
    BY <1>2 DEF BucketFits
  <1>10. /\ Tally(more, g, k, Span(start)) = bs[k].count + 1
         /\ Tally(more, g, k, Span(start - Window)) <= Limit
    BY <1>1, <1>6, <1>7, <1>8, <1>9, TallyNat
  <1>11. Cardinality(Of(more, k, end)) = bs[k].pending + 1
    <2>1. Of(more, k, end) = Of(att, k, end) \union {r}
      BY <1>3, <1>4 DEF Of
    <2>2. Cardinality(Of(att, k, end) \union {r}) = Cardinality(Of(att, k, end)) + 1
      BY <1>3, OneMore DEF Of
    <2>3. Cardinality(Of(att, k, end)) = bs[k].pending
      BY <1>2 DEF BucketFits
    <2>. QED  BY <2>1, <2>2, <2>3, Zenon
  <1>12. \A t \in Instant : t >= end => g[t] = 0
    BY <1>2 DEF BucketFits
  <1>13. BucketFits(bs2[k], more, g, now, k)
    <2>1. bs2[k].count \in 1..Limit
      BY <1>1, <1>2 DEF BucketFits
    <2>. QED  BY <1>1, <1>5, <1>10, <1>11, <1>12, <2>1 DEF BucketFits
  <1>14. ASSUME NEW t \in Instant PROVE Tally(more, g, k, Span(t)) <= 2 * Limit
    <2>1. CASE now \notin Span(t)
      BY <1>1, <1>6, <1>7, <2>1, TallyNat DEF Fits
    <2>2. CASE now \in Span(t)
      <3>1. t \in Nat /\ t <= now /\ now < t + Window
        BY <1>1, <2>2 DEF Span
      <3>2. \A u \in Span(t) : g[u] = 0 \/ u \in Span(start - Window) \union Span(start)
        BY <1>1, <1>12, <3>1 DEF Span
      <3>3. \A q \in Open(more, k, Span(t)) : more[q].at \in Span(start - Window) \union Span(start)
        <4>. SUFFICES ASSUME NEW q \in Open(more, k, Span(t))
                      PROVE  more[q].at \in Span(start - Window) \union Span(start)
          OBVIOUS
        <4>1. q \in Concerned(more, k) /\ more[q].at \in Span(t)
          BY DEF Open
        <4>2. more[q].at <= now
          BY <1>5, <4>1
        <4>3. t \in Int /\ start \in Int /\ now < start + Window
          BY <1>1
        <4>. HIDE DEF start
        <4>. QED  BY <1>1, <3>1, <4>1, <4>2, <4>3, NearSpan
      <3>4. Tally(more, g, k, Span(t)) <=
                Tally(more, g, k, Span(start - Window)) + Tally(more, g, k, Span(start))
        BY <1>7, <3>2, <3>3, TallyCover
      <3>. QED
        BY <1>1, <1>7, <1>10, <3>4, TallyNat
    <2>. QED  BY <2>1, <2>2
  <1>. QED  BY <1>5, <1>13, <1>14 DEF Fits

(* An attempt that gets a bucket of its own.                                *)
LEMMA FirstFits ==
    ASSUME NEW bs, Buckets(bs), NEW att \in Reservations, NEW g \in History, NEW now \in Instant, NEW k,
           Fits(bs, att, g, now, k), k \notin DOMAIN bs,
           NEW r \in Login, att[r] = NoAttempt, NEW a \in Attempt, k = a.ip \/ k = a.login,
           NEW more \in Reservations, Adds(att, r, a, more),
           a.at = now, Due(more, k, r) = now + Window,
           NEW bs2, k \in DOMAIN bs2, bs2[k] \in SomeBucket,
           bs2[k].count = 1, bs2[k].pending = 1, bs2[k].resetAt = now + Window
    PROVE  Fits(bs2, more, g, now, k)
  <1>1. /\ now \in Int /\ 0 <= now /\ Window \in Nat \ {0} /\ Instant \subseteq Nat
        /\ Limit \in Nat \ {0} /\ now + Window - Window = now
    BY TimeAssumption, LimitAssumption DEF Instant
  <1>2. NoBucketFits(att, g, now, k)
    BY DEF Fits
  <1>3. /\ Concerned(more, k) = Concerned(att, k) \union {r}
        /\ more[r] = a /\ r \notin Concerned(att, k)
        /\ \A q \in Concerned(att, k) : more[q] = att[q]
    BY AddsOne
  <1>4. \A q \in Concerned(att, k) :
            Due(more, k, q) = Due(att, k, q) /\ Due(att, k, q) <= now
    BY <1>2, <1>3 DEF Due, NoBucketFits
  <1>5. \A q \in Concerned(more, k) :
            /\ more[q].at <= now /\ more[q].at < Due(more, k, q)
            /\ Due(more, k, q) <= more[q].at + Window
            /\ Due(more, k, q) = now + Window \/ Due(more, k, q) <= now
    BY <1>1, <1>3, <1>4 DEF Fits
  <1>6. \A span \in SUBSET Instant :
            Tally(more, g, k, span) = Tally(att, g, k, span) + (IF now \in span THEN 1 ELSE 0)
    BY TallyAdds
  <1>7. /\ Span(now) \in SUBSET Instant /\ Span(now - Window) \in SUBSET Instant
        /\ \A t \in Instant : Span(t) \in SUBSET Instant
        /\ now \in Span(now) /\ now \notin Span(now - Window)
    BY <1>1 DEF Span
  <1>8. \A t \in Instant : t >= now => g[t] = 0
    BY <1>2 DEF NoBucketFits
  <1>9. Tally(att, g, k, Span(now)) = 0
    <2>1. \A q \in Open(att, k, Span(now)) : att[q].at \in {}
      BY <1>1, <1>4, ConcernedType DEF Fits, Open, Span
    <2>2. \A t \in Span(now) : g[t] = 0
      BY <1>1, <1>8 DEF Span
    <2>3. Tally(att, g, k, Span(now)) <= Tally(att, g, k, {})
      BY <1>7, <2>1, <2>2, TallyWithin
    <2>. QED  BY <1>7, <2>3, TallyNothing, TallyNat
  <1>10. /\ Tally(more, g, k, Span(now)) = 1
         /\ Tally(more, g, k, Span(now - Window)) <= Limit
    <2>1. Tally(att, g, k, Span(now - Window)) <= Limit
      BY <1>2 DEF NoBucketFits
    <2>. QED  BY <1>1, <1>6, <1>7, <1>9, <2>1, TallyNat
  <1>11. Cardinality(Of(more, k, now + Window)) = 1
    <2>1. Of(more, k, now + Window) = {r}
      BY <1>1, <1>3, <1>4 DEF Of
    <2>. QED  BY <2>1, FS_Singleton, Zenon
  <1>12. BucketFits(bs2[k], more, g, now, k)
    <2>1. \A t \in Instant : t >= now + Window => g[t] = 0
      BY <1>1, <1>8
    <2>. QED  BY <1>1, <1>5, <1>10, <1>11, <2>1 DEF BucketFits
  <1>13. ASSUME NEW t \in Instant PROVE Tally(more, g, k, Span(t)) <= 2 * Limit
    <2>1. CASE now \notin Span(t)
      BY <1>1, <1>6, <1>7, <2>1, TallyNat DEF Fits
    <2>2. CASE now \in Span(t)
      <3>1. t \in Nat /\ t <= now /\ now < t + Window
        BY <1>1, <2>2 DEF Span
      <3>2. \A u \in Span(t) : g[u] = 0 \/ u \in Span(now - Window) \union Span(now)
        BY <1>1, <3>1 DEF Span
      <3>3. \A q \in Open(more, k, Span(t)) : more[q].at \in Span(now - Window) \union Span(now)
        <4>. SUFFICES ASSUME NEW q \in Open(more, k, Span(t))
                      PROVE  more[q].at \in Span(now - Window) \union Span(now)
          OBVIOUS
        <4>1. q \in Concerned(more, k) /\ more[q].at \in Span(t)
          BY DEF Open
        <4>2. more[q].at <= now
          BY <1>5, <4>1
        <4>3. t \in Int /\ now < now + Window
          BY <1>1
        <4>. QED  BY <1>1, <3>1, <4>1, <4>2, <4>3, NearSpan
      <3>4. Tally(more, g, k, Span(t)) <=
                Tally(more, g, k, Span(now - Window)) + Tally(more, g, k, Span(now))
        BY <1>7, <3>2, <3>3, TallyCover
      <3>5. Tally(more, g, k, Span(t)) \in Nat /\ Tally(more, g, k, Span(now - Window)) \in Nat
        BY <1>7, TallyNat
      <3>6. Tally(more, g, k, Span(now)) <= Limit
        BY <1>1, <1>10
      <3>. QED  BY <1>1, <1>10, <3>4, <3>5, <3>6
    <2>. QED  BY <2>1, <2>2
  <1>. QED  BY <1>5, <1>12, <1>13 DEF Fits

-----------------------------------------------------------------------------
(* The end of an attempt.                                                  *)

(* What is left when nothing is counted.                                   *)
LEMMA NothingCounted ==
    ASSUME NEW att, NEW g \in History, NEW k, NEW span \in SUBSET Instant, Tally(att, g, k, span) = 0
    PROVE  Open(att, k, span) = {} /\ \A t \in span : g[t] = 0
  <1>1. Cardinality(Failed(g, span)) = 0 /\ Cardinality(Open(att, k, span)) = 0
    BY TallyNat DEF Tally
  <1>2. IsFiniteSet(Failed(g, span))
    BY FailedFinite
  <1>3. IsFiniteSet(Open(att, k, span))
    BY OpenFinite DEF Open
  <1>4. Failed(g, span) = {} /\ Open(att, k, span) = {}
    BY <1>1, <1>2, <1>3, FS_EmptySet
  <1>5. ASSUME NEW t \in span, g[t] # 0 PROVE FALSE
    <2>1. g[t] \in Nat \ {0}
      BY <1>5 DEF History
    <2>2. <<t, 1>> \in Failed(g, span)
      BY <2>1, FailedIn
    <2>. QED  BY <1>4, <2>2
  <1>. QED  BY <1>4, <1>5

(* A failure is counted where its attempt was: the tallies stay.            *)
LEMMA TallyKept ==
    ASSUME NEW att \in Reservations, NEW g \in History, NEW k, NEW r \in Concerned(att, k),
           NEW less, Adds(att, r, NoAttempt, less), NEW more, Fails(g, att[r].at, more),
           NEW span \in SUBSET Instant
    PROVE  Tally(less, more, k, span) = Tally(att, g, k, span)
  <1>. DEFINE n == IF att[r].at \in span THEN 1 ELSE 0
  <1>1. Tally(less, g, k, span) = Tally(att, g, k, span) - n
    BY TallyRemoves
  <1>2. att[r].at \in Instant
    BY ConcernedType
  <1>3. Cardinality(Failed(more, span)) = Cardinality(Failed(g, span)) + n
    BY <1>2, FailsOne
  <1>4. n \in Int /\ Tally(att, g, k, span) \in Int
        /\ Cardinality(Open(less, k, span)) \in Int /\ Cardinality(Failed(g, span)) \in Int
    BY TallyNat
  <1>. HIDE DEF n
  <1>. QED  BY <1>1, <1>3, <1>4 DEF Tally

(* Who is left when an attempt ends.                                       *)
LEMMA Leaves ==
    ASSUME NEW att \in Reservations, NEW k, NEW r \in Concerned(att, k),
           NEW less, Adds(att, r, NoAttempt, less)
    PROVE  /\ Concerned(less, k) = Concerned(att, k) \ {r}
           /\ \A q \in Concerned(less, k) : less[q] = att[q] /\ Due(less, k, q) = Due(att, k, q)
           /\ \A end : Cardinality(Of(less, k, end)) =
                Cardinality(Of(att, k, end)) - (IF Due(att, k, r) = end THEN 1 ELSE 0)
  <1>1. r \in Login /\ less[r] = NoAttempt /\ \A q \in Login : q # r => less[q] = att[q]
    BY DEF Adds, Concerned
  <1>2. /\ Concerned(less, k) = Concerned(att, k) \ {r}
        /\ \A q \in Concerned(less, k) : less[q] = att[q]
    BY <1>1 DEF Concerned
  <1>3. \A q \in Concerned(less, k) : Due(less, k, q) = Due(att, k, q)
    BY <1>2 DEF Due
  <1>4. ASSUME NEW end
        PROVE  Cardinality(Of(less, k, end)) =
                Cardinality(Of(att, k, end)) - (IF Due(att, k, r) = end THEN 1 ELSE 0)
    <2>1. Of(less, k, end) = Of(att, k, end) \ {r}
      BY <1>2, <1>3 DEF Of
    <2>2. Of(att, k, end) \in SUBSET Concerned(att, k)
          /\ (r \in Of(att, k, end) <=> Due(att, k, r) = end)
      BY DEF Of
    <2>3. Cardinality(Of(less, k, end)) = Cardinality(Of(att, k, end) \ {r})
      BY <2>1, Zenon
    <2>4. Cardinality(Of(att, k, end) \ {r}) =
            Cardinality(Of(att, k, end)) - (IF r \in Of(att, k, end) THEN 1 ELSE 0)
      BY <2>2, RemovesOne
    <2>. QED  BY <2>2, <2>3, <2>4
  <1>. QED  BY <1>2, <1>3, <1>4

(* One attempt of the bucket of a key is over, if it is the one that ends then. *)
Kept(bs, bs2, k, end) ==
    /\ k \in DOMAIN bs2 <=> k \in DOMAIN bs
    /\ k \in DOMAIN bs =>
        /\ bs2[k].count = bs[k].count /\ bs2[k].resetAt = bs[k].resetAt
        /\ bs2[k].pending = bs[k].pending - (IF bs[k].resetAt = end THEN 1 ELSE 0)

(* A rejected attempt stays counted in its bucket, if that is still there.   *)
LEMMA KeptFits ==
    ASSUME NEW bs, Buckets(bs), NEW att \in Reservations, NEW g \in History, NEW now \in Instant, NEW k,
           Fits(bs, att, g, now, k), NEW r \in Concerned(att, k),
           NEW less \in Reservations, Adds(att, r, NoAttempt, less),
           NEW more, Fails(g, att[r].at, more),
           NEW bs2, Kept(bs, bs2, k, Due(att, k, r))
    PROVE  Fits(bs2, less, more, now, k)
  <1>1. /\ now \in Int /\ Window \in Nat \ {0} /\ Instant \subseteq Nat /\ Limit \in Nat \ {0}
        /\ more \in History
    BY TimeAssumption, LimitAssumption DEF Instant, Fails
  <1>2. /\ Concerned(less, k) = Concerned(att, k) \ {r}
        /\ \A q \in Concerned(less, k) : less[q] = att[q] /\ Due(less, k, q) = Due(att, k, q)
        /\ \A end : Cardinality(Of(less, k, end)) =
            Cardinality(Of(att, k, end)) - (IF Due(att, k, r) = end THEN 1 ELSE 0)
    BY Leaves
  <1>3. \A span \in SUBSET Instant : Tally(less, more, k, span) = Tally(att, g, k, span)
    BY TallyKept
  <1>4. /\ att[r].at \in Instant /\ att[r].at \in Int /\ Due(att, k, r) \in Int
        /\ att[r].at <= now /\ att[r].at < Due(att, k, r)
    BY ConcernedType DEF Fits
  <1>5. \A t \in Instant : more[t] = IF t = att[r].at THEN g[t] + 1 ELSE g[t]
    BY DEF Fails
  <1>6. \A q \in Concerned(less, k) :
            /\ less[q].at <= now /\ less[q].at < Due(less, k, q)
            /\ Due(less, k, q) <= less[q].at + Window
    BY <1>2 DEF Fits
  <1>7. \A t \in Instant : Tally(less, more, k, Span(t)) <= 2 * Limit
    BY <1>1, <1>3, SpanType DEF Fits
  <1>8. CASE k \in DOMAIN bs
    <2>. DEFINE end == bs[k].resetAt
                start == end - Window
    <2>1. BucketFits(bs[k], att, g, now, k)
      BY <1>8 DEF Fits
    <2>2. end \in Int /\ start \in Int /\ start < end /\ bs[k].pending \in Int
      BY <1>1, <1>8 DEF Buckets, SomeBucket
    <2>3. \A q \in Concerned(less, k) : Due(less, k, q) = end \/ Due(less, k, q) <= start
      BY <1>2, <2>1 DEF BucketFits
    <2>4. att[r].at < end
      BY <1>4, <2>1, <2>2 DEF BucketFits
    <2>5. \A t \in Instant : t >= end => more[t] = 0
      BY <1>1, <1>4, <1>5, <2>1, <2>2, <2>4 DEF BucketFits
    <2>6. bs2[k].pending = Cardinality(Of(less, k, end))
      <3>1. Cardinality(Of(att, k, end)) = bs[k].pending
        BY <2>1 DEF BucketFits
      <3>. QED  BY <1>2, <1>8, <3>1 DEF Kept
    <2>7. /\ bs2[k].count = Tally(less, more, k, Span(start))
          /\ Tally(less, more, k, Span(start - Window)) <= Limit
      <3>1. Span(start) \in SUBSET Instant /\ Span(start - Window) \in SUBSET Instant
        BY <1>1, <2>2, SpanType
      <3>. QED  BY <1>3, <1>8, <2>1, <3>1 DEF BucketFits, Kept
    <2>8. /\ 0 <= start /\ start <= now /\ bs2[k].count \in 1..Limit
          /\ bs2[k].resetAt = bs[k].resetAt
      BY <1>8, <2>1 DEF BucketFits, Kept
    <2>9. BucketFits(bs2[k], less, more, now, k)
      BY <2>3, <2>5, <2>6, <2>7, <2>8 DEF BucketFits
    <2>. QED  BY <1>6, <1>7, <1>8, <2>9 DEF Fits, Kept
  <1>9. CASE k \notin DOMAIN bs
    <2>1. NoBucketFits(att, g, now, k)
      BY <1>9 DEF Fits
    <2>2. Due(att, k, r) <= now /\ \A q \in Concerned(less, k) : Due(less, k, q) <= now
      BY <1>2, <2>1 DEF NoBucketFits
    <2>3. \A t \in Instant : t >= now => more[t] = 0
      BY <1>1, <1>4, <1>5, <2>1, <2>2 DEF NoBucketFits
    <2>4. Tally(less, more, k, Span(now - Window)) <= Limit
      <3>1. Span(now - Window) \in SUBSET Instant
        BY <1>1, SpanType
      <3>. QED  BY <1>3, <2>1, <3>1 DEF NoBucketFits
    <2>5. NoBucketFits(less, more, now, k)
      BY <2>2, <2>3, <2>4 DEF NoBucketFits
    <2>. QED  BY <1>6, <1>7, <1>9, <2>5 DEF Fits, Kept
  <1>. QED  BY <1>8, <1>9

(* The same bucket for a key, or none in both.                              *)
Agree(bs, bs2, k) ==
    (k \in DOMAIN bs2 <=> k \in DOMAIN bs) /\ (k \in DOMAIN bs => bs2[k] = bs[k])

(* One attempt less in the bucket of a key, if it is the one that ends then.   *)
Released(bs, bs2, k, end) ==
    IF k \in DOMAIN bs /\ bs[k].resetAt = end
    THEN IF bs[k].count = 1
         THEN k \notin DOMAIN bs2
         ELSE /\ k \in DOMAIN bs2
              /\ bs2[k].count = bs[k].count - 1 /\ bs2[k].pending = bs[k].pending - 1
              /\ bs2[k].resetAt = end
    ELSE Agree(bs, bs2, k)

LEMMA ReleasedFits ==
    ASSUME NEW bs, Buckets(bs), NEW att \in Reservations, NEW g \in History, NEW now \in Instant, NEW k,
           Fits(bs, att, g, now, k), NEW r \in Concerned(att, k),
           NEW less \in Reservations, Adds(att, r, NoAttempt, less),
           NEW bs2, Released(bs, bs2, k, Due(att, k, r))
    PROVE  Fits(bs2, less, g, now, k)
  <1>1. now \in Int /\ Window \in Nat \ {0} /\ Instant \subseteq Nat /\ Limit \in Nat \ {0}
    BY TimeAssumption, LimitAssumption DEF Instant
  <1>2. /\ Concerned(less, k) = Concerned(att, k) \ {r}
        /\ \A q \in Concerned(less, k) : less[q] = att[q] /\ Due(less, k, q) = Due(att, k, q)
        /\ \A end : Cardinality(Of(less, k, end)) =
            Cardinality(Of(att, k, end)) - (IF Due(att, k, r) = end THEN 1 ELSE 0)
    BY Leaves
  <1>3. \A span \in SUBSET Instant :
            /\ Tally(less, g, k, span) = Tally(att, g, k, span) - (IF att[r].at \in span THEN 1 ELSE 0)
            /\ Tally(att, g, k, span) \in Nat /\ Tally(less, g, k, span) \in Nat
            /\ Tally(less, g, k, span) <= Tally(att, g, k, span)
    BY TallyRemoves, TallyNat
  <1>4. /\ att[r].at \in Instant /\ att[r].at \in Int /\ Due(att, k, r) \in Int
        /\ att[r].at <= now /\ att[r].at < Due(att, k, r) /\ Due(att, k, r) <= att[r].at + Window
    BY ConcernedType DEF Fits
  <1>5. \A q \in Concerned(less, k) :
            /\ less[q].at \in Instant /\ less[q].at \in Int /\ Due(less, k, q) \in Int
            /\ less[q].at <= now /\ less[q].at < Due(less, k, q)
            /\ Due(less, k, q) <= less[q].at + Window
    BY <1>2, ConcernedType DEF Fits
  <1>6. ASSUME NEW t \in Instant PROVE Tally(less, g, k, Span(t)) <= 2 * Limit
    <2>1. Span(t) \in SUBSET Instant /\ Tally(att, g, k, Span(t)) <= 2 * Limit
      BY DEF Fits, Span
    <2>2. Tally(less, g, k, Span(t)) <= Tally(att, g, k, Span(t))
          /\ Tally(less, g, k, Span(t)) \in Nat /\ Tally(att, g, k, Span(t)) \in Nat
      BY <1>3, <2>1
    <2>. QED  BY <1>1, <2>1, <2>2
  <1>7. CASE k \in DOMAIN bs
    <2>. DEFINE end == bs[k].resetAt
                start == end - Window
    <2>1. BucketFits(bs[k], att, g, now, k)
      BY <1>7 DEF Fits
    <2>2. /\ end \in Int /\ start \in Int /\ start < end /\ end = start + Window
          /\ bs[k].pending \in Int /\ bs[k].count \in Int
          /\ 0 <= start /\ start <= now
          /\ bs[k].resetAt = end /\ bs[k].resetAt - Window = start
      BY <1>1, <1>7, <2>1 DEF Buckets, SomeBucket, BucketFits
    <2>3. \A q \in Concerned(less, k) : Due(less, k, q) = end \/ Due(less, k, q) <= start
      BY <1>2, <2>1 DEF BucketFits
    <2>4. \A t \in Instant : t >= end => g[t] = 0
      BY <2>1 DEF BucketFits
    <2>. HIDE DEF end, start
    <2>5. Span(start) \in SUBSET Instant /\ Span(start - Window) \in SUBSET Instant
      BY <1>1, <2>2, SpanType
    <2>6. Tally(less, g, k, Span(start - Window)) <= Limit
      <3>1. Tally(att, g, k, Span(start - Window)) <= Limit
        BY <2>1, <2>2 DEF BucketFits
      <3>2. /\ Tally(less, g, k, Span(start - Window)) <= Tally(att, g, k, Span(start - Window))
            /\ Tally(less, g, k, Span(start - Window)) \in Nat
            /\ Tally(att, g, k, Span(start - Window)) \in Nat
        BY <1>3, <2>5
      <3>. QED  BY <1>1, <3>1, <3>2
    <2>7. Tally(att, g, k, Span(start)) = bs[k].count /\ bs[k].count \in 1..Limit
          /\ Cardinality(Of(att, k, end)) = bs[k].pending
      BY <2>1, <2>2 DEF BucketFits
    <2>8. CASE Due(att, k, r) = end
      <3>1. att[r].at \in Span(start)
        BY <1>1, <1>4, <2>2, <2>8, InSpan
      <3>2. Tally(less, g, k, Span(start)) = bs[k].count - 1
        BY <1>3, <2>5, <2>7, <3>1
      <3>3. CASE bs[k].count = 1
        <4>1. k \notin DOMAIN bs2
          BY <1>7, <2>2, <2>8, <3>3 DEF Released
        <4>2. Open(less, k, Span(start)) = {} /\ \A t \in Span(start) : g[t] = 0
          <5>1. Tally(less, g, k, Span(start)) = 0
            BY <3>2, <3>3
          <5>. QED  BY <2>5, <5>1, NothingCounted
        <4>3. \A q \in Concerned(less, k) : Due(less, k, q) <= start
          <5>. SUFFICES ASSUME NEW q \in Concerned(less, k), Due(less, k, q) = end PROVE FALSE
            BY <2>3
          <5>1. less[q].at \in Span(start)
            BY <1>1, <1>5, <2>2, InSpan
          <5>. QED  BY <4>2, <5>1 DEF Open
        <4>4. \A q \in Concerned(less, k) : Due(less, k, q) <= now
          BY <1>1, <1>5, <2>2, <4>3
        <4>5. \A t \in Instant : t >= start => g[t] = 0
          BY <1>1, <2>2, <2>4, <4>2, InSpan
        <4>6. \A t \in Instant : t >= now => g[t] = 0
          BY <1>1, <2>2, <4>5
        <4>7. Tally(less, g, k, Span(now - Window)) <= Tally(less, g, k, Span(start - Window))
          <5>1. \A t \in Span(now - Window) : g[t] = 0 \/ t \in Span(start - Window)
            BY <1>1, <2>2, <4>5 DEF Span
          <5>2. \A q \in Open(less, k, Span(now - Window)) : less[q].at \in Span(start - Window)
            <6>. SUFFICES ASSUME NEW q \in Concerned(less, k), less[q].at \in Span(now - Window)
                          PROVE  less[q].at \in Span(start - Window)
              BY DEF Open
            <6>1. less[q].at < start
              BY <1>5, <2>2, <4>3
            <6>2. now - Window \in Int /\ start - Window \in Int
              BY <1>1, <2>2
            <6>. QED  BY <1>1, <1>5, <2>2, <6>1, <6>2, InSpan
          <5>3. Span(now - Window) \in SUBSET Instant
            BY <1>1, SpanType
          <5>. QED  BY <2>5, <5>1, <5>2, <5>3, TallyWithin
        <4>8. Tally(less, g, k, Span(now - Window)) <= Limit
          <5>1. Span(now - Window) \in SUBSET Instant
            BY <1>1, SpanType
          <5>. QED  BY <1>1, <1>3, <2>5, <2>6, <4>7, <5>1
        <4>. QED  BY <1>5, <1>6, <4>1, <4>4, <4>6, <4>8 DEF Fits, NoBucketFits
      <3>4. CASE bs[k].count # 1
        <4>1. /\ k \in DOMAIN bs2 /\ bs2[k].resetAt = end
              /\ bs2[k].count = bs[k].count - 1 /\ bs2[k].pending = bs[k].pending - 1
          BY <1>7, <2>2, <2>8, <3>4 DEF Released
        <4>2. bs2[k].count \in 1..Limit
          BY <1>1, <2>7, <3>4, <4>1
        <4>3. bs2[k].pending = Cardinality(Of(less, k, end))
          BY <1>2, <2>7, <2>8, <4>1
        <4>4. BucketFits(bs2[k], less, g, now, k)
          BY <2>2, <2>3, <2>4, <2>6, <3>2, <4>1, <4>2, <4>3 DEF BucketFits
        <4>. QED  BY <1>5, <1>6, <4>1, <4>4 DEF Fits
      <3>. QED  BY <3>3, <3>4
    <2>9. CASE Due(att, k, r) # end
      <3>1. k \in DOMAIN bs2 /\ bs2[k] = bs[k]
        BY <1>7, <2>2, <2>9 DEF Released, Agree
      <3>2. att[r].at \notin Span(start)
        BY <1>4, <2>1, <2>2, <2>9 DEF Span, BucketFits
      <3>3. Tally(less, g, k, Span(start)) = bs[k].count
        BY <1>3, <2>2, <2>5, <2>7, <3>2
      <3>4. bs[k].pending = Cardinality(Of(less, k, end))
        <4>1. Cardinality(Of(less, k, end)) = Cardinality(Of(att, k, end)) - 0
          BY <1>2, <2>9
        <4>. QED  BY <2>2, <2>7, <4>1
      <3>5. BucketFits(bs[k], less, g, now, k)
        BY <2>2, <2>3, <2>4, <2>6, <2>7, <3>3, <3>4 DEF BucketFits
      <3>. QED  BY <1>5, <1>6, <3>1, <3>5 DEF Fits
    <2>. QED  BY <2>8, <2>9
  <1>8. CASE k \notin DOMAIN bs
    <2>1. NoBucketFits(att, g, now, k) /\ k \notin DOMAIN bs2
      BY <1>8 DEF Fits, Released, Agree
    <2>2. Span(now - Window) \in SUBSET Instant
      BY <1>1, SpanType
    <2>3. Tally(less, g, k, Span(now - Window)) <= Limit
      <3>1. Tally(att, g, k, Span(now - Window)) <= Limit
        BY <2>1 DEF NoBucketFits
      <3>. QED  BY <1>1, <1>3, <2>2, <3>1
    <2>4. \A q \in Concerned(less, k) : Due(less, k, q) <= now
      BY <1>2, <2>1 DEF NoBucketFits
    <2>5. NoBucketFits(less, g, now, k)
      BY <2>1, <2>3, <2>4 DEF NoBucketFits
    <2>. QED  BY <1>5, <1>6, <2>1, <2>5 DEF Fits
  <1>. QED  BY <1>7, <1>8

(* A login forgets the failures of its id: the bucket is left with the        *)
(* attempts that are open in it.                                            *)
Forgotten(bs, bs2, k) ==
    IF k \in DOMAIN bs /\ bs[k].pending # 0
    THEN /\ k \in DOMAIN bs2
         /\ bs2[k].count = bs[k].pending /\ bs2[k].pending = bs[k].pending
         /\ bs2[k].resetAt = bs[k].resetAt
    ELSE k \notin DOMAIN bs2

LEMMA ForgottenFits ==
    ASSUME NEW bs, Buckets(bs), NEW att \in Reservations, NEW g \in History, NEW now \in Instant, NEW k,
           Fits(bs, att, g, now, k),
           NEW none \in History, \A t \in Instant : none[t] = 0,
           NEW bs2, Forgotten(bs, bs2, k)
    PROVE  Fits(bs2, att, none, now, k)
  <1>1. now \in Int /\ Window \in Nat \ {0} /\ Instant \subseteq Nat /\ Limit \in Nat \ {0}
    BY TimeAssumption, LimitAssumption DEF Instant
  <1>2. ASSUME NEW span \in SUBSET Instant
        PROVE  /\ Tally(att, none, k, span) = Cardinality(Open(att, k, span))
               /\ Tally(att, none, k, span) <= Tally(att, g, k, span)
               /\ Tally(att, none, k, span) \in Nat /\ Tally(att, g, k, span) \in Nat
    <2>1. Failed(none, span) = {}
      <3>. SUFFICES ASSUME NEW x \in Failed(none, span) PROVE FALSE
        OBVIOUS
      <3>1. PICK t \in span : \E n \in 1..none[t] : x = <<t, n>>
        BY FailedIn
      <3>. QED  BY <3>1
    <2>2. Cardinality({}) = 0
      BY FS_EmptySet
    <2>3. Cardinality(Failed(none, span)) = 0
      BY <2>1, <2>2, Zenon
    <2>4. /\ Cardinality(Open(att, k, span)) \in Nat /\ Cardinality(Failed(g, span)) \in Nat
          /\ Tally(att, g, k, span) \in Nat
      BY TallyNat
    <2>. QED  BY <2>3, <2>4 DEF Tally
  <1>3. \A q \in Concerned(att, k) :
            /\ att[q].at \in Instant /\ att[q].at \in Int /\ Due(att, k, q) \in Int
            /\ att[q].at <= now /\ att[q].at < Due(att, k, q)
            /\ Due(att, k, q) <= att[q].at + Window
    BY ConcernedType DEF Fits
  <1>4. ASSUME NEW t \in Instant PROVE Tally(att, none, k, Span(t)) <= 2 * Limit
    <2>1. Span(t) \in SUBSET Instant /\ Tally(att, g, k, Span(t)) <= 2 * Limit
      BY DEF Fits, Span
    <2>. QED  BY <1>1, <1>2, <2>1
  <1>5. CASE k \in DOMAIN bs
    <2>. DEFINE end == bs[k].resetAt
                start == end - Window
    <2>1. BucketFits(bs[k], att, g, now, k)
      BY <1>5 DEF Fits
    <2>2. /\ end \in Int /\ start \in Int /\ start < end /\ end = start + Window
          /\ bs[k].pending \in Int /\ bs[k].count \in Int
          /\ 0 <= start /\ start <= now
          /\ bs[k].resetAt = end /\ bs[k].resetAt - Window = start
      BY <1>1, <1>5, <2>1 DEF Buckets, SomeBucket, BucketFits
    <2>3. \A q \in Concerned(att, k) : Due(att, k, q) = end \/ Due(att, k, q) <= start
      BY <2>1 DEF BucketFits
    <2>. HIDE DEF end, start
    <2>4. Span(start) \in SUBSET Instant /\ Span(start - Window) \in SUBSET Instant
      BY <1>1, <2>2, SpanType
    <2>5. /\ Tally(att, g, k, Span(start)) = bs[k].count /\ bs[k].count \in 1..Limit
          /\ Tally(att, g, k, Span(start - Window)) <= Limit
          /\ Cardinality(Of(att, k, end)) = bs[k].pending
      BY <2>1, <2>2 DEF BucketFits
    <2>6. Tally(att, none, k, Span(start - Window)) <= Limit
      BY <1>1, <1>2, <2>4, <2>5
    <2>7. Tally(att, none, k, Span(start)) = bs[k].pending
      <3>1. ASSUME NEW q \in Concerned(att, k)
            PROVE  Due(att, k, q) = end <=> att[q].at \in Span(start)
        BY <1>1, <1>3, <2>2, <2>3, InSpan
      <3>2. Of(att, k, end) = Open(att, k, Span(start))
        BY <3>1 DEF Of, Open
      <3>3. Cardinality(Of(att, k, end)) = Cardinality(Open(att, k, Span(start)))
        BY <3>2, Zenon
      <3>. QED  BY <1>2, <2>4, <2>5, <3>3
    <2>8. CASE bs[k].pending # 0
      <3>1. /\ k \in DOMAIN bs2 /\ bs2[k].resetAt = end
            /\ bs2[k].count = bs[k].pending /\ bs2[k].pending = bs[k].pending
        BY <1>5, <2>2, <2>8 DEF Forgotten
      <3>2. bs[k].pending \in 1..Limit
        BY <1>1, <1>2, <2>2, <2>4, <2>5, <2>7, <2>8
      <3>3. BucketFits(bs2[k], att, none, now, k)
        BY <2>2, <2>3, <2>5, <2>6, <2>7, <3>1, <3>2 DEF BucketFits
      <3>. QED  BY <1>3, <1>4, <3>1, <3>3 DEF Fits
    <2>9. CASE bs[k].pending = 0
      <3>1. k \notin DOMAIN bs2
        BY <2>9 DEF Forgotten
      <3>2. Tally(att, none, k, Span(start)) = 0
        BY <2>7, <2>9
      <3>3. Open(att, k, Span(start)) = {}
        BY <2>4, <3>2, NothingCounted
      <3>4. ASSUME NEW q \in Concerned(att, k) PROVE Due(att, k, q) <= start
        <4>. SUFFICES ASSUME Due(att, k, q) = end PROVE FALSE
          BY <2>3
        <4>1. att[q].at \in Span(start)
          BY <1>1, <1>3, <2>2, InSpan
        <4>. QED  BY <3>3, <4>1 DEF Open
      <3>5. \A q \in Concerned(att, k) : Due(att, k, q) <= now
        BY <1>1, <1>3, <2>2, <3>4
      <3>6. Tally(att, none, k, Span(now - Window)) <= Tally(att, none, k, Span(start - Window))
        <4>1. \A q \in Open(att, k, Span(now - Window)) : att[q].at \in Span(start - Window)
          <5>. SUFFICES ASSUME NEW q \in Concerned(att, k), att[q].at \in Span(now - Window)
                        PROVE  att[q].at \in Span(start - Window)
            BY DEF Open
          <5>1. att[q].at < start
            BY <1>3, <2>2, <3>4
          <5>2. now - Window \in Int /\ start - Window \in Int
            BY <1>1, <2>2
          <5>. QED  BY <1>1, <1>3, <2>2, <5>1, <5>2, InSpan
        <4>2. Span(now - Window) \in SUBSET Instant
          BY <1>1, SpanType
        <4>3. \A t \in Span(now - Window) : none[t] = 0
          BY <4>2
        <4>. QED  BY <2>4, <4>1, <4>2, <4>3, TallyWithin
      <3>7. Tally(att, none, k, Span(now - Window)) <= Limit
        <4>1. Span(now - Window) \in SUBSET Instant
          BY <1>1, SpanType
        <4>. QED  BY <1>1, <1>2, <2>4, <2>6, <3>6, <4>1
      <3>. QED  BY <1>3, <1>4, <3>1, <3>5, <3>7 DEF Fits, NoBucketFits
    <2>. QED  BY <2>8, <2>9
  <1>6. CASE k \notin DOMAIN bs
    <2>1. NoBucketFits(att, g, now, k) /\ k \notin DOMAIN bs2
      BY <1>6 DEF Fits, Forgotten
    <2>2. Span(now - Window) \in SUBSET Instant
      BY <1>1, SpanType
    <2>3. Tally(att, none, k, Span(now - Window)) <= Limit
      <3>1. Tally(att, g, k, Span(now - Window)) <= Limit
        BY <2>1 DEF NoBucketFits
      <3>. QED  BY <1>1, <1>2, <2>2, <3>1
    <2>4. NoBucketFits(att, none, now, k)
      BY <2>1, <2>3 DEF NoBucketFits
    <2>. QED  BY <1>3, <1>4, <2>1, <2>4 DEF Fits
  <1>. QED  BY <1>5, <1>6

-----------------------------------------------------------------------------
(* The operations on the buckets.                                          *)

LEMMA FewerBuckets ==
    ASSUME NEW bs, Buckets(bs), NEW bs2, DOMAIN bs2 \subseteq DOMAIN bs,
           \A k \in DOMAIN bs2 : bs2[k] \in SomeBucket
    PROVE  Buckets(bs2)
  <1>1. IsFiniteSet(DOMAIN bs2) /\ Cardinality(DOMAIN bs2) <= Cardinality(DOMAIN bs)
    BY FS_Subset DEF Buckets
  <1>2. Cardinality(DOMAIN bs) \in Nat /\ Cardinality(DOMAIN bs2) \in Nat
    BY <1>1, FS_CardinalityType DEF Buckets
  <1>. QED  BY <1>1, <1>2, BucketAssumption DEF Buckets

LEMMA AgreeFits ==
    ASSUME NEW bs, NEW bs2, NEW att, NEW g, NEW now, NEW k, Agree(bs, bs2, k),
           Fits(bs, att, g, now, k)
    PROVE  Fits(bs2, att, g, now, k)
  BY SameKey DEF Agree

LEMMA AgreeTwice ==
    ASSUME NEW bs, NEW bs2, NEW bs3, NEW k, Agree(bs, bs2, k), Agree(bs2, bs3, k)
    PROVE  Agree(bs, bs3, k)
  BY DEF Agree

(* Prune: what goes is over.                                               *)
LEMMA PruneFits ==
    ASSUME NEW bs, Buckets(bs), time \in Instant
    PROVE  /\ Buckets(Prune(bs))
           /\ \A k \in DOMAIN Prune(bs) : k \in DOMAIN bs /\ bs[k].resetAt > time
                                          /\ Prune(bs)[k] = bs[k]
           /\ \A att \in Reservations, g \in History, k \in Key :
                Fits(bs, att, g, time, k) => Fits(Prune(bs), att, g, time, k)
  <1>1. /\ DOMAIN Prune(bs) = {k \in DOMAIN bs : bs[k].resetAt > time}
        /\ \A k \in DOMAIN Prune(bs) : Prune(bs)[k] = bs[k]
    BY DEF Prune, Only
  <1>2. Buckets(Prune(bs))
    BY <1>1, FewerBuckets DEF Buckets
  <1>3. ASSUME NEW att \in Reservations, NEW g \in History, NEW k \in Key, Fits(bs, att, g, time, k)
        PROVE  Fits(Prune(bs), att, g, time, k)
    <2>1. CASE k \in DOMAIN bs /\ k \notin DOMAIN Prune(bs)
      <3>1. bs[k] \in SomeBucket /\ bs[k].resetAt <= time
        BY <1>1, <2>1, TimeAssumption DEF Buckets, SomeBucket, Instant
      <3>2. BucketFits(bs[k], att, g, time, k) /\ \A r \in Concerned(att, k) : att[r].at < Due(att, k, r)
        BY <1>3, <2>1 DEF Fits
      <3>3. NoBucketFits(att, g, time, k)
        BY <3>1, <3>2, RunOut
      <3>. QED  BY <1>3, <2>1, <3>3 DEF Fits
    <2>2. CASE ~(k \in DOMAIN bs /\ k \notin DOMAIN Prune(bs))
      <3>1. Agree(bs, Prune(bs), k)
        BY <1>1, <2>2 DEF Agree
      <3>. QED  BY <1>3, <3>1, AgreeFits
    <2>. QED  BY <2>1, <2>2
  <1>. QED  BY <1>1, <1>2, <1>3

LEMMA SettleEffect ==
    ASSUME NEW bs, Buckets(bs), NEW k, NEW end, NEW keep \in BOOLEAN,
           k \in DOMAIN bs => bs[k].count # 0
    PROVE  /\ Buckets(Settle(bs, k, end, keep))
           /\ \A x : x # k => Agree(bs, Settle(bs, k, end, keep), x)
           /\ keep => Kept(bs, Settle(bs, k, end, keep), k, end)
           /\ ~keep => Released(bs, Settle(bs, k, end, keep), k, end)
  <1>. DEFINE bs2 == Settle(bs, k, end, keep)
              c == IF keep THEN bs[k].count ELSE bs[k].count - 1
  <1>1. CASE k \notin DOMAIN bs
    <2>1. bs2 = bs
      BY <1>1 DEF Settle
    <2>. QED  BY <1>1, <2>1 DEF Agree, Kept, Released
  <1>2. CASE k \in DOMAIN bs /\ bs[k].resetAt # end
    <2>1. bs2 = bs /\ bs[k] \in SomeBucket
      BY <1>2 DEF Settle, Buckets
    <2>. QED  BY <1>2, <2>1 DEF Agree, Kept, Released, SomeBucket
  <1>3. CASE k \in DOMAIN bs /\ bs[k].resetAt = end
    <2>1. bs[k] \in SomeBucket /\ bs[k].count \in Int /\ bs[k].pending \in Int
      BY <1>3 DEF Buckets, SomeBucket
    <2>2. c \in Int /\ (keep => c = bs[k].count) /\ (~keep => c = bs[k].count - 1)
      BY <2>1
    <2>3. bs2 = IF c = 0 THEN Only(bs, DOMAIN bs \ {k})
                ELSE [bs EXCEPT ![k].count = c, ![k].pending = @ - 1]
      BY <1>3 DEF Settle
    <2>. HIDE DEF c, bs2
    <2>4. CASE c = 0
      <3>1. DOMAIN bs2 = DOMAIN bs \ {k} /\ \A x \in DOMAIN bs2 : bs2[x] = bs[x]
        BY <2>2, <2>3, <2>4 DEF Only
      <3>2. Buckets(bs2)
        BY <3>1, FewerBuckets DEF Buckets
      <3>3. \A x : x # k => Agree(bs, bs2, x)
        BY <3>1 DEF Agree
      <3>4. ~keep /\ bs[k].count = 1
        BY <1>3, <2>1, <2>2, <2>4
      <3>5. Released(bs, bs2, k, end)
        BY <1>3, <3>1, <3>4 DEF Released
      <3>. QED  BY <3>2, <3>3, <3>4, <3>5 DEF bs2
    <2>5. CASE c # 0
      <3>1. /\ DOMAIN bs2 = DOMAIN bs /\ \A x \in DOMAIN bs2 : x # k => bs2[x] = bs[x]
            /\ bs2[k] \in SomeBucket /\ bs2[k].resetAt = bs[k].resetAt
            /\ bs2[k].count = c /\ bs2[k].pending = bs[k].pending - 1
        <4>1. bs2 = [bs EXCEPT ![k].count = c, ![k].pending = @ - 1]
          BY <2>3, <2>5
        <4>2. /\ DOMAIN bs2 = DOMAIN bs /\ \A x \in DOMAIN bs2 : x # k => bs2[x] = bs[x]
              /\ bs2[k] = [bs[k] EXCEPT !.count = c, !.pending = @ - 1]
          BY <1>3, <4>1
        <4>3. bs[k].pending - 1 \in Int /\ bs[k].resetAt \in Int
          BY <2>1 DEF SomeBucket
        <4>. DEFINE p == bs[k].pending - 1
        <4>4. bs2[k] = [bs[k] EXCEPT !.count = c, !.pending = p]
          BY <4>2
        <4>. HIDE DEF p
        <4>5. bs2[k].count = c /\ bs2[k].pending = p /\ bs2[k].resetAt = bs[k].resetAt
              /\ (p \in Int => bs2[k] \in SomeBucket)
          BY <2>1, <2>2, <4>4 DEF SomeBucket
        <4>. QED  BY <4>2, <4>3, <4>5 DEF p
      <3>2. Buckets(bs2)
        BY <3>1, FewerBuckets DEF Buckets
      <3>3. \A x : x # k => Agree(bs, bs2, x)
        BY <3>1 DEF Agree
      <3>4. keep => Kept(bs, bs2, k, end)
        BY <1>3, <2>2, <3>1 DEF Kept
      <3>5. ~keep => Released(bs, bs2, k, end)
        BY <1>3, <2>1, <2>2, <2>5, <3>1 DEF Released
      <3>. QED  BY <3>2, <3>3, <3>4, <3>5 DEF bs2
    <2>. QED  BY <2>4, <2>5
  <1>. QED  BY <1>1, <1>2, <1>3

LEMMA ForgetEffect ==
    ASSUME NEW bs, Buckets(bs), NEW k
    PROVE  /\ Buckets(ForgetFailures(bs, k))
           /\ \A x : x # k => Agree(bs, ForgetFailures(bs, k), x)
           /\ Forgotten(bs, ForgetFailures(bs, k), k)
  <1>. DEFINE bs2 == ForgetFailures(bs, k)
  <1>1. CASE k \notin DOMAIN bs
    <2>1. bs2 = bs
      BY <1>1 DEF ForgetFailures
    <2>. QED  BY <1>1, <2>1 DEF Agree, Forgotten
  <1>2. CASE k \in DOMAIN bs /\ bs[k].pending = 0
    <2>1. DOMAIN bs2 = DOMAIN bs \ {k} /\ \A x \in DOMAIN bs2 : bs2[x] = bs[x]
      BY <1>2 DEF ForgetFailures, Only
    <2>. HIDE DEF bs2
    <2>2. Buckets(bs2)
      BY <2>1, FewerBuckets DEF Buckets
    <2>. QED  BY <1>2, <2>1, <2>2 DEF bs2, Agree, Forgotten
  <1>3. CASE k \in DOMAIN bs /\ bs[k].pending # 0
    <2>1. bs[k] \in SomeBucket
      BY <1>3 DEF Buckets
    <2>2. bs2 = [bs EXCEPT ![k].count = bs[k].pending]
      BY <1>3 DEF ForgetFailures
    <2>3. /\ DOMAIN bs2 = DOMAIN bs /\ bs2[k] = [bs[k] EXCEPT !.count = bs[k].pending]
          /\ \A x \in DOMAIN bs2 : x # k => bs2[x] = bs[x]
      BY <1>3, <2>2
    <2>. HIDE DEF bs2
    <2>4. /\ bs2[k] \in SomeBucket /\ bs2[k].count = bs[k].pending
          /\ bs2[k].pending = bs[k].pending /\ bs2[k].resetAt = bs[k].resetAt
      BY <2>1, <2>3 DEF SomeBucket
    <2>5. Buckets(bs2)
      BY <2>3, <2>4, FewerBuckets DEF Buckets
    <2>. QED  BY <1>3, <2>3, <2>4, <2>5 DEF bs2, Agree, Forgotten
  <1>. QED  BY <1>1, <1>2, <1>3

(* One more attempt in the bucket of a key, or a bucket with this attempt.    *)
Reserved(bs, bs2, k) ==
    /\ k \in DOMAIN bs2 /\ bs2[k] \in SomeBucket
    /\ IF k \in DOMAIN bs
       THEN /\ bs2[k].count = bs[k].count + 1 /\ bs2[k].pending = bs[k].pending + 1
            /\ bs2[k].resetAt = bs[k].resetAt
       ELSE bs2[k].count = 1 /\ bs2[k].pending = 1 /\ bs2[k].resetAt = time + Window

LEMMA ReserveEffect ==
    ASSUME NEW bs, Buckets(bs), time \in Instant, NEW k \in Key,
           Cardinality(DOMAIN bs \union {k}) <= MaxBuckets
    PROVE  /\ Buckets(ReserveBucket(bs, k))
           /\ DOMAIN ReserveBucket(bs, k) = DOMAIN bs \union {k}
           /\ \A x : x # k => Agree(bs, ReserveBucket(bs, k), x)
           /\ Reserved(bs, ReserveBucket(bs, k), k)
  <1>. DEFINE bs2 == ReserveBucket(bs, k)
  <1>1. time \in Int /\ Window \in Int /\ time + Window \in Int
    BY TimeAssumption, LimitAssumption DEF Instant
  <1>2. ASSUME DOMAIN bs2 = DOMAIN bs \union {k}, \A x \in DOMAIN bs2 : bs2[x] \in SomeBucket
        PROVE  Buckets(bs2)
    <2>1. IsFiniteSet(DOMAIN bs2)
      BY <1>2, FS_AddElement DEF Buckets
    <2>. QED  BY <1>2, <2>1 DEF Buckets
  <1>3. CASE k \in DOMAIN bs
    <2>1. bs[k] \in SomeBucket /\ bs[k].count \in Int /\ bs[k].pending \in Int /\ bs[k].resetAt \in Int
      BY <1>3 DEF Buckets, SomeBucket
    <2>. DEFINE c == bs[k].count + 1
                p == bs[k].pending + 1
    <2>2. bs2 = [bs EXCEPT ![k].count = c, ![k].pending = p]
      BY <1>3 DEF ReserveBucket
    <2>3. c \in Int /\ p \in Int
      BY <2>1
    <2>. HIDE DEF bs2, c, p
    <2>4. /\ DOMAIN bs2 = DOMAIN bs /\ \A x \in DOMAIN bs2 : x # k => bs2[x] = bs[x]
          /\ bs2[k] = [bs[k] EXCEPT !.count = c, !.pending = p]
      BY <1>3, <2>2
    <2>5. bs2[k] \in SomeBucket /\ bs2[k].count = c /\ bs2[k].pending = p
          /\ bs2[k].resetAt = bs[k].resetAt
      BY <2>1, <2>3, <2>4 DEF SomeBucket
    <2>6. Reserved(bs, bs2, k)
      BY <1>3, <2>4, <2>5 DEF Reserved, c, p
    <2>7. Buckets(bs2)
      BY <2>4, <2>5, FewerBuckets DEF Buckets
    <2>. QED  BY <1>3, <2>4, <2>6, <2>7 DEF Agree, bs2
  <1>4. CASE k \notin DOMAIN bs
    <2>1. bs2 = [x \in DOMAIN bs \union {k} |->
                    IF x = k THEN [count |-> 1, pending |-> 1, resetAt |-> time + Window] ELSE bs[x]]
      BY <1>4 DEF ReserveBucket
    <2>. HIDE DEF bs2
    <2>2. /\ DOMAIN bs2 = DOMAIN bs \union {k} /\ \A x \in DOMAIN bs : bs2[x] = bs[x]
          /\ bs2[k] = [count |-> 1, pending |-> 1, resetAt |-> time + Window]
      BY <1>4, <2>1
    <2>3. bs2[k] \in SomeBucket
      BY <1>1, <2>2 DEF SomeBucket
    <2>4. Buckets(bs2)
      BY <1>2, <2>2, <2>3 DEF Buckets
    <2>5. Reserved(bs, bs2, k)
      BY <1>4, <2>2, <2>3 DEF Reserved
    <2>. QED  BY <1>4, <2>2, <2>4, <2>5 DEF Agree, bs2
  <1>. QED  BY <1>3, <1>4

LEMMA ReservedFits ==
    ASSUME NEW bs, Buckets(bs), NEW att \in Reservations, NEW g \in History, time \in Instant, NEW k,
           Fits(bs, att, g, time, k), ~AtLimit(bs, k),
           k \in DOMAIN bs => bs[k].resetAt > time,
           NEW r \in Login, att[r] = NoAttempt, NEW a \in Attempt, k = a.ip \/ k = a.login,
           NEW more \in Reservations, Adds(att, r, a, more), a.at = time,
           NEW bs2, Reserved(bs, bs2, k), Due(more, k, r) = bs2[k].resetAt
    PROVE  Fits(bs2, more, g, time, k)
  <1>1. CASE k \in DOMAIN bs
    <2>1. bs[k].count < Limit
      BY <1>1, LimitAssumption DEF AtLimit, Buckets, SomeBucket
    <2>2. /\ k \in DOMAIN bs2 /\ bs2[k] \in SomeBucket
          /\ bs2[k].count = bs[k].count + 1 /\ bs2[k].pending = bs[k].pending + 1
          /\ bs2[k].resetAt = bs[k].resetAt
      BY <1>1 DEF Reserved
    <2>3. Due(more, k, r) = bs[k].resetAt
      BY <2>2
    <2>. QED  BY <1>1, <2>1, <2>2, <2>3, CountedFits
  <1>2. CASE k \notin DOMAIN bs
    <2>1. /\ k \in DOMAIN bs2 /\ bs2[k] \in SomeBucket
          /\ bs2[k].count = 1 /\ bs2[k].pending = 1 /\ bs2[k].resetAt = time + Window
      BY <1>2 DEF Reserved
    <2>2. Due(more, k, r) = time + Window
      BY <2>1
    <2>. QED  BY <1>2, <2>1, <2>2, FirstFits
  <1>. QED  BY <1>1, <1>2

(* An attempt changes nothing for the keys it is not of.                    *)
LEMMA OtherKeys ==
    ASSUME NEW att \in Reservations, NEW r \in Login, NEW x, NEW more, Adds(att, r, x, more), NEW k,
           att[r] = NoAttempt \/ k \notin {att[r].ip, att[r].login},
           x = NoAttempt \/ k \notin {x.ip, x.login}
    PROVE  /\ Concerned(more, k) = Concerned(att, k)
           /\ \A q \in Concerned(att, k) : more[q] = att[q]
  <1>1. more[r] = x /\ \A q \in Login : q # r => more[q] = att[q]
    BY DEF Adds
  <1>. QED  BY <1>1 DEF Concerned

-----------------------------------------------------------------------------
(* The actions.                                                            *)

LEMMA ReserveStep ==
    ASSUME LimiterInv, NEW r \in Login, NEW i \in Ip, NEW l \in LoginId, Reserve(r, i, l)
    PROVE  LimiterInv'
  <1>. DEFINE bs0 == Prune(buckets)
              bs1 == ReserveBucket(bs0, i)
              bs2 == ReserveBucket(bs1, l)
              a == [ip |-> i, login |-> l, at |-> time,
                    ipResetAt |-> bs2[i].resetAt, loginResetAt |-> bs2[l].resetAt]
  <1>1. /\ attempt[r] = NoAttempt /\ Admitted(bs0, i, l) /\ buckets' = bs2
        /\ attempt' = [attempt EXCEPT ![r] = a]
        /\ time' = time /\ failures' = failures
    BY DEF Reserve
  <1>2. /\ Buckets(buckets) /\ attempt \in Reservations /\ time \in Instant
        /\ failures \in [Key -> History] /\ i \in Key /\ l \in Key /\ i # l
        /\ \A k \in Key : failures[k] \in History /\ Fits(buckets, attempt, failures[k], time, k)
    BY KeyAssumption DEF LimiterInv, LimiterShapes, KeysFit, Key
  <1>3. /\ Buckets(bs0)
        /\ \A k \in DOMAIN bs0 : bs0[k].resetAt > time
        /\ \A k \in Key : Fits(bs0, attempt, failures[k], time, k)
    BY <1>2, PruneFits
  <1>4. ~AtLimit(bs0, i) /\ ~AtLimit(bs0, l) /\ Cardinality(DOMAIN bs0 \union {i, l}) <= MaxBuckets
    BY <1>1 DEF Admitted, Room
  <1>. HIDE DEF bs0
  <1>5. Cardinality(DOMAIN bs0 \union {i}) <= MaxBuckets
    <2>1. IsFiniteSet(DOMAIN bs0 \union {i, l})
      <3>1. IsFiniteSet(DOMAIN bs0 \union {i})
        BY <1>3, FS_AddElement DEF Buckets
      <3>2. IsFiniteSet((DOMAIN bs0 \union {i}) \union {l})
        BY <3>1, FS_AddElement
      <3>3. (DOMAIN bs0 \union {i}) \union {l} = DOMAIN bs0 \union {i, l}
        OBVIOUS
      <3>. QED  BY <3>2, <3>3
    <2>2. DOMAIN bs0 \union {i} \subseteq DOMAIN bs0 \union {i, l}
      OBVIOUS
    <2>3. /\ IsFiniteSet(DOMAIN bs0 \union {i})
          /\ Cardinality(DOMAIN bs0 \union {i}) <= Cardinality(DOMAIN bs0 \union {i, l})
      BY <2>1, <2>2, FS_Subset
    <2>4. /\ Cardinality(DOMAIN bs0 \union {i}) \in Nat
          /\ Cardinality(DOMAIN bs0 \union {i, l}) \in Nat
      BY <2>1, <2>3, FS_CardinalityType
    <2>. QED  BY <1>4, <2>3, <2>4, BucketAssumption
  <1>6. /\ Buckets(bs1) /\ DOMAIN bs1 = DOMAIN bs0 \union {i}
        /\ \A x : x # i => Agree(bs0, bs1, x)
        /\ Reserved(bs0, bs1, i)
    BY <1>2, <1>3, <1>5, ReserveEffect
  <1>. HIDE DEF bs1
  <1>7. Cardinality(DOMAIN bs1 \union {l}) <= MaxBuckets
    <2>1. DOMAIN bs1 \union {l} = DOMAIN bs0 \union {i, l}
      BY <1>6
    <2>. QED  BY <1>4, <2>1
  <1>8. /\ Buckets(bs2)
        /\ \A x : x # l => Agree(bs1, bs2, x)
        /\ Reserved(bs1, bs2, l)
    BY <1>2, <1>6, <1>7, ReserveEffect
  <1>. HIDE DEF bs2
  <1>9. Reserved(bs0, bs2, i)
    BY <1>2, <1>6, <1>8 DEF Agree, Reserved
  <1>10. Reserved(bs0, bs2, l)
    BY <1>2, <1>6, <1>8 DEF Agree, Reserved
  <1>11. \A k \in {i, l} : bs2[k].resetAt \in 1..(MaxInstant + Window)
    <2>. SUFFICES ASSUME NEW k \in {i, l} PROVE bs2[k].resetAt \in 1..(MaxInstant + Window)
      OBVIOUS
    <2>1. time \in 0..MaxInstant /\ time \in Int /\ Window \in Nat \ {0} /\ MaxInstant \in Nat
      BY <1>2, TimeAssumption, LimitAssumption DEF Instant
    <2>2. Reserved(bs0, bs2, k)
      BY <1>9, <1>10
    <2>3. CASE k \in DOMAIN bs0
      <3>1. k \in Key
        BY <1>2
      <3>2. bs0[k].resetAt \in Int /\ 0 <= bs0[k].resetAt - Window /\ bs0[k].resetAt - Window <= time
        BY <1>3, <2>3, <3>1 DEF Buckets, SomeBucket, Fits, BucketFits
      <3>3. bs2[k].resetAt = bs0[k].resetAt
        BY <2>2, <2>3 DEF Reserved
      <3>. QED  BY <2>1, <3>2, <3>3
    <2>4. CASE k \notin DOMAIN bs0
      <3>1. bs2[k].resetAt = time + Window
        BY <2>2, <2>4 DEF Reserved
      <3>. QED  BY <2>1, <3>1
    <2>. QED  BY <2>3, <2>4
  <1>12. a \in Attempt /\ a.ip = i /\ a.login = l /\ a.at = time
         /\ a.ipResetAt = bs2[i].resetAt /\ a.loginResetAt = bs2[l].resetAt
    BY <1>2, <1>11 DEF Attempt
  <1>. HIDE DEF a
  <1>13. attempt' \in Reservations /\ Adds(attempt, r, a, attempt')
    BY <1>1, <1>2, <1>12 DEF Reservations, Adds
  <1>14. /\ Due(attempt', i, r) = bs2[i].resetAt
         /\ Due(attempt', l, r) = bs2[l].resetAt
    <2>1. attempt'[r] = a
      BY <1>13 DEF Adds
    <2>2. i \in Ip /\ l \notin Ip
      BY KeyAssumption
    <2>. QED  BY <1>12, <2>1, <2>2 DEF Due
  <1>15. Fits(bs2, attempt', failures[i], time, i)
    BY <1>1, <1>2, <1>3, <1>4, <1>9, <1>12, <1>13, <1>14, ReservedFits
  <1>16. Fits(bs2, attempt', failures[l], time, l)
    BY <1>1, <1>2, <1>3, <1>4, <1>10, <1>12, <1>13, <1>14, ReservedFits
  <1>17. ASSUME NEW k \in Key, k # i, k # l PROVE Fits(bs2, attempt', failures[k], time, k)
    <2>1. Agree(bs0, bs2, k)
      BY <1>6, <1>8, <1>17, AgreeTwice
    <2>2. /\ Concerned(attempt', k) = Concerned(attempt, k)
          /\ \A q \in Concerned(attempt, k) : attempt'[q] = attempt[q]
      <3>1. attempt[r] = NoAttempt /\ k \notin {a.ip, a.login} /\ attempt \in Reservations
        BY <1>1, <1>2, <1>12, <1>17
      <3>. QED  BY <1>13, <3>1, OtherKeys
    <2>3. Fits(bs0, attempt, failures[k], time, k)
      BY <1>3
    <2>. QED  BY <2>1, <2>2, <2>3, SameKey DEF Agree
  <1>18. KeysFit'
    BY <1>1, <1>15, <1>16, <1>17 DEF KeysFit
  <1>19. LimiterShapes'
    BY <1>1, <1>2, <1>8, <1>13 DEF LimiterShapes
  <1>. QED  BY <1>18, <1>19 DEF LimiterInv

LEMMA RefuseStep ==
    ASSUME LimiterInv, NEW r \in Login, NEW i \in Ip, NEW l \in LoginId, Refuse(r, i, l)
    PROVE  LimiterInv'
  <1>1. /\ Buckets(buckets) /\ attempt \in Reservations /\ time \in Instant
        /\ failures \in [Key -> History]
        /\ \A k \in Key : failures[k] \in History /\ Fits(buckets, attempt, failures[k], time, k)
    BY DEF LimiterInv, LimiterShapes, KeysFit
  <1>2. /\ buckets' = Prune(buckets) /\ attempt' = attempt /\ time' = time
        /\ failures' = failures
    BY DEF Refuse
  <1>3. Buckets(Prune(buckets))
        /\ \A k \in Key : Fits(Prune(buckets), attempt, failures[k], time, k)
    BY <1>1, PruneFits
  <1>. QED  BY <1>1, <1>2, <1>3 DEF LimiterInv, LimiterShapes, KeysFit

LEMMA TickStep ==
    ASSUME LimiterInv, LimiterTick
    PROVE  LimiterInv'
  <1>1. /\ Buckets(buckets) /\ attempt \in Reservations /\ time \in Instant
        /\ failures \in [Key -> History]
        /\ \A k \in Key : failures[k] \in History /\ Fits(buckets, attempt, failures[k], time, k)
    BY DEF LimiterInv, LimiterShapes, KeysFit
  <1>2. /\ buckets' = buckets /\ attempt' = attempt /\ time' = time + 1
        /\ failures' = failures /\ time + 1 \in Instant
    BY <1>1, TimeAssumption DEF LimiterTick, Instant
  <1>3. \A k \in Key : Fits(buckets, attempt, failures[k], time + 1, k)
    BY <1>1, <1>2, LaterFits
  <1>. QED  BY <1>1, <1>2, <1>3 DEF LimiterInv, LimiterShapes, KeysFit

(* What a settled attempt leaves of the buckets.                            *)
LEMMA SettleBothEffect ==
    ASSUME LimiterInv, NEW r \in Login, attempt[r] # NoAttempt, NEW keep \in BOOLEAN,
           NEW bs2, bs2 = SettleBoth(buckets, attempt[r], keep)
    PROVE  /\ attempt[r] \in Attempt /\ attempt[r].ip \in Key /\ attempt[r].login \in Key
           /\ attempt[r].ip # attempt[r].login
           /\ Buckets(bs2)
           /\ \A k \in {attempt[r].ip, attempt[r].login} :
                /\ r \in Concerned(attempt, k)
                /\ keep => Kept(buckets, bs2, k, Due(attempt, k, r))
                /\ ~keep => Released(buckets, bs2, k, Due(attempt, k, r))
           /\ \A k : k \notin {attempt[r].ip, attempt[r].login} => Agree(buckets, bs2, k)
  <1>. DEFINE a == attempt[r]
              bs1 == Settle(buckets, a.ip, a.ipResetAt, keep)
  <1>1. /\ Buckets(buckets) /\ attempt \in Reservations
        /\ \A k \in Key : k \in DOMAIN buckets => buckets[k].count # 0
    BY LimitAssumption DEF LimiterInv, LimiterShapes, KeysFit, Fits, BucketFits
  <1>2. a \in Attempt /\ a.ip \in Ip /\ a.login \in LoginId
    BY <1>1 DEF Reservations, Attempt
  <1>3. a.ip \in Key /\ a.login \in Key /\ a.ip # a.login /\ a.login \notin Ip
    BY <1>2, KeyAssumption DEF Key
  <1>4. /\ Due(attempt, a.ip, r) = a.ipResetAt /\ Due(attempt, a.login, r) = a.loginResetAt
        /\ r \in Concerned(attempt, a.ip) /\ r \in Concerned(attempt, a.login)
    BY <1>2, <1>3 DEF Due, Concerned
  <1>5. bs2 = Settle(bs1, a.login, a.loginResetAt, keep)
    BY DEF SettleBoth
  <1>. HIDE DEF a
  <1>6. /\ Buckets(bs1) /\ \A x : x # a.ip => Agree(buckets, bs1, x)
        /\ keep => Kept(buckets, bs1, a.ip, a.ipResetAt)
        /\ ~keep => Released(buckets, bs1, a.ip, a.ipResetAt)
    BY <1>1, <1>3, SettleEffect
  <1>. HIDE DEF bs1
  <1>7. a.login \in DOMAIN bs1 => bs1[a.login].count # 0
    BY <1>1, <1>3, <1>6 DEF Agree
  <1>8. /\ Buckets(bs2) /\ \A x : x # a.login => Agree(bs1, bs2, x)
        /\ keep => Kept(bs1, bs2, a.login, a.loginResetAt)
        /\ ~keep => Released(bs1, bs2, a.login, a.loginResetAt)
    BY <1>5, <1>6, <1>7, SettleEffect
  <1>9. /\ keep => Kept(buckets, bs2, a.ip, a.ipResetAt)
        /\ ~keep => Released(buckets, bs2, a.ip, a.ipResetAt)
    <2>1. Agree(bs1, bs2, a.ip)
      BY <1>3, <1>8
    <2>2. keep => Kept(buckets, bs2, a.ip, a.ipResetAt)
      BY <1>6, <2>1 DEF Agree, Kept
    <2>3. ~keep => Released(buckets, bs2, a.ip, a.ipResetAt)
      BY <1>6, <2>1 DEF Agree, Released
    <2>. QED  BY <2>2, <2>3
  <1>10. /\ keep => Kept(buckets, bs2, a.login, a.loginResetAt)
         /\ ~keep => Released(buckets, bs2, a.login, a.loginResetAt)
    <2>1. Agree(buckets, bs1, a.login)
      BY <1>3, <1>6
    <2>2. keep => Kept(buckets, bs2, a.login, a.loginResetAt)
      BY <1>8, <2>1 DEF Agree, Kept
    <2>3. ~keep => Released(buckets, bs2, a.login, a.loginResetAt)
      BY <1>8, <2>1 DEF Agree, Released
    <2>. QED  BY <2>2, <2>3
  <1>11. ASSUME NEW k, k \notin {a.ip, a.login} PROVE Agree(buckets, bs2, k)
    BY <1>6, <1>8, <1>11, AgreeTwice
  <1>. QED  BY <1>2, <1>3, <1>4, <1>8, <1>9, <1>10, <1>11 DEF a

LEMMA SettledAttempt ==
    ASSUME attempt \in Reservations, NEW r \in Login, attempt' = [attempt EXCEPT ![r] = NoAttempt]
    PROVE  /\ attempt' \in Reservations /\ Adds(attempt, r, NoAttempt, attempt')
           /\ \A k : k \notin {attempt[r].ip, attempt[r].login} =>
                /\ Concerned(attempt', k) = Concerned(attempt, k)
                /\ \A q \in Concerned(attempt, k) : attempt'[q] = attempt[q]
  <1>1. attempt' \in Reservations /\ Adds(attempt, r, NoAttempt, attempt')
    BY DEF Reservations, Adds
  <1>2. ASSUME NEW k, k \notin {attempt[r].ip, attempt[r].login}
        PROVE  /\ Concerned(attempt', k) = Concerned(attempt, k)
               /\ \A q \in Concerned(attempt, k) : attempt'[q] = attempt[q]
    BY <1>1, <1>2 DEF Adds, Concerned
  <1>. QED  BY <1>1, <1>2

LEMMA RejectStep ==
    ASSUME LimiterInv, NEW r \in Login, Reject(r)
    PROVE  LimiterInv'
  <1>. DEFINE a == attempt[r]
  <1>1. /\ Buckets(buckets) /\ attempt \in Reservations /\ time \in Instant
        /\ failures \in [Key -> History]
        /\ \A k \in Key : failures[k] \in History /\ Fits(buckets, attempt, failures[k], time, k)
    BY DEF LimiterInv, LimiterShapes, KeysFit
  <1>2. /\ attempt[r] # NoAttempt /\ buckets' = SettleBoth(buckets, attempt[r], TRUE)
        /\ failures' = [k \in Key |->
                IF k \in {a.ip, a.login} THEN [failures[k] EXCEPT ![a.at] = @ + 1]
                ELSE failures[k]]
        /\ attempt' = [attempt EXCEPT ![r] = NoAttempt] /\ time' = time
    BY DEF Reject
  <1>3. /\ a \in Attempt /\ a.ip \in Key /\ a.login \in Key /\ a.ip # a.login
        /\ Buckets(buckets')
        /\ \A k \in {a.ip, a.login} :
            r \in Concerned(attempt, k) /\ Kept(buckets, buckets', k, Due(attempt, k, r))
        /\ \A k : k \notin {a.ip, a.login} => Agree(buckets, buckets', k)
    BY <1>2, SettleBothEffect
  <1>4. /\ attempt' \in Reservations /\ Adds(attempt, r, NoAttempt, attempt')
        /\ \A k : k \notin {a.ip, a.login} =>
            /\ Concerned(attempt', k) = Concerned(attempt, k)
            /\ \A q \in Concerned(attempt, k) : attempt'[q] = attempt[q]
    BY <1>1, <1>2, SettledAttempt
  <1>5. a.at \in Instant
    BY <1>3 DEF Attempt
  <1>. HIDE DEF a
  <1>6. /\ failures' \in [Key -> History]
        /\ \A k \in {a.ip, a.login} : Fails(failures[k], a.at, failures'[k])
        /\ \A k \in Key : k \notin {a.ip, a.login} => failures'[k] = failures[k]
    <2>1. ASSUME NEW k \in Key
          PROVE  /\ failures'[k] \in History
                 /\ k \in {a.ip, a.login} => Fails(failures[k], a.at, failures'[k])
                 /\ k \notin {a.ip, a.login} => failures'[k] = failures[k]
      <3>. DEFINE h == [failures[k] EXCEPT ![a.at] = @ + 1]
      <3>1. failures[k] \in History /\ failures[k][a.at] \in Nat
        BY <1>1, <1>5 DEF History
      <3>2. h \in History /\ Fails(failures[k], a.at, h)
        BY <1>5, <3>1 DEF History, Fails
      <3>3. failures'[k] = IF k \in {a.ip, a.login} THEN h ELSE failures[k]
        BY <1>2
      <3>. HIDE DEF h
      <3>. QED  BY <3>1, <3>2, <3>3
    <2>2. failures' \in [Key -> History]
      BY <1>2, <2>1
    <2>. QED  BY <1>3, <2>1, <2>2
  <1>7. ASSUME NEW k \in {a.ip, a.login} PROVE Fits(buckets', attempt', failures'[k], time, k)
    <2>1. r \in Concerned(attempt, k) /\ Kept(buckets, buckets', k, Due(attempt, k, r))
      BY <1>3
    <2>2. Fails(failures[k], attempt[r].at, failures'[k])
      BY <1>6 DEF a
    <2>3. failures[k] \in History /\ Fits(buckets, attempt, failures[k], time, k)
      BY <1>1, <1>3
    <2>. QED  BY <1>1, <1>4, <2>1, <2>2, <2>3, KeptFits
  <1>8. ASSUME NEW k \in Key, k \notin {a.ip, a.login}
        PROVE  Fits(buckets', attempt', failures'[k], time, k)
    <2>1. failures'[k] = failures[k]
      BY <1>6, <1>8
    <2>2. Agree(buckets, buckets', k)
          /\ Concerned(attempt', k) = Concerned(attempt, k)
          /\ \A q \in Concerned(attempt, k) : attempt'[q] = attempt[q]
      BY <1>3, <1>4, <1>8
    <2>3. Fits(buckets, attempt, failures[k], time, k)
      BY <1>1
    <2>4. Fits(buckets', attempt', failures[k], time, k)
      BY <2>2, <2>3, SameKey DEF Agree
    <2>. QED  BY <2>1, <2>4
  <1>9. KeysFit'
    BY <1>2, <1>7, <1>8 DEF KeysFit
  <1>10. LimiterShapes'
    BY <1>1, <1>2, <1>3, <1>4, <1>6 DEF LimiterShapes
  <1>. QED  BY <1>9, <1>10 DEF LimiterInv

(* Both ways to release an attempt.                                         *)
LEMMA ReleasesFit ==
    ASSUME LimiterInv, NEW r \in Login, attempt[r] # NoAttempt,
           attempt' = [attempt EXCEPT ![r] = NoAttempt],
           NEW bs2, bs2 = SettleBoth(buckets, attempt[r], FALSE)
    PROVE  Buckets(bs2) /\ \A k \in Key : Fits(bs2, attempt', failures[k], time, k)
  <1>. DEFINE a == attempt[r]
  <1>1. /\ Buckets(buckets) /\ attempt \in Reservations /\ time \in Instant
        /\ \A k \in Key : failures[k] \in History /\ Fits(buckets, attempt, failures[k], time, k)
    BY DEF LimiterInv, LimiterShapes, KeysFit
  <1>2. /\ a.ip \in Key /\ a.login \in Key
        /\ Buckets(bs2)
        /\ \A k \in {a.ip, a.login} :
            r \in Concerned(attempt, k) /\ Released(buckets, bs2, k, Due(attempt, k, r))
        /\ \A k : k \notin {a.ip, a.login} => Agree(buckets, bs2, k)
    BY SettleBothEffect
  <1>3. /\ attempt' \in Reservations /\ Adds(attempt, r, NoAttempt, attempt')
        /\ \A k : k \notin {a.ip, a.login} =>
            /\ Concerned(attempt', k) = Concerned(attempt, k)
            /\ \A q \in Concerned(attempt, k) : attempt'[q] = attempt[q]
    BY <1>1, SettledAttempt
  <1>. HIDE DEF a
  <1>4. ASSUME NEW k \in {a.ip, a.login} PROVE Fits(bs2, attempt', failures[k], time, k)
    <2>1. r \in Concerned(attempt, k) /\ Released(buckets, bs2, k, Due(attempt, k, r))
      BY <1>2
    <2>2. failures[k] \in History /\ Fits(buckets, attempt, failures[k], time, k)
      BY <1>1, <1>2
    <2>. QED  BY <1>1, <1>3, <2>1, <2>2, ReleasedFits
  <1>5. ASSUME NEW k \in Key, k \notin {a.ip, a.login}
        PROVE  Fits(bs2, attempt', failures[k], time, k)
    <2>1. Agree(buckets, bs2, k)
          /\ Concerned(attempt', k) = Concerned(attempt, k)
          /\ \A q \in Concerned(attempt, k) : attempt'[q] = attempt[q]
      BY <1>2, <1>3, <1>5
    <2>2. Fits(buckets, attempt, failures[k], time, k)
      BY <1>1
    <2>3. Fits(buckets, attempt', failures[k], time, k)
      BY <2>1, <2>2, SameKey
    <2>. QED  BY <2>1, <2>3, AgreeFits
  <1>. QED  BY <1>2, <1>4, <1>5

LEMMA AbandonStep ==
    ASSUME LimiterInv, NEW r \in Login, Abandon(r)
    PROVE  LimiterInv'
  <1>1. /\ attempt[r] # NoAttempt /\ buckets' = SettleBoth(buckets, attempt[r], FALSE)
        /\ attempt' = [attempt EXCEPT ![r] = NoAttempt]
        /\ time' = time /\ failures' = failures
    BY DEF Abandon
  <1>2. Buckets(buckets') /\ \A k \in Key : Fits(buckets', attempt', failures[k], time, k)
    BY <1>1, ReleasesFit
  <1>3. attempt' \in Reservations
    BY <1>1, SettledAttempt DEF LimiterInv, LimiterShapes
  <1>. QED  BY <1>1, <1>2, <1>3 DEF LimiterInv, LimiterShapes, KeysFit

LEMMA SucceedStep ==
    ASSUME LimiterInv, NEW r \in Login, Succeed(r)
    PROVE  LimiterInv'
  <1>. DEFINE l == attempt[r].login
              bs1 == SettleBoth(buckets, attempt[r], FALSE)
              none == [t \in Instant |-> 0]
  <1>1. /\ attempt[r] # NoAttempt /\ buckets' = ForgetFailures(bs1, l)
        /\ failures' = [failures EXCEPT ![l] = none]
        /\ attempt' = [attempt EXCEPT ![r] = NoAttempt] /\ time' = time
    BY DEF Succeed
  <1>2. Buckets(bs1) /\ \A k \in Key : Fits(bs1, attempt', failures[k], time, k)
    BY <1>1, ReleasesFit
  <1>3. l \in Key
    BY <1>1, SettleBothEffect
  <1>4. time \in Instant /\ failures \in [Key -> History] /\ attempt' \in Reservations
    BY <1>1, SettledAttempt DEF LimiterInv, LimiterShapes
  <1>5. none \in History /\ \A t \in Instant : none[t] = 0
    BY DEF History
  <1>. HIDE DEF l, bs1, none
  <1>6. /\ failures' \in [Key -> History] /\ failures'[l] = none
        /\ \A k \in Key : k # l => failures'[k] = failures[k]
    BY <1>1, <1>3, <1>4, <1>5
  <1>7. /\ Buckets(buckets') /\ \A x : x # l => Agree(bs1, buckets', x)
        /\ Forgotten(bs1, buckets', l)
    BY <1>1, <1>2, ForgetEffect
  <1>8. Fits(buckets', attempt', none, time, l)
    <2>1. failures[l] \in History /\ Fits(bs1, attempt', failures[l], time, l)
      BY <1>2, <1>3, <1>4
    <2>. QED  BY <1>2, <1>4, <1>5, <1>7, <2>1, ForgottenFits
  <1>9. ASSUME NEW k \in Key, k # l PROVE Fits(buckets', attempt', failures[k], time, k)
    <2>1. Agree(bs1, buckets', k) /\ Fits(bs1, attempt', failures[k], time, k)
      BY <1>2, <1>7, <1>9
    <2>. QED  BY <2>1, AgreeFits
  <1>10. KeysFit'
    BY <1>1, <1>6, <1>8, <1>9 DEF KeysFit
  <1>11. LimiterShapes'
    BY <1>1, <1>4, <1>6, <1>7 DEF LimiterShapes
  <1>. QED  BY <1>10, <1>11 DEF LimiterInv

-----------------------------------------------------------------------------
(* The invariant and what follows.                                         *)

LEMMA NothingYet ==
    LimiterInit => LimiterInv
  <1>. SUFFICES ASSUME LimiterInit PROVE LimiterInv
    OBVIOUS
  <1>1. time = 0 /\ 0 \in Instant
    BY TimeAssumption DEF LimiterInit, Instant
  <1>2. Buckets(buckets) /\ DOMAIN buckets = {}
    <2>1. DOMAIN buckets = {}
      BY DEF LimiterInit
    <2>2. IsFiniteSet({}) /\ Cardinality({}) = 0
      BY FS_EmptySet
    <2>3. IsFiniteSet(DOMAIN buckets) /\ Cardinality(DOMAIN buckets) = 0
      BY <2>1, <2>2, Zenon
    <2>. QED  BY <2>1, <2>3, BucketAssumption DEF Buckets
  <1>3. attempt \in Reservations /\ failures \in [Key -> History]
        /\ \A r \in Login : attempt[r] = NoAttempt
    BY DEF LimiterInit, Reservations, History
  <1>4. ASSUME NEW k \in Key PROVE Fits(buckets, attempt, failures[k], time, k)
    <2>0. \A t \in Instant : failures[k][t] = 0
      <3>1. failures[k] = [t \in Instant |-> 0]
        BY DEF LimiterInit
      <3>. QED  BY <3>1
    <2>1. Concerned(attempt, k) = {}
      BY <1>3 DEF Concerned
    <2>2. failures[k] \in History
      BY <1>3
    <2>3. ASSUME NEW span \in SUBSET Instant
          PROVE  Tally(attempt, failures[k], k, span) = 0
      <3>1. \A t \in span : failures[k][t] = 0
        BY <2>0
      <3>2. Open(attempt, k, span) = {}
        BY <2>1 DEF Open
      <3>3. Tally(attempt, failures[k], k, span) <= Tally(attempt, failures[k], k, {})
        BY <2>2, <3>1, <3>2, TallyWithin
      <3>. QED  BY <2>2, <3>3, TallyNothing, TallyNat
    <2>4. Span(time - Window) \in SUBSET Instant /\ \A t \in Instant : Span(t) \in SUBSET Instant
      BY DEF Span
    <2>5. NoBucketFits(attempt, failures[k], time, k)
      <3>1. Tally(attempt, failures[k], k, Span(time - Window)) = 0
        BY <2>3, <2>4
      <3>. QED  BY <2>0, <2>1, <3>1, LimitAssumption DEF NoBucketFits
    <2>6. \A t \in Instant : Tally(attempt, failures[k], k, Span(t)) <= 2 * Limit
      BY <2>3, <2>4, LimitAssumption
    <2>. QED  BY <1>2, <2>1, <2>5, <2>6 DEF Fits
  <1>. QED  BY <1>1, <1>2, <1>3, <1>4 DEF LimiterInv, LimiterShapes, KeysFit

(* In every state what is said of each key holds, for any addresses, logins,  *)
(* limits and windows.                                                     *)
THEOREM LimiterInvariance ==
    LimiterSpec => []LimiterInv
  <1>1. LimiterInit => LimiterInv
    BY NothingYet
  <1>2. LimiterInv /\ [LimiterNext]_limiterVars => LimiterInv'
    <2>. SUFFICES ASSUME LimiterInv, [LimiterNext]_limiterVars PROVE LimiterInv'
      OBVIOUS
    <2>1. ASSUME NEW r \in Login, NEW i \in Ip, NEW l \in LoginId, Reserve(r, i, l) PROVE LimiterInv'
      BY <2>1, ReserveStep
    <2>2. ASSUME NEW r \in Login, NEW i \in Ip, NEW l \in LoginId, Refuse(r, i, l) PROVE LimiterInv'
      BY <2>2, RefuseStep
    <2>3. ASSUME NEW r \in Login, Reject(r) PROVE LimiterInv'
      BY <2>3, RejectStep
    <2>4. ASSUME NEW r \in Login, Abandon(r) PROVE LimiterInv'
      BY <2>4, AbandonStep
    <2>5. ASSUME NEW r \in Login, Succeed(r) PROVE LimiterInv'
      BY <2>5, SucceedStep
    <2>6. CASE LimiterTick
      BY <2>6, TickStep
    <2>7. CASE UNCHANGED limiterVars
      BY <2>7 DEF limiterVars, LimiterInv, LimiterShapes, KeysFit
    <2>. QED  BY <2>1, <2>2, <2>3, <2>4, <2>5, <2>6, <2>7 DEF LimiterNext
  <1>. QED  BY <1>1, <1>2, PTL DEF LimiterSpec

(* The attempts of the model are those of the invariant.                    *)
LEMMA AttemptsAreTallied ==
    ASSUME NEW k, NEW span
    PROVE  AttemptsIn(k, span) = Tally(attempt, failures[k], k, span)
  <1>1. {r \in Login : Concerns(k, r) /\ attempt[r].at \in span} = Open(attempt, k, span)
    BY DEF Concerns, Concerned, Open
  <1>2. Cardinality({r \in Login : Concerns(k, r) /\ attempt[r].at \in span})
        = Cardinality(Open(attempt, k, span))
    BY <1>1, Zenon
  <1>. QED  BY <1>2 DEF AttemptsIn, Tally

LEMMA IntervalIsSpan ==
    ASSUME NEW start \in Int
    PROVE  start..(start + Window - 1) \intersect Instant = Span(start)
  BY LimitAssumption, TimeAssumption DEF Span, Instant

(* A bucket counts exactly the attempts of its key since its window began     *)
(* that failed or are open.                                                *)
THEOREM AttemptsAreCounted ==
    LimiterSpec => []CountsAttempts
  <1>1. LimiterInv => CountsAttempts
    <2>. SUFFICES ASSUME LimiterInv, NEW k \in DOMAIN buckets
                  PROVE  buckets[k].count =
                            AttemptsIn(k, (buckets[k].resetAt - Window)..(buckets[k].resetAt - 1)
                                          \intersect Instant)
      BY DEF CountsAttempts
    <2>. DEFINE start == buckets[k].resetAt - Window
    <2>1. start \in Int /\ buckets[k].resetAt - 1 = start + Window - 1
      BY LimitAssumption DEF LimiterInv, LimiterShapes, Buckets, SomeBucket
    <2>2. BucketFits(buckets[k], attempt, failures[k], time, k)
      BY DEF LimiterInv, LimiterShapes, Buckets, KeysFit, Fits
    <2>3. buckets[k].count = Tally(attempt, failures[k], k, Span(start))
      BY <2>2 DEF BucketFits
    <2>. HIDE DEF start
    <2>4. start..(start + Window - 1) \intersect Instant = Span(start)
      BY <2>1, IntervalIsSpan
    <2>5. buckets[k].count = AttemptsIn(k, start..(buckets[k].resetAt - 1) \intersect Instant)
      BY <2>1, <2>3, <2>4, AttemptsAreTallied
    <2>. QED  BY <2>5 DEF start
  <1>. QED  BY <1>1, LimiterInvariance, PTL

(* No window length admits more than twice the limit of attempts of a key.    *)
THEOREM AttemptsAreBounded ==
    LimiterSpec => []AttemptsBounded
  <1>1. LimiterInv => AttemptsBounded
    <2>. SUFFICES ASSUME LimiterInv, NEW k \in Key, NEW t \in Instant
                  PROVE  AttemptsIn(k, t..(t + Window - 1) \intersect Instant) <= 2 * Limit
      BY DEF AttemptsBounded
    <2>1. Tally(attempt, failures[k], k, Span(t)) <= 2 * Limit
      BY DEF LimiterInv, KeysFit, Fits
    <2>2. t..(t + Window - 1) \intersect Instant = Span(t)
      BY IntervalIsSpan DEF Instant
    <2>. QED  BY <2>1, <2>2, AttemptsAreTallied
  <1>. QED  BY <1>1, LimiterInvariance, PTL

(* The limiter keeps at most MaxBuckets buckets.                            *)
THEOREM MemoryIsBounded ==
    LimiterSpec => []MemoryBounded
  <1>1. LimiterInv => MemoryBounded
    BY DEF LimiterInv, LimiterShapes, Buckets, MemoryBounded
  <1>. QED  BY <1>1, LimiterInvariance, PTL

(* A bucket has as many pending attempts as there are logins reserved in it.  *)
THEOREM PendingAreOpen ==
    LimiterSpec => []PendingIsOpen
  <1>1. LimiterInv => PendingIsOpen
    <2>. SUFFICES ASSUME LimiterInv, NEW k \in DOMAIN buckets
                  PROVE  buckets[k].pending =
                            Cardinality({r \in Login :
                                /\ Concerns(k, r)
                                /\ buckets[k].resetAt = IF k \in Ip THEN attempt[r].ipResetAt
                                                        ELSE attempt[r].loginResetAt})
      BY DEF PendingIsOpen
    <2>. DEFINE S == {r \in Login :
                        /\ Concerns(k, r)
                        /\ buckets[k].resetAt = IF k \in Ip THEN attempt[r].ipResetAt
                                                ELSE attempt[r].loginResetAt}
    <2>1. BucketFits(buckets[k], attempt, failures[k], time, k)
      BY DEF LimiterInv, LimiterShapes, Buckets, KeysFit, Fits
    <2>2. buckets[k].pending = Cardinality(Of(attempt, k, buckets[k].resetAt))
      BY <2>1 DEF BucketFits
    <2>3. S = Of(attempt, k, buckets[k].resetAt)
      BY DEF Of, Due, Concerned, Concerns
    <2>. QED  BY <2>2, <2>3, Zenon
  <1>. QED  BY <1>1, LimiterInvariance, PTL

(* The buckets, attempts and failures keep their types, and no bucket has     *)
(* more attempts pending than it counts.                                    *)
THEOREM TypeCorrectness ==
    LimiterSpec => []LimiterTypeOK
  <1>1. LimiterInv => LimiterTypeOK
    <2>. SUFFICES ASSUME LimiterInv PROVE LimiterTypeOK
      OBVIOUS
    <2>1. /\ DOMAIN buckets \subseteq Key /\ attempt \in [Login -> Attempt \union {NoAttempt}]
          /\ time \in Instant /\ failures \in [Key -> [Instant -> Nat]]
      BY DEF LimiterInv, LimiterShapes, Buckets, Reservations, History
    <2>2. ASSUME NEW k \in DOMAIN buckets
          PROVE  buckets[k] \in Bucket /\ buckets[k].pending <= buckets[k].count
      <3>. DEFINE b == buckets[k]
                  start == b.resetAt - Window
      <3>1. b \in SomeBucket /\ failures[k] \in History
        BY <2>1 DEF LimiterInv, LimiterShapes, Buckets, History
      <3>2. BucketFits(b, attempt, failures[k], time, k)
            /\ \A r \in Concerned(attempt, k) :
                attempt[r].at < Due(attempt, k, r) /\ Due(attempt, k, r) <= attempt[r].at + Window
        BY <2>1 DEF LimiterInv, KeysFit, Fits
      <3>3. /\ time \in 0..MaxInstant /\ MaxInstant \in Nat /\ Window \in Nat \ {0}
            /\ Limit \in Nat \ {0} /\ b.resetAt \in Int /\ start \in Int
        BY <2>1, <3>1, TimeAssumption, LimitAssumption DEF Instant, SomeBucket
      <3>4. b.resetAt \in 1..(MaxInstant + Window)
        <4>1. 0 <= start /\ start <= time
          BY <3>2 DEF BucketFits
        <4>. QED  BY <3>3, <4>1
      <3>5. Cardinality(Of(attempt, k, b.resetAt)) <= Cardinality(Open(attempt, k, Span(start)))
        <4>1. ASSUME NEW r \in Of(attempt, k, b.resetAt) PROVE r \in Open(attempt, k, Span(start))
          <5>1. r \in Concerned(attempt, k) /\ Due(attempt, k, r) = b.resetAt
            BY DEF Of
          <5>2. attempt[r].at \in Instant /\ attempt[r].at \in Int
            BY <2>1, <5>1, ConcernedType DEF Reservations
          <5>3. start <= attempt[r].at /\ attempt[r].at < start + Window
            BY <3>2, <3>3, <5>1, <5>2
          <5>. QED  BY <5>1, <5>2, <5>3 DEF Open, Span
        <4>2. Of(attempt, k, b.resetAt) \subseteq Open(attempt, k, Span(start))
          BY <4>1
        <4>3. IsFiniteSet(Open(attempt, k, Span(start)))
          BY OpenFinite DEF Open
        <4>. QED  BY <4>2, <4>3, FS_Subset
      <3>6. /\ b.pending = Cardinality(Of(attempt, k, b.resetAt))
            /\ b.count = Tally(attempt, failures[k], k, Span(start)) /\ b.count \in 1..Limit
        BY <3>2 DEF BucketFits
      <3>7. Cardinality(Of(attempt, k, b.resetAt)) \in Nat
        BY OpenFinite DEF Of
      <3>8. /\ Cardinality(Open(attempt, k, Span(start))) \in Nat
            /\ Cardinality(Failed(failures[k], Span(start))) \in Nat
        BY <3>1, <3>3, SpanType, TallyNat
      <3>9. b.pending <= b.count /\ b.pending \in 0..Limit
        BY <3>3, <3>5, <3>6, <3>7, <3>8 DEF Tally
      <3>. QED  BY <3>1, <3>4, <3>6, <3>9 DEF SomeBucket, Bucket
    <2>. QED  BY <2>1, <2>2 DEF LimiterTypeOK
  <1>. QED  BY <1>1, LimiterInvariance, PTL

-----------------------------------------------------------------------------
(* AuthSessions.                                                           *)

Known == 1..created \union {NoSession}

Slot == [kind : Kind, pc : Label, cookie : Known, now : 0..clock, answer : Answer,
         ldap : BOOLEAN, attempt : {"none", "pending", "committed", "released"}, session : Known]

(* Rows, cookies and requests name sessions that were created.             *)
SessionShapes ==
    /\ clock \in Nat /\ created \in Nat /\ cookie \in Known
    /\ DOMAIN sessions \subseteq 1..created /\ ended \subseteq 1..created
    /\ \A id \in DOMAIN sessions : sessions[id] \in Int
    /\ request \in [Request -> Slot]

(* What the attempt of a login is at each label.                           *)
Settling(q) ==
    q.kind \in {"login", "stray"} =>
        \/ q.pc = "sent" /\ ~q.ldap /\ q.attempt = "none"
        \/ q.pc \in {"securing", "binding", "searching", "checking"} /\ q.attempt = "pending"
        \/ /\ q.pc = "unbinding" /\ q.attempt = "pending"
           /\ q.answer \in {"ok", "invalid", "unavailable"}
        \/ q.pc \in {"inserting", "cleaning"} /\ ~q.ldap /\ q.attempt = "released"
        \/ /\ q.pc = "answered" /\ ~q.ldap
           /\ \/ q.answer = "limited" /\ q.attempt = "none"
              \/ q.answer = "invalid" /\ q.attempt = "committed"
              \/ q.answer \in {"ok", "unavailable", "error"} /\ q.attempt = "released"

Attempts == \A r \in Request : Settling(request[r])

SessionInv == SessionShapes /\ LogoutIsFinal /\ Attempts

(* A step of the requests keeps their part of the invariant when it does so  *)
(* for the one request it is about.                                        *)
LEMMA OneRequest ==
    ASSUME SessionShapes, Attempts, NEW r \in Request, NEW STATE q,
           q \in Slot', Settling(q),
           clock' \in Nat, clock' >= clock, created' \in Nat, created' >= created,
           request' = [request EXCEPT ![r] = q]
    PROVE  request' \in [Request -> Slot'] /\ Attempts'
  <1>1. \A x \in Request : request[x] \in Slot'
    BY DEF SessionShapes, Slot, Known
  <1>2. request' \in [Request -> Slot']
    BY <1>1 DEF SessionShapes
  <1>3. \A x \in Request : request'[x] = IF x = r THEN q ELSE request[x]
    BY DEF SessionShapes
  <1>4. Attempts'
    BY <1>3 DEF Attempts
  <1>. QED  BY <1>2, <1>4

(* The same when the shell changes and with it the other requests.          *)
LEMMA AllRequests ==
    ASSUME SessionShapes, Attempts, NEW r \in Request, NEW STATE next, NEW STATE new,
           next \in Slot, Settling(next), UNCHANGED <<clock, created>>,
           request' = NextRequest(r, next, new)
    PROVE  request' \in [Request -> Slot'] /\ Attempts'
  <1>1. Slot' = Slot
    BY DEF Slot, Known
  <1>2. ASSUME NEW x \in Request
        PROVE  request'[x] \in Slot /\ Settling(request'[x])
    <2>1. request[x] \in Slot /\ Settling(request[x])
      BY DEF SessionShapes, Attempts
    <2>2. CASE x = r
      BY <2>2 DEF NextRequest
    <2>3. CASE x # r
      <3>1. request'[x] \in {[request[x] EXCEPT !.kind = "dropped"], request[x]}
               \/ request'[x] = [request[x] EXCEPT !.session = NoSession]
               \/ /\ request[x].kind = "login"
                  /\ request'[x] = [request[x] EXCEPT !.kind = "stray"]
        BY <2>3 DEF NextRequest
      <3>2. CASE request'[x] = [request[x] EXCEPT !.kind = "dropped"]
        BY <2>1, <3>2 DEF Slot, Kind, Settling
      <3>3. CASE request'[x] = [request[x] EXCEPT !.session = NoSession]
        BY <2>1, <3>3 DEF Slot, Known, Settling
      <3>4. CASE request[x].kind = "login" /\ request'[x] = [request[x] EXCEPT !.kind = "stray"]
        BY <2>1, <3>4 DEF Slot, Kind, Settling
      <3>. QED  BY <2>1, <3>1, <3>2, <3>3, <3>4
    <2>. QED  BY <2>2, <2>3
  <1>3. request' = [x \in Request |-> request'[x]]
    BY DEF NextRequest
  <1>. QED  BY <1>1, <1>2, <1>3 DEF Attempts

LEMMA Initially == Init => SessionInv
  <1>. SUFFICES ASSUME Init PROVE SessionInv
    OBVIOUS
  <1>0. 0 \in 0..clock
    BY DEF Init
  <1>1. Idle \in Slot /\ Send("session", NoSession) \in Slot
    BY <1>0 DEF Idle, Send, Slot, Known, Kind, Label, Answer
  <1>2. Settling(Idle) /\ Settling(Send("session", NoSession))
    BY DEF Idle, Send, Settling
  <1>3. SessionShapes
    BY <1>1 DEF Init, SessionShapes, Known
  <1>4. Attempts
    BY <1>2 DEF Init, Attempts
  <1>. QED  BY <1>3, <1>4 DEF Init, SessionInv, LogoutIsFinal

-----------------------------------------------------------------------------
(* The API.                                                                *)

LEMMA Served ==
    ASSUME SessionShapes, Attempts, NEW r \in Request, NEW STATE label, NEW STATE q,
           Handle(r, label, q), q \in Slot', Settling(q), created' \in Nat, created' >= created
    PROVE  /\ clock' \in Nat /\ cookie' \in Known'
           /\ request' \in [Request -> Slot'] /\ Attempts'
  <1>1. clock' = clock /\ cookie' = cookie
    BY DEF Handle, browser
  <1>2. clock' \in Nat /\ clock' >= clock
    BY <1>1 DEF SessionShapes
  <1>3. request' = [request EXCEPT ![r] = q]
    BY DEF Handle
  <1>4. request' \in [Request -> Slot'] /\ Attempts'
    BY <1>2, <1>3, OneRequest
  <1>. QED  BY <1>1, <1>2, <1>4 DEF SessionShapes, Known

(* A step of the API that leaves the sessions alone.                       *)
LEMMA ServedWithoutSessions ==
    ASSUME SessionInv, NEW r \in Request, NEW STATE label, NEW STATE q,
           Handle(r, label, q), q \in Slot, Settling(q), UNCHANGED server
    PROVE  SessionInv'
  <1>1. Slot' = Slot /\ created' = created
    BY DEF Handle, Slot, Known, server
  <1>2. /\ clock' \in Nat /\ cookie' \in Known'
        /\ request' \in [Request -> Slot'] /\ Attempts'
    BY <1>1, Served DEF SessionInv, SessionShapes
  <1>. QED  BY <1>1, <1>2 DEF SessionInv, SessionShapes, LogoutIsFinal, server

(* A step of the API that creates no session and deletes some.              *)
LEMMA ServedWithFewer ==
    ASSUME SessionInv, NEW r \in Request, NEW STATE label, NEW STATE q,
           Handle(r, label, q), q \in Slot, Settling(q), UNCHANGED created,
           DOMAIN sessions' \subseteq DOMAIN sessions,
           \A id \in DOMAIN sessions' : sessions'[id] = sessions[id],
           ended' \subseteq 1..created, ended' \intersect DOMAIN sessions' = {}
    PROVE  SessionInv'
  <1>1. Slot' = Slot
    BY DEF Handle, Slot, Known
  <1>2. /\ clock' \in Nat /\ cookie' \in Known'
        /\ request' \in [Request -> Slot'] /\ Attempts'
    BY <1>1, Served DEF SessionInv, SessionShapes
  <1>. QED  BY <1>1, <1>2 DEF SessionInv, SessionShapes, LogoutIsFinal

LEMMA Lookups ==
    ASSUME SessionInv, NEW r \in Request, FindSession(r) \/ SelectSession(r) \/ DeleteSession(r)
    PROVE  SessionInv'
  <1>1. request[r] \in Slot /\ Settling(request[r])
    BY DEF SessionInv, SessionShapes, Attempts
  <1>2. request[r].pc \in {"selecting", "deleting"} => ~IsLogin(r)
    BY <1>1 DEF Settling, IsLogin
  <1>3. CASE FindSession(r)
    <2>. DEFINE q == IF request[r].cookie = NoSession THEN Without(r)
                     ELSE [At(r, "selecting") EXCEPT !.now = clock]
    <2>1. clock \in 0..clock
      BY DEF SessionInv, SessionShapes
    <2>2. Without(r) \in Slot
      BY <1>1 DEF Without, Answered, Slot, Label, Answer
    <2>3. [At(r, "selecting") EXCEPT !.now = clock] \in Slot
      BY <1>1, <2>1 DEF At, Slot, Label
    <2>4. Settling(q)
      BY <1>1, <1>3 DEF FindSession, AsksSession, Without, Answered, At, Slot, Settling
    <2>. QED  BY <1>3, <2>2, <2>3, <2>4, ServedWithoutSessions DEF FindSession
  <1>4. CASE SelectSession(r)
    <2>1. \E q \in {Answered(r, "ok"), At(r, "deleting"), Answered(r, "error")} :
            Handle(r, "selecting", q) /\ UNCHANGED server
      BY <1>4 DEF SelectSession
    <2>2. PICK q \in {Answered(r, "ok"), At(r, "deleting"), Answered(r, "error")} :
            Handle(r, "selecting", q) /\ UNCHANGED server
      BY <2>1
    <2>3. q \in Slot
      BY <1>1 DEF Answered, At, Slot, Label, Answer
    <2>4. Settling(q)
      BY <1>1, <1>2, <2>2 DEF Handle, IsLogin, Answered, At, Slot, Settling
    <2>. QED  BY <2>2, <2>3, <2>4, ServedWithoutSessions
  <1>5. CASE DeleteSession(r)
    <2>1. PICK q \in {Without(r), Answered(r, "error")} : Handle(r, "deleting", q)
      BY <1>5 DEF DeleteSession
    <2>2. q \in Slot
      BY <1>1 DEF Without, Answered, Slot, Label, Answer
    <2>3. Settling(q)
      BY <1>1, <1>2, <2>1 DEF Handle, IsLogin, Without, Answered, Slot, Settling
    <2>4. /\ DOMAIN sessions' \subseteq DOMAIN sessions
          /\ \A id \in DOMAIN sessions' : sessions'[id] = sessions[id]
      BY <1>5 DEF DeleteSession, RowsWithout, Restrict
    <2>5. UNCHANGED <<created, ended>>
      BY <1>5 DEF DeleteSession
    <2>. QED  BY <2>1, <2>2, <2>3, <2>4, <2>5, ServedWithFewer DEF SessionInv, SessionShapes, LogoutIsFinal
  <1>. QED  BY <1>3, <1>4, <1>5

(* The id of the row that goes is the one that is then among the ended.     *)
LEMMA Revocation ==
    ASSUME SessionInv, NEW r \in Request, RevokeSession(r)
    PROVE  SessionInv'
  <1>1. request[r] \in Slot /\ Settling(request[r])
    BY DEF SessionInv, SessionShapes, Attempts
  <1>2. PICK q \in {Answered(r, "ok"), Answered(r, "unavailable")} : Handle(r, "sent", q)
    BY DEF RevokeSession, FailedRevocation
  <1>3. q \in Slot /\ Settling(q)
    BY <1>1 DEF RevokeSession, Answered, Slot, Label, Answer, Settling
  <1>4. UNCHANGED created
    BY DEF RevokeSession
  <1>5. \/ /\ sessions' = RowsWithout(sessions, request[r].cookie)
           /\ ended' = ended \union ({request[r].cookie} \ {NoSession})
        \/ sessions' = sessions /\ ended' = ended
    BY DEF RevokeSession, FailedRevocation
  <1>6. /\ DOMAIN sessions' \subseteq DOMAIN sessions
        /\ \A id \in DOMAIN sessions' : sessions'[id] = sessions[id]
    BY <1>5 DEF RowsWithout, Restrict
  <1>7. ended' \subseteq 1..created
    BY <1>1, <1>5 DEF SessionInv, SessionShapes, Slot, Known
  <1>8. ended' \intersect DOMAIN sessions' = {}
    BY <1>5 DEF SessionInv, LogoutIsFinal, RowsWithout, Restrict
  <1>. QED  BY <1>2, <1>3, <1>4, <1>6, <1>7, <1>8, ServedWithFewer

LEMMA Directories ==
    ASSUME SessionInv, NEW r \in Request,
           ReserveAttempt(r) \/ SecureConnection(r) \/ BindService(r)
              \/ SearchUser(r) \/ BindUser(r) \/ Unbind(r)
    PROVE  SessionInv'
  <1>1. request[r] \in Slot /\ Settling(request[r])
    BY DEF SessionInv, SessionShapes, Attempts
  <1>2. CASE ReserveAttempt(r)
    <2>1. PICK q \in {Answered(r, "limited"), [Answered(r, "invalid") EXCEPT !.attempt = "committed"],
                      [At(r, "securing") EXCEPT !.ldap = TRUE, !.attempt = "pending"]} :
            Handle(r, "sent", q)
      BY <1>2 DEF ReserveAttempt
    <2>2. q \in Slot
      BY <1>1 DEF Answered, At, Slot, Label, Answer
    <2>3. Settling(q)
      BY <1>1, <1>2, <2>1 DEF Handle, ReserveAttempt, IsLogin, Answered, At, Slot, Settling
    <2>. QED  BY <1>2, <2>1, <2>2, <2>3, ServedWithoutSessions DEF ReserveAttempt
  <1>3. CASE SecureConnection(r) \/ BindService(r) \/ SearchUser(r) \/ BindUser(r)
    <2>1. PICK label \in {"securing", "binding", "searching", "checking"} :
          \E q \in {At(r, "binding"), At(r, "searching"), At(r, "checking"), Verdict(r, "ok"),
                    Verdict(r, "invalid"), Verdict(r, "unavailable")} :
            Handle(r, label, q)
      BY <1>3 DEF SecureConnection, BindService, SearchUser, BindUser, Directory
    <2>2. PICK q \in {At(r, "binding"), At(r, "searching"), At(r, "checking"), Verdict(r, "ok"),
                    Verdict(r, "invalid"), Verdict(r, "unavailable")} :
            Handle(r, label, q)
      BY <2>1
    <2>3. q \in Slot
      BY <1>1 DEF Verdict, At, Slot, Label, Answer
    <2>4. Settling(q)
      BY <1>1, <2>2 DEF Handle, Verdict, At, Slot, Settling
    <2>5. UNCHANGED server
      BY <1>3 DEF SecureConnection, BindService, SearchUser, BindUser, Directory
    <2>. QED  BY <2>2, <2>3, <2>4, <2>5, ServedWithoutSessions
  <1>4. CASE Unbind(r)
    <2>. DEFINE answer == request[r].answer
                settled == [request[r] EXCEPT !.ldap = FALSE, !.attempt = Settled(answer)]
                q == IF answer = "ok"
                     THEN [settled EXCEPT !.pc = "inserting", !.answer = "none", !.now = clock]
                     ELSE [settled EXCEPT !.pc = "answered"]
    <2>1. Handle(r, "unbinding", q) /\ UNCHANGED server
      BY <1>4 DEF Unbind
    <2>2. q \in Slot
      <3>1. clock \in 0..clock
        BY DEF SessionInv, SessionShapes
      <3>2. settled \in Slot
        BY <1>1 DEF Settled, Slot
      <3>. HIDE DEF settled
      <3>. QED  BY <3>1, <3>2 DEF Slot, Label, Answer
    <2>3. Settling(q)
      BY <1>1, <2>1 DEF Handle, Settled, Slot, Settling
    <2>. HIDE DEF q
    <2>. QED  BY <2>1, <2>2, <2>3, ServedWithoutSessions
  <1>. QED  BY <1>2, <1>3, <1>4

(* The number of a new session is none that was logged out of.              *)
LEMMA Creation ==
    ASSUME SessionInv, NEW r \in Request, CreateSession(r)
    PROVE  SessionInv'
  <1>1. request[r] \in Slot /\ Settling(request[r])
    BY DEF SessionInv, SessionShapes, Attempts
  <1>2. CASE Handle(r, "inserting", Answered(r, "error")) /\ UNCHANGED server
    <2>1. Answered(r, "error") \in Slot
      BY <1>1 DEF Answered, Slot, Label, Answer
    <2>2. Settling(Answered(r, "error"))
      BY <1>1, <1>2 DEF Handle, Answered, Slot, Settling
    <2>. QED  BY <1>2, <2>1, <2>2, ServedWithoutSessions
  <1>3. CASE ~(Handle(r, "inserting", Answered(r, "error")) /\ UNCHANGED server)
    <2>. DEFINE q == [At(r, "cleaning") EXCEPT !.session = created + 1]
    <2>1. /\ Handle(r, "inserting", q) /\ created' = created + 1 /\ ended' = ended
          /\ sessions' = [id \in DOMAIN sessions \union {created + 1} |->
                IF id = created + 1 THEN request[r].now + Ttl ELSE sessions[id]]
      BY <1>3 DEF CreateSession
    <2>2. clock' = clock
      BY <2>1 DEF Handle
    <2>3. q \in Slot'
      <3>1. request[r] \in Slot' /\ created + 1 \in Known'
        BY <1>1, <2>1, <2>2 DEF Slot, Known, SessionInv, SessionShapes
      <3>. QED  BY <3>1 DEF At, Slot, Label
    <2>4. Settling(q)
      BY <1>1, <2>1 DEF Handle, At, Slot, Settling
    <2>5. created' \in Nat /\ created' >= created
      BY <2>1 DEF SessionInv, SessionShapes
    <2>6. Handle(r, "inserting", q)
      BY <2>1
    <2>7. /\ clock' \in Nat /\ cookie' \in Known'
          /\ request' \in [Request -> Slot'] /\ Attempts'
      <3>. HIDE DEF q
      <3>. QED  BY <2>3, <2>4, <2>5, <2>6, Served DEF SessionInv
    <2>8. request[r].now + Ttl \in Int
      BY <1>1, BoundAssumption DEF Slot, SessionInv, SessionShapes
    <2>9. DOMAIN sessions' = DOMAIN sessions \union {created + 1}
      BY <2>1
    <2>10. /\ DOMAIN sessions' \subseteq 1..created' /\ ended' \subseteq 1..created'
           /\ ended' \intersect DOMAIN sessions' = {}
      BY <2>1, <2>9 DEF SessionInv, SessionShapes, LogoutIsFinal
    <2>11. \A id \in DOMAIN sessions' : sessions'[id] \in Int
      BY <2>1, <2>8 DEF SessionInv, SessionShapes
    <2>. QED  BY <2>5, <2>7, <2>10, <2>11 DEF SessionInv, SessionShapes, LogoutIsFinal
  <1>. QED  BY <1>2, <1>3

LEMMA CleanUps ==
    ASSUME SessionInv, NEW r \in Request, CleanUp(r)
    PROVE  SessionInv'
  <1>1. request[r] \in Slot /\ Settling(request[r])
    BY DEF SessionInv, SessionShapes, Attempts
  <1>2. Handle(r, "cleaning", Answered(r, "ok")) /\ UNCHANGED <<created, ended>>
    BY DEF CleanUp
  <1>3. Answered(r, "ok") \in Slot
    BY <1>1 DEF Answered, Slot, Label, Answer
  <1>4. Settling(Answered(r, "ok"))
    BY <1>1, <1>2 DEF Handle, Answered, Slot, Settling
  <1>5. /\ DOMAIN sessions' \subseteq DOMAIN sessions
        /\ \A id \in DOMAIN sessions' : sessions'[id] = sessions[id]
    BY DEF CleanUp, Restrict
  <1>. QED  BY <1>2, <1>3, <1>4, <1>5, ServedWithFewer DEF SessionInv, SessionShapes, LogoutIsFinal

LEMMA Serving ==
    ASSUME SessionInv, NEW r \in Request, Serve(r)
    PROVE  SessionInv'
  BY Lookups, Revocation, Directories, Creation, CleanUps DEF Serve

-----------------------------------------------------------------------------
(* The browser.                                                            *)

(* A step of the browser that changes one request.                         *)
LEMMA BrowsedOne ==
    ASSUME SessionInv, NEW r \in Request, NEW STATE q, q \in Slot, Settling(q),
           UNCHANGED <<clock, server>>, cookie' \in Known,
           request' = [request EXCEPT ![r] = q]
    PROVE  SessionInv'
  <1>1. clock' = clock /\ sessions' = sessions /\ created' = created /\ ended' = ended
    BY DEF server
  <1>2. Slot' = Slot /\ Known' = Known
    BY <1>1 DEF Slot, Known
  <1>3. clock' \in Nat /\ clock' >= clock /\ created' \in Nat /\ created' >= created
    BY <1>1 DEF SessionInv, SessionShapes
  <1>4. request' \in [Request -> Slot'] /\ Attempts'
    BY <1>2, <1>3, OneRequest DEF SessionInv
  <1>. QED  BY <1>1, <1>2, <1>4 DEF SessionInv, SessionShapes, LogoutIsFinal

LEMMA BrowsedAll ==
    ASSUME SessionInv, NEW r \in Request, NEW STATE next, NEW STATE new, next \in Slot, Settling(next),
           UNCHANGED <<clock, server>>, cookie' \in Known,
           request' = NextRequest(r, next, new)
    PROVE  SessionInv'
  <1>1. clock' = clock /\ sessions' = sessions /\ created' = created /\ ended' = ended
    BY DEF server
  <1>2. Known' = Known
    BY <1>1 DEF Known
  <1>3. request' \in [Request -> Slot'] /\ Attempts'
    BY <1>1, AllRequests DEF SessionInv
  <1>. QED  BY <1>1, <1>2, <1>3 DEF SessionInv, SessionShapes, LogoutIsFinal

LEMMA Sendable ==
    ASSUME SessionInv, NEW kind \in Kind, NEW with \in Known
    PROVE  /\ Send(kind, with) \in Slot /\ Settling(Send(kind, with))
           /\ Idle \in Slot /\ Settling(Idle)
  <1>1. 0 \in 0..clock
    BY DEF SessionInv, SessionShapes
  <1>. QED  BY <1>1 DEF Idle, Send, Slot, Known, Label, Answer, Kind, Settling

LEMMA Browsing ==
    ASSUME SessionInv, NEW r \in Request, Browse(r)
    PROVE  SessionInv'
  <1>1. request[r] \in Slot /\ cookie \in Known
    BY DEF SessionInv, SessionShapes
  <1>2. Idle \in Slot /\ Settling(Idle)
    BY <1>1, Sendable DEF Slot
  <1>3. CASE SessionKnown(r)
    <2>1. PICK new \in {"app", "anonymous", "failure"} :
          \E next \in {Send("data", cookie), Idle} : request' = NextRequest(r, next, new)
      BY <1>3 DEF SessionKnown
    <2>2. PICK next \in {Send("data", cookie), Idle} : request' = NextRequest(r, next, new)
      BY <2>1
    <2>3. next \in Slot /\ Settling(next)
      BY <1>1, <1>2, Sendable DEF Kind
    <2>4. UNCHANGED <<clock, server, cookie>>
      BY <1>3 DEF SessionKnown
    <2>. QED  BY <1>1, <2>2, <2>3, <2>4, BrowsedAll
  <1>4. CASE DataAnswered(r)
    <2>1. PICK next \in {Send("session", cookie), Idle} : request' = [request EXCEPT ![r] = next]
      BY <1>4 DEF DataAnswered
    <2>2. next \in Slot /\ Settling(next)
      BY <1>1, <1>2, Sendable DEF Kind
    <2>3. UNCHANGED <<clock, server, cookie>>
      BY <1>4 DEF DataAnswered, browser
    <2>. QED  BY <1>1, <2>1, <2>2, <2>3, BrowsedOne
  <1>5. CASE LoginAnswered(r)
    <2>1. UNCHANGED <<clock, server>>
      BY <1>5 DEF LoginAnswered
    <2>2. CASE request[r].answer = "ok"
      <3>. DEFINE with == request[r].session
                  kept == IF request[r].kind = "login" THEN with ELSE NoSession
                  next == [Send("session", with) EXCEPT !.session = kept]
      <3>1. cookie' = with /\ request' = [request EXCEPT ![r] = next]
        BY <1>5, <2>2 DEF LoginAnswered
      <3>2. with \in Known /\ kept \in Known
        BY <1>1 DEF Slot, Known
      <3>3. Send("session", with) \in Slot /\ Settling(Send("session", with))
        BY <3>2, Sendable DEF Kind
      <3>4. next \in Slot
        <4>. HIDE DEF with, kept
        <4>. QED  BY <3>2, <3>3 DEF Slot
      <3>5. Settling(next)
        BY DEF Settling, Send, Idle
      <3>6. cookie' \in Known
        BY <3>1, <3>2
      <3>7. request' = [request EXCEPT ![r] = next]
        BY <3>1
      <3>. HIDE DEF next
      <3>. QED  BY <2>1, <3>4, <3>5, <3>6, <3>7, BrowsedOne
    <2>3. CASE request[r].answer # "ok"
      <3>1. cookie' = cookie /\ request' = [request EXCEPT ![r] = Idle]
        BY <1>5, <2>3 DEF LoginAnswered
      <3>. QED  BY <1>1, <1>2, <2>1, <3>1, BrowsedOne
    <2>. QED  BY <2>2, <2>3
  <1>6. CASE LogoutAnswered(r)
    <2>1. UNCHANGED <<clock, server>>
      BY <1>6 DEF LogoutAnswered
    <2>2. CASE request' = NextRequest(r, Idle, "anonymous") /\ cookie' = NoSession
      BY <1>2, <2>1, <2>2, BrowsedAll DEF Known
    <2>3. CASE request' = [request EXCEPT ![r] = Idle] /\ cookie' = cookie
      BY <1>1, <1>2, <2>1, <2>3, BrowsedOne
    <2>. QED  BY <1>6, <2>2, <2>3 DEF LogoutAnswered, browser
  <1>7. CASE LoseRequest(r)
    <2>1. UNCHANGED <<clock, server, cookie>>
      BY <1>7 DEF LoseRequest
    <2>2. CASE request' = NextRequest(r, Idle, "failure")
      BY <1>1, <1>2, <2>1, <2>2, BrowsedAll
    <2>3. CASE request' = [request EXCEPT ![r] = Idle]
      BY <1>1, <1>2, <2>1, <2>3, BrowsedOne
    <2>. QED  BY <1>7, <2>2, <2>3 DEF LoseRequest
  <1>8. CASE SubmitLogin(r) \/ UseApp(r) \/ AskAgain(r)
    <2>1. PICK kind \in {"login", "data", "post", "logout", "session"} :
            request' = [request EXCEPT ![r] = Send(kind, cookie)]
      BY <1>8 DEF SubmitLogin, UseApp, AskAgain, UserSends
    <2>2. UNCHANGED <<clock, server, cookie>>
      BY <1>8 DEF SubmitLogin, UseApp, AskAgain, UserSends
    <2>3. Send(kind, cookie) \in Slot /\ Settling(Send(kind, cookie))
      BY <1>1, Sendable DEF Kind
    <2>. QED  BY <1>1, <2>1, <2>2, <2>3, BrowsedOne
  <1>. QED  BY <1>3, <1>4, <1>5, <1>6, <1>7, <1>8 DEF Browse

-----------------------------------------------------------------------------
(* The inductive invariant holds.                                          *)
THEOREM SessionInvariance == Spec => []SessionInv
  <1>1. SessionInv /\ [Next]_vars => SessionInv'
    <2>. SUFFICES ASSUME SessionInv, [Next]_vars PROVE SessionInv'
      OBVIOUS
    <2>1. ASSUME NEW r \in Request, Serve(r) PROVE SessionInv'
      BY <2>1, Serving
    <2>2. ASSUME NEW r \in Request, Browse(r) PROVE SessionInv'
      BY <2>2, Browsing
    <2>3. CASE DropCookie
      <3>1. UNCHANGED <<clock, sessions, created, ended, request>> /\ cookie' \in Known
        BY <2>3 DEF DropCookie, server, Known
      <3>2. Slot' = Slot /\ Known' = Known
        BY <3>1 DEF Slot, Known
      <3>. QED  BY <3>1, <3>2 DEF SessionInv, SessionShapes, LogoutIsFinal, Attempts
    <2>4. CASE Tick
      <3>1. clock' = clock + 1 /\ UNCHANGED <<sessions, created, ended, cookie, request>>
        BY <2>4 DEF Tick, server, browser
      <3>2. \A q \in Slot : q \in Slot'
        BY <3>1 DEF Slot, Known, SessionInv, SessionShapes
      <3>3. request' \in [Request -> Slot']
        BY <3>1, <3>2 DEF SessionInv, SessionShapes
      <3>. QED  BY <3>1, <3>3 DEF SessionInv, SessionShapes, Known, LogoutIsFinal, Attempts
    <2>5. CASE UNCHANGED vars
      <3>1. UNCHANGED <<clock, sessions, created, ended, cookie, request>>
        BY <2>5 DEF vars, server, browser
      <3>2. Slot' = Slot /\ Known' = Known
        BY <3>1 DEF Slot, Known
      <3>. QED  BY <3>1, <3>2 DEF SessionInv, SessionShapes, LogoutIsFinal, Attempts
    <2>. QED  BY <2>1, <2>2, <2>3, <2>4, <2>5 DEF Next
  <1>. QED  BY Initially, <1>1, PTL DEF Spec

(* A session whose logout was answered with ok has no row ever after.       *)
THEOREM LoggedOutForGood == Spec => []LogoutIsFinal
  <1>1. SessionInv => LogoutIsFinal
    BY DEF SessionInv
  <1>. QED  BY SessionInvariance, <1>1, PTL

(* A login is answered with its connection closed and its attempt settled as *)
(* what it was.                                                            *)
THEOREM LoginsSettle == Spec => []LoginIsSettled
  <1>1. SessionInv => LoginIsSettled
    BY DEF SessionInv, Attempts, Settling, LoginIsSettled, IsLogin
  <1>. QED  BY SessionInvariance, <1>1, PTL

(* No step deletes a session that has neither expired nor a logout on the    *)
(* way.                                                                    *)
THEOREM LiveSessionsStay == Spec => OnlyDeadSessionsDeleted
  <1>. DEFINE Dead(id) == \/ sessions[id] <= clock
                          \/ \E x \in Request : request[x].kind = "logout" /\ request[x].cookie = id
  <1>1. ASSUME SessionInv, [Next]_vars PROVE \A id \in DOMAIN sessions \ DOMAIN sessions' : Dead(id)
    <2>. SUFFICES ASSUME NEW id \in DOMAIN sessions, id \notin DOMAIN sessions' PROVE Dead(id)
      OBVIOUS
    <2>1. sessions[id] \in Int /\ clock \in Nat
      BY <1>1 DEF SessionInv, SessionShapes
    <2>2. ASSUME NEW r \in Request, DeleteSession(r) \/ CleanUp(r) PROVE Dead(id)
      <3>1. request[r].now \in 0..clock
        BY <1>1 DEF SessionInv, SessionShapes, Slot
      <3>2. sessions[id] <= request[r].now
        BY <2>1, <2>2, <3>1 DEF DeleteSession, CleanUp, ValidAt, Expired, RowsWithout, Restrict
      <3>. QED  BY <2>1, <3>1, <3>2
    <2>3. ASSUME NEW r \in Request, RevokeSession(r) PROVE Dead(id)
      <3>1. request[r].kind = "logout" /\ request[r].cookie = id
        BY <2>3 DEF RevokeSession, RowsWithout, Restrict
      <3>. QED  BY <3>1
    <2>4. ASSUME NEW r \in Request, CreateSession(r) PROVE FALSE
      BY <2>4 DEF CreateSession, server
    <2>5. ASSUME UNCHANGED sessions PROVE FALSE
      BY <2>5
    <2>6. ASSUME NEW r \in Request, Browse(r) PROVE FALSE
      BY <2>5, <2>6 DEF Browse, SessionKnown, DataAnswered, LoginAnswered, LogoutAnswered,
            LoseRequest, SubmitLogin, UseApp, AskAgain, UserSends, server
    <2>7. ASSUME NEW r \in Request, Serve(r) PROVE Dead(id)
      <3>. HIDE DEF Dead
      <3>1. CASE FindSession(r) \/ SelectSession(r)
        BY <2>5, <3>1 DEF FindSession, SelectSession, server
      <3>2. CASE ReserveAttempt(r) \/ SecureConnection(r) \/ BindService(r) \/ SearchUser(r)
                    \/ BindUser(r) \/ Unbind(r)
        BY <2>5, <3>2 DEF ReserveAttempt, SecureConnection, BindService, SearchUser, BindUser,
              Unbind, Directory, server
      <3>. QED  BY <2>2, <2>3, <2>4, <2>7, <3>1, <3>2 DEF Serve
    <2>8. DropCookie \/ Tick \/ UNCHANGED vars => UNCHANGED sessions
      BY DEF DropCookie, Tick, vars, server
    <2>. HIDE DEF Dead
    <2>. QED  BY <1>1, <2>5, <2>6, <2>7, <2>8 DEF Next
  <1>2. SessionInv /\ [Next]_vars =>
          [\A id \in DOMAIN sessions \ DOMAIN sessions' :
            \/ sessions[id] <= clock
            \/ \E r \in Request : request[r].kind = "logout" /\ request[r].cookie = id]_vars
    BY <1>1
  <1>. QED  BY SessionInvariance, <1>2, PTL DEF Spec, OnlyDeadSessionsDeleted

=============================================================================
