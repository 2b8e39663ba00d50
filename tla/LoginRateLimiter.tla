-------------------------- MODULE LoginRateLimiter --------------------------
(***************************************************************************)
(* Login attempts of one API process: LoginRateLimiter of apps/api/src and  *)
(* AuthService.login, which reserves an attempt, waits for the directory,   *)
(* and settles the attempt when the answer comes.                          *)
(*                                                                         *)
(* The buckets live in the memory of one process and every operation on     *)
(* them runs to its end between two awaits, so an operation is one action   *)
(* and other attempts happen only while the directory answers.  A login id  *)
(* stands for all its spellings (trim, lower case, HMAC); the clock counts  *)
(* the milliseconds that matter and does not go back.                       *)
(***************************************************************************)
EXTENDS Integers, FiniteSets

CONSTANTS
    Login,      \* logins that may be under way at once
    Ip,         \* client addresses
    LoginId,    \* normalised login ids
    NoAttempt,  \* a login that is not under way
    Limit,      \* attempts per key and window
    Window,     \* length of a window
    MaxBuckets, \* buckets the process keeps
    MaxInstant  \* bound: the clock

ASSUME KeyAssumption == Ip \intersect LoginId = {}
ASSUME LimitAssumption == Limit \in Nat \ {0} /\ Window \in Nat \ {0}
ASSUME BucketAssumption == MaxBuckets \in Nat /\ MaxBuckets >= 2
ASSUME TimeAssumption == MaxInstant \in Nat

Key == Ip \union LoginId
Instant == 0..MaxInstant
Bucket == [count : 1..Limit, pending : 0..Limit, resetAt : 1..(MaxInstant + Window)]
Attempt == [ip : Ip, login : LoginId, at : Instant,
            ipResetAt : 1..(MaxInstant + Window), loginResetAt : 1..(MaxInstant + Window)]

ASSUME LoginAssumption == IsFiniteSet(Login) /\ NoAttempt \notin Attempt

VARIABLES
    buckets,    \* the Map of buckets: its keys are its domain
    attempt,    \* the reservation of each login under way
    time,       \* Date.now()
    failures    \* history: failed attempts of each key by time of admission,
                \* those of a login id since it last logged in

limiterVars == <<buckets, attempt, time, failures>>

LimiterTypeOK ==
    /\ DOMAIN buckets \subseteq Key
    /\ \A k \in DOMAIN buckets :
        buckets[k] \in Bucket /\ buckets[k].pending <= buckets[k].count
    /\ attempt \in [Login -> Attempt \union {NoAttempt}]
    /\ time \in Instant
    /\ failures \in [Key -> [Instant -> Nat]]

LimiterInit ==
    /\ buckets = << >>
    /\ attempt = [r \in Login |-> NoAttempt]
    /\ time = 0
    /\ failures = [k \in Key |-> [t \in Instant |-> 0]]

-----------------------------------------------------------------------------
Only(bs, keys) == [k \in keys |-> bs[k]]

Prune(bs) == Only(bs, {k \in DOMAIN bs : bs[k].resetAt > time})

(* Mutant: the attempt that reaches the limit is not the last one.         *)
AboveLimit(bs, k) ==
    /\ k \in DOMAIN bs
    /\ bs[k].resetAt > time
    /\ bs[k].count > Limit

AtLimit(bs, k) ==
    /\ k \in DOMAIN bs
    /\ bs[k].resetAt > time
    /\ bs[k].count >= Limit

(* Mutant: one missing bucket is counted where two may be needed.          *)
RoomForOne(bs, i, l) ==
    Cardinality(DOMAIN bs) + (IF {i, l} \subseteq DOMAIN bs THEN 0 ELSE 1) <= MaxBuckets

(* The buckets that must be added still fit.                               *)
Room(bs, i, l) == Cardinality(DOMAIN bs \union {i, l}) <= MaxBuckets

Admitted(bs, i, l) == ~AtLimit(bs, i) /\ ~AtLimit(bs, l) /\ Room(bs, i, l)

ReserveBucket(bs, k) ==
    IF k \in DOMAIN bs
    THEN [bs EXCEPT ![k].count = @ + 1, ![k].pending = @ + 1]
    ELSE [x \in DOMAIN bs \union {k} |->
            IF x = k THEN [count |-> 1, pending |-> 1, resetAt |-> time + Window] ELSE bs[x]]

(* The end of one attempt in one bucket, if it is still the bucket the      *)
(* attempt was reserved in: a failure stays counted.                       *)
Settle(bs, k, resetAt, keep) ==
    IF k \notin DOMAIN bs THEN bs
    ELSE IF bs[k].resetAt /= resetAt THEN bs
    ELSE LET count == IF keep THEN bs[k].count ELSE bs[k].count - 1
         IN IF count = 0 THEN Only(bs, DOMAIN bs \ {k})
            ELSE [bs EXCEPT ![k].count = count, ![k].pending = @ - 1]

SettleBoth(bs, a, keep) ==
    Settle(Settle(bs, a.ip, a.ipResetAt, keep), a.login, a.loginResetAt, keep)

(* Mutant: a login that succeeds forgets the attempts under way as well.   *)
ForgetAllAttempts(bs, l) == Only(bs, DOMAIN bs \ {l})

(* success: the login id keeps only the attempts under way.                *)
ForgetFailures(bs, l) ==
    IF l \notin DOMAIN bs THEN bs
    ELSE IF bs[l].pending = 0 THEN Only(bs, DOMAIN bs \ {l})
    ELSE [bs EXCEPT ![l].count = bs[l].pending]

-----------------------------------------------------------------------------
Reserve(r, i, l) ==
    LET pruned == Prune(buckets)
        reserved == ReserveBucket(ReserveBucket(pruned, i), l)
    IN /\ attempt[r] = NoAttempt
       /\ Admitted(pruned, i, l)
       /\ buckets' = reserved
       /\ attempt' = [attempt EXCEPT ![r] =
            [ip |-> i, login |-> l, at |-> time,
             ipResetAt |-> reserved[i].resetAt, loginResetAt |-> reserved[l].resetAt]]
       /\ UNCHANGED <<time, failures>>

(* 429: the attempt is refused and the directory is not asked.             *)
Refuse(r, i, l) ==
    /\ attempt[r] = NoAttempt
    /\ ~Admitted(Prune(buckets), i, l)
    /\ buckets' = Prune(buckets)
    /\ UNCHANGED <<attempt, time, failures>>

(* The directory says INVALID_CREDENTIALS.                                 *)
Reject(r) ==
    /\ attempt[r] /= NoAttempt
    /\ LET a == attempt[r]
       IN /\ buckets' = SettleBoth(buckets, a, TRUE)
          /\ failures' = [k \in Key |->
                IF k \in {a.ip, a.login} THEN [failures[k] EXCEPT ![a.at] = @ + 1]
                ELSE failures[k]]
    /\ attempt' = [attempt EXCEPT ![r] = NoAttempt]
    /\ UNCHANGED time

(* The directory does not answer, or not usefully: 503.                    *)
Abandon(r) ==
    /\ attempt[r] /= NoAttempt
    /\ buckets' = SettleBoth(buckets, attempt[r], FALSE)
    /\ attempt' = [attempt EXCEPT ![r] = NoAttempt]
    /\ UNCHANGED <<time, failures>>

(* The directory knows the user; the session is created afterwards.        *)
Succeed(r) ==
    /\ attempt[r] /= NoAttempt
    /\ LET a == attempt[r]
       IN /\ buckets' = ForgetFailures(SettleBoth(buckets, a, FALSE), a.login)
          /\ failures' = [failures EXCEPT ![a.login] = [t \in Instant |-> 0]]
    /\ attempt' = [attempt EXCEPT ![r] = NoAttempt]
    /\ UNCHANGED time

LimiterTick ==
    /\ time < MaxInstant
    /\ time' = time + 1
    /\ UNCHANGED <<buckets, attempt, failures>>

LimiterNext ==
    \/ \E r \in Login, i \in Ip, l \in LoginId : Reserve(r, i, l) \/ Refuse(r, i, l)
    \/ \E r \in Login : Reject(r) \/ Abandon(r) \/ Succeed(r)
    \/ LimiterTick

LimiterSpec == LimiterInit /\ [][LimiterNext]_limiterVars

-----------------------------------------------------------------------------
Concerns(k, r) == attempt[r] /= NoAttempt /\ k \in {attempt[r].ip, attempt[r].login}

(* The failures that a history has in a span of time, each by its number.   *)
Failed(history, span) == UNION {{t} \X (1..history[t]) : t \in span}

(* Attempts of a key admitted in a span of time that failed or are open.   *)
AttemptsIn(k, span) ==
    Cardinality(Failed(failures[k], span))
    + Cardinality({r \in Login : Concerns(k, r) /\ attempt[r].at \in span})

(* A bucket counts exactly the attempts of its key admitted since its       *)
(* window began that failed or are still open, whatever was released,       *)
(* answered after its window or forgotten by a login in the meantime.       *)
CountsAttempts ==
    \A k \in DOMAIN buckets :
        buckets[k].count =
            AttemptsIn(k, (buckets[k].resetAt - Window)..(buckets[k].resetAt - 1)
                          \intersect Instant)

(* No reservation leaks: a bucket has as many pending attempts as there     *)
(* are logins under way that were reserved in it.                           *)
PendingIsOpen ==
    \A k \in DOMAIN buckets :
        buckets[k].pending =
            Cardinality({r \in Login :
                /\ Concerns(k, r)
                /\ buckets[k].resetAt = IF k \in Ip THEN attempt[r].ipResetAt
                                        ELSE attempt[r].loginResetAt})

(* However the attempts, answers and windows interleave, no stretch of      *)
(* time as long as a window admits more than twice the limit of attempts of *)
(* one address, or of one login id since it last logged in.                 *)
AttemptsBounded ==
    \A k \in Key, t \in Instant : AttemptsIn(k, t..(t + Window - 1) \intersect Instant) <= 2 * Limit

(* The memory of the limiter is bounded, whoever tries to log in.          *)
MemoryBounded == Cardinality(DOMAIN buckets) <= MaxBuckets
=============================================================================
