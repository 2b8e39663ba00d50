SPECIFICATION LimiterSpec
CONSTANTS
    Login = {r1, r2, r3}
    Ip = {i1, i2}
    LoginId = {l1, l2}
    NoAttempt = NoAttempt
    Limit = 2
    Window = 2
    MaxBuckets = 3
    MaxInstant = 3
SYMMETRY Interchangeable
INVARIANTS
    CountsAttempts
    AttemptsBounded
    MemoryBounded
