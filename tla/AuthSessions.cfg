SPECIFICATION Spec
CONSTANTS
    Request = {r1, r2}
    NoSession = NoSession
    Ttl = 1
    MaxSessions = 2
    MaxTime = 2
SYMMETRY RequestSymmetry
INVARIANTS
    LogoutIsFinal
    LoginIsSettled
CHECK_DEADLOCK FALSE
