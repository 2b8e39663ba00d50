---------------------------- MODULE MCAuthSessions ----------------------------
(* AuthSessions for TLC: the slots for requests are interchangeable.        *)
EXTENDS AuthSessions, TLC

RequestSymmetry == Permutations(Request)

=============================================================================
