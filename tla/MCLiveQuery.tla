---------------------------- MODULE MCLiveQuery ----------------------------
(* Small instances of LiveQuery: the lists under way are interchangeable.   *)
EXTENDS LiveQuery, TLC

CONSTANTS r1, r2

TwoRequests == {r1, r2}

RequestSymmetry == Permutations(TwoRequests)
=============================================================================
