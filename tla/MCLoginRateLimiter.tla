------------------------- MODULE MCLoginRateLimiter -------------------------
(* Small instances of LoginRateLimiter: requests, addresses and login ids   *)
(* are interchangeable.                                                     *)
EXTENDS LoginRateLimiter, TLC

Interchangeable ==
    Permutations(Login) \union Permutations(Ip) \union Permutations(LoginId)
=============================================================================
