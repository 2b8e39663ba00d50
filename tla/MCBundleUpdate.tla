---------------------------- MODULE MCBundleUpdate ----------------------------
(* BundleUpdate for TLC: the second and the third release add a migration    *)
(* each, and the third may have a file of the first one changed.            *)
EXTENDS BundleUpdate, TLC

MCCatalogs ==
    {<< 1 :> "a", (1 :> "a") @@ (2 :> "a"), (1 :> checksum) @@ (2 :> "a") @@ (3 :> "a") >> :
        checksum \in {"a", "b"}}

RunnerSymmetry == Permutations(Runner)

=============================================================================
