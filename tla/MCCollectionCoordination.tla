---------------------- MODULE MCCollectionCoordination ----------------------
(***************************************************************************)
(* Small instances of CollectionCoordination for TLC.                      *)
(***************************************************************************)
EXTENDS CollectionCoordination, TLC

CONSTANTS w1, w2, r1, r2

OneWorker == {w1}
TwoWorkers == {w1, w2}
OneRevision == {r1}
TwoRevisions == {r1, r2}

(* Workers and revisions are interchangeable in every safety property.     *)
WorkerSymmetry == Permutations(TwoWorkers)
Symmetry == Permutations(TwoWorkers) \union Permutations(TwoRevisions)

=============================================================================
