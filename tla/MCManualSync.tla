---------------------------- MODULE MCManualSync ----------------------------
(* Small instances of ManualSync: POSTs are interchangeable.                *)
EXTENDS ManualSync, TLC

CONSTANTS c1, c2, p1, p2

TwoCallers == {c1, c2}
OnePlugin == {p1}
TwoPlugins == {p1, p2}

CallerSymmetry == Permutations(TwoCallers)
=============================================================================
