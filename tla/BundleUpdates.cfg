SPECIFICATION Spec
CONSTANTS
    Runner = {m1, m2}
    NoRunner = NoRunner
    Catalogs <- MCCatalogs
    MaxCrashes = 1
    MaxScripts = 5
SYMMETRY RunnerSymmetry
INVARIANTS
    HistoryIsTrue
    NeverTwice
PROPERTIES
    SchemaFitsCode
CHECK_DEADLOCK FALSE
