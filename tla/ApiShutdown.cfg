SPECIFICATION FairApiSpec
CONSTANTS
    t1 = t1
    Target <- OneTarget
    DueInstant = {1, 2}
    MaxTime = 2
    MaxSpawns = 2
INVARIANTS
    OncePerInstant
    DuplicatesAreHandled
    NoCollectionOutlivesShutdown
PROPERTIES
    ResultsUseOpenDatabase
    ShutdownEnds
\* A process that has shut down has nothing left to do.
CHECK_DEADLOCK FALSE
