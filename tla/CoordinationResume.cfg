SPECIFICATION Spec
CONSTANTS
    w1 = w1
    w2 = w2
    r1 = r1
    r2 = r2
    Worker <- TwoWorkers
    Revision <- OneRevision
    NoRevision = NoRevision
    NoCheckpoint = NoCheckpoint
    SourceLength = 2
    LeaseTicks = 1
    ClockSkew = 3
    MaxRuns = 3
SYMMETRY WorkerSymmetry
INVARIANTS
    OutcomeAgrees
    NoGapBeforeCheckpoint
    CompletedMeansStored
PROPERTIES
    CancelledNeverCompletes
