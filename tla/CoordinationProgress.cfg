SPECIFICATION FairSpec
CONSTANTS
    w1 = w1
    w2 = w2
    r1 = r1
    r2 = r2
    Worker <- TwoWorkers
    Revision <- TwoRevisions
    NoRevision = NoRevision
    NoCheckpoint = NoCheckpoint
    SourceLength = 2
    LeaseTicks = 1
    ClockSkew = 0
    MaxRuns = 2
INVARIANTS
    TypeOK
    OneActiveRun
PROPERTIES
    OnlyCurrentRunConfirms
    RunsEnd
    ImplementsRunLease
