SPECIFICATION Spec
CONSTANTS
    w1 = w1
    w2 = w2
    r1 = r1
    r2 = r2
    Worker <- OneWorker
    Revision <- OneRevision
    NoRevision = NoRevision
    NoCheckpoint = NoCheckpoint
    SourceLength = 1
    LeaseTicks = 1
    ClockSkew = 0
    MaxRuns = 3
PROPERTIES
    CompletedRunTraversesSource
