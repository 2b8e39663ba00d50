SPECIFICATION FairSpec
CONSTANTS
    Kind <- AllKinds
    Content <- Contents
    Row <- Rows
    Output <- Outputs
    Oversized <- Big
    Unusable <- TooLong
    UnusableIssue <- LongIssue
    NoCheckpoint = NoCheckpoint
    Finished = Finished
    RecordLimit = 2
    RelationLimit = 1
    ByteLimit = 4
    BatchSize = 3
    MaxRuns = 3
    MaxChanges = 1
INVARIANTS
    TraversalIsExact
    OneSnapshot
    CommitIsSelfContained
    BatchesChain
PROPERTIES
    CollectionEnds
CHECK_DEADLOCK FALSE
