SPECIFICATION Spec
CONSTANTS
    Null = Null
    none = none
    word = word
    long = long
    range = range
    bad = bad
    Text <- Texts
    NoText = none
    LongText = long
    Draft <- Drafts
    BadDraft <- BadDrafts
    NoDraft = none
    PageSize <- Sizes
    DefaultSize = 20
    MaxPages = 2
    MaxInputs = 3
    MaxRuns = 1
INVARIANTS
    RowsMatchConditions
    SettledViewIsCurrent
    BusyIsWaiting
    RunIsPolled
CHECK_DEADLOCK FALSE
