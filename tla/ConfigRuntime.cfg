SPECIFICATION RuntimeSpec
CONSTANTS
    Folder <- Folders
    NoMenu = NoMenu
    Nothing = Nothing
    Disk <- Disks
    Pure <- PureCode
    Loadable <- LoadableCode
    MaxEdits = 1
    MaxRuns = 2
INVARIANTS
    AcceptedIsComplete
    ScheduledRunsCaptured
    ResultsAgree
CHECK_DEADLOCK FALSE
