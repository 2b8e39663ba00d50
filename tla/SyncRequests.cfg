SPECIFICATION Spec
CONSTANTS
    c1 = c1
    c2 = c2
    p1 = p1
    p2 = p2
    Caller <- TwoCallers
    Plugin <- TwoPlugins
    WithMenu <- OnePlugin
    Nobody = Nobody
    OtherProcess = OtherProcess
    KeepTicks = 1
    KeepCount = 1
    MaxRequests = 2
    MaxTime = 2
SYMMETRY CallerSymmetry
INVARIANTS
    RequestsAreTracked
    ActiveIsOpen
PROPERTIES
    ResultsKept
