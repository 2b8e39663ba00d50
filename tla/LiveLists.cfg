SPECIFICATION Spec
CONSTANTS
    r1 = r1
    r2 = r2
    Request <- TwoRequests
    NoRequest = NoRequest
    Page = {1, 2, 3}
    PageSize = 1
    MaxRows = 2
    Ttl = 1
    MaxEntries = 2
    MaxBytes = 3
    MaxTime = 3
SYMMETRY RequestSymmetry
INVARIANTS
    OneQueryPerKey
    PageAgreesWithTotal
    CacheWithinLimits
