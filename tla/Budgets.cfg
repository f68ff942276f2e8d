SPECIFICATION BoundedSpec
CONSTANTS
    Files = 2
    HasPrevious = TRUE
    BudgetLimits <- EveryLimit
    Callers = {c1, c2, c3}
    MaxBlob = 3
    MaximumMetadataCalls = 2
    MaximumBlobReads = 4
    MaximumBlobBytes = 4
INVARIANT CompleteWasRefusedNothing
PROPERTIES IndexRunEnds ReadersImplementMeter
CHECK_DEADLOCK FALSE
