SPECIFICATION BSpec
CONSTANTS
    FailureThreshold = 2
    SuccessThreshold = 2
    OpenTimeout = 2
    Window = 2
    Resets = {TRUE, FALSE}
    MaxFailures = 3
    MaxTime = 6
INVARIANTS
    ClosedIsClean
PROPERTIES
    OpenEnds
