SPECIFICATION SystemSpec
CONSTANTS
    JobCounts <- MCJobCounts
    Sizes <- MCSizes
    Ordinals <- MCOrdinals
    MaxVersion = 4
    StoreFaults = FALSE
    RestartFaults = FALSE
    MaxScalings = 2
    MaxRestarts = 0
    ControllerRestarts = FALSE
CHECK_DEADLOCK FALSE
INVARIANTS
    AllWorkersCurrent
