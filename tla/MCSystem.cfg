SPECIFICATION FairSystem
CONSTANTS
    JobCounts <- MCJobCounts
    Sizes <- MCSizes
    Ordinals <- MCOrdinals
    MaxVersion = 4
    StoreFaults = FALSE
    RestartFaults = TRUE
    MaxScalings = 2
    MaxRestarts = 1
    ControllerRestarts = TRUE
CHECK_DEADLOCK FALSE
INVARIANTS
    SystemTypeOK
    StaleExplained
PROPERTIES
    ClusterSettles
    MarkIsServed
