SPECIFICATION FairSpec
CONSTANTS
    JobCounts <- MCJobCounts
    Sizes <- MCSizes
    Ordinals <- MCOrdinals
    MaxVersion = 2
    StoreFaults = TRUE
    RestartFaults = FALSE
PROPERTIES
    StoresCatchUp
