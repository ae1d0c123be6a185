SPECIFICATION Spec
CONSTANTS
    JobCounts <- MCJobCounts
    Sizes <- MCSizes
    Ordinals <- MCOrdinals
    MaxVersion = 4
    StoreFaults = TRUE
    RestartFaults = TRUE
INVARIANTS
    TypeOK
    RestartBudget
    NoForgottenMark
    SwarmNotAhead
    RestartAfterPublish
PROPERTIES
    ConfigMapImplementsStore
    SwarmImplementsStore
    SurvivorsMarked
