SPECIFICATION Spec
CONSTANTS
    Keys <- MCOneKey
    States <- PodStates
    MaxChanges = 7
    MaxQueue = 3
    LookupFaults = FALSE
    Relabelling = FALSE
CHECK_DEADLOCK FALSE
INVARIANT
    PooledIsCurrent
