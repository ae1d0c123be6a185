SPECIFICATION Spec
CONSTANTS
    Keys <- MCOneKey
    States <- PodStates
    MaxChanges = 7
    MaxQueue = 4
    LookupFaults = FALSE
    Relabelling = TRUE
CHECK_DEADLOCK FALSE
INVARIANTS
    TypeOK
    ReadyIsPooled
    GoneIsNotPooled
    NoOlderIncarnation
