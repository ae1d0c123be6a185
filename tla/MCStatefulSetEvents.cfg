SPECIFICATION FairSpec
CONSTANTS
    Keys <- MCKeys
    States <- MCReplicas
    MaxChanges = 3
    MaxQueue = 3
    LookupFaults = TRUE
CHECK_DEADLOCK FALSE
INVARIANTS
    TypeOK
    SizeSettles
PROPERTY
    ChangesAreHandled
