SPECIFICATION Spec
CONSTANTS
    old = old
    new = new
    w0 = w0
    w1 = w1
    Controllers <- MCControllers
    Associations <- MCAssociations
    MayCreate = TRUE
    Faults = TRUE
    MaxRevision = 5
CHECK_DEADLOCK FALSE
INVARIANTS
    TypeOK
PROPERTIES
    NoLostUpdate
    NotReinitialised
    SetIsAtomic
