SPECIFICATION Spec
CONSTANTS
    JobCounts <- MCJobCounts
    Totals <- MCTotals
    Versions <- MCVersions
INVARIANTS
    TypeOK
    Deterministic
    SlicesInRange
    FairSizes
    PartitionWhenEven
    LostJobsAreTheTail
PROPERTIES
    EqualsBothWays
    EqualsHidesOnlyIdle
