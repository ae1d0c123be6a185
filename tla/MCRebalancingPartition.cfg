SPECIFICATION Spec
CONSTANTS
    JobCounts <- MCJobCounts
    Totals <- MCTotals
    Versions <- MCVersions
INVARIANT EachJobOnce
