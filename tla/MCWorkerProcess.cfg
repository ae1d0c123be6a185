SPECIFICATION FairSpec
CONSTANTS
    JobSets <- MCJobSets
    MaxFiles = 3
    MaxRestarts = 1
CHECK_DEADLOCK FALSE
INVARIANTS
    TypeOK
    WatchersDouble
    AnswerHasJobs
PROPERTIES
    ConfigCatchesUp
