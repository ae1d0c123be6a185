SPECIFICATION FairSpec
CONSTANTS
    JobSets <- MCJobSets
    MaxFiles = 1
    MaxRestarts = 0
CHECK_DEADLOCK FALSE
PROPERTY
    AppFollowsConfig
