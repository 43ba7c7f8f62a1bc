CONSTANTS
    N = 2
    MaxDelay = 1
    MaxCron = 1
SPECIFICATION FairSpec
PROPERTY AlwaysShutsDown
CHECK_DEADLOCK FALSE
