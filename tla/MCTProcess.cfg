CONSTANTS
    N = 3
    MaxDelay = 1
    MaxCron = 1
SPECIFICATION FairSpec
INVARIANTS TypeOK NotEarly CronAwake
PROPERTIES NoEarlyShutdown ShutsDown DelayEnds
CHECK_DEADLOCK FALSE
