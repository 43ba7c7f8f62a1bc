CONSTANTS
    N = 2
    Page = {3}
    Boot = 3
    SharedPage = {1}
    F = 2
    S = 3
    LOW = 0
    HIGH = 1
    MaxSignal = 1
CONSTRAINT Unbroken
SPECIFICATION FairSpec
INVARIANTS TypeOK FramesOwned FreeCount ContentKept
PROPERTY SomebodyRuns
CHECK_DEADLOCK FALSE
