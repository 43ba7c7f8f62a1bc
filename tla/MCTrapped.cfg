CONSTANTS
    t1 = t1  t2 = t2  t3 = t3
    x = x  y = y
    NULL = NULL
    BEYOND = BEYOND
    TProc = {t1, t2}
    Addr = {x}
    VS = 2
    MaxVal = 1
SPECIFICATION FairSpec
PROPERTY AllGetIn
CHECK_DEADLOCK FALSE
