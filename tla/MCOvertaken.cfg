CONSTANTS
    t1 = t1  t2 = t2  t3 = t3
    x = x  y = y
    NULL = NULL
    BEYOND = BEYOND
    TProc = {t1, t2, t3}
    Addr = {x, y}
    VS = 3
    MaxVal = 1
SPECIFICATION Spec
INVARIANT EachItsOwn
CHECK_DEADLOCK FALSE
