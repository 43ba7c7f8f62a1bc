CONSTANTS
    N = 2
    Limit = 3
    Position <- MCPosition
SPECIFICATION FairSpec
INVARIANTS TypeOK Served StatusIsOwn AlwaysFinds Elevator
PROPERTY DiskGoesOn
CHECK_DEADLOCK FALSE
