CONSTANTS
    N = 2
    Limit = 3
    Position <- MCPosition
SPECIFICATION Spec
PROPERTY ReturnsOwnStatus
CHECK_DEADLOCK FALSE
