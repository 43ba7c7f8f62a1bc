CONSTANTS
    p1 = p1  p2 = p2  p3 = p3  p4 = p4
    a = a  b = b  c = c  d = d
    NIL = NIL
    Proc = {p1, p2}
    UserSem = {a, b, c}
    Dev = {}
    Clock = Clock
    Vectors <- SelfV
    TrapTypes = {}
    SEMD = 2
    Quantum = 1
    PClock = 1
    MaxSem = 1
    OrphanIO = FALSE
SPECIFICATION Spec
INVARIANT Placed
