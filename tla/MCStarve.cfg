CONSTANTS
    p1 = p1  p2 = p2  p3 = p3  p4 = p4
    a = a  b = b  c = c  d = d
    NIL = NIL
    Proc = {p1, p2, p3}
    UserSem = {a, b}
    Dev = {}
    Clock = Clock
    Vectors <- PingPong
    TrapTypes = {}
    SEMD = 3
    Quantum = 2
    PClock = 1
    MaxSem = 1
    OrphanIO = FALSE
SPECIFICATION FairSpec
PROPERTY ClockWaitEnds
