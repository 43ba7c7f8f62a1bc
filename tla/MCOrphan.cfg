CONSTANTS
    p1 = p1  p2 = p2  p3 = p3  p4 = p4
    a = a  b = b  c = c  d = d
    NIL = NIL
    Proc = {p1, p2, p3}
    UserSem = {a}
    Dev = {d}
    Clock = Clock
    Vectors <- NoVectors
    TrapTypes = {}
    SEMD = 3
    Quantum = 1
    PClock = 1
    MaxSem = 2
    OrphanIO = TRUE
SPECIFICATION Spec
INVARIANT CompletionIsOwn
