CONSTANTS
    p1 = p1  p2 = p2  p3 = p3  p4 = p4
    a = a  b = b  c = c  d = d
    NIL = NIL
    Proc = {p1, p2, p3, p4}
    UserSem = {a, b}
    Dev = {}
    Clock = Clock
    Vectors <- MultiP
    TrapTypes = {1}
    SEMD = 4
    Quantum = 1
    PClock = 1
    MaxSem = 1
    OrphanIO = FALSE
SPECIFICATION Spec
SYMMETRY Symmetry4
INVARIANTS Placed SemCount TreeOK HaltIsRight
PROPERTY DiesWithCreator
