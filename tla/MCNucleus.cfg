CONSTANTS
    p1 = p1  p2 = p2  p3 = p3  p4 = p4
    a = a  b = b  c = c  d = d
    NIL = NIL
    Proc = {p1, p2, p3}
    UserSem = {a, b}
    Dev = {d}
    Clock = Clock
    Vectors <- SingleP
    TrapTypes = {}
    SEMD = 3
    Quantum = 1
    PClock = 2
    MaxSem = 1
    OrphanIO = FALSE
SPECIFICATION FairSpec
INVARIANTS TypeOK Placed OneQueue SemCount HaltIsRight InterruptComing CompletionIsOwn WaitsForOwn
PROPERTIES ReadyRuns IOEnds
