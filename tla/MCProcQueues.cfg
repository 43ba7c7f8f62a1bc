CONSTANTS
    a = a  b = b  c = c
    MAXPROC = 3
    SEMD = 2
    SEMMAX = 2
    Sem = {a, b, c}
SPECIFICATION Spec
SYMMETRY SemSymmetry
VIEW Structure
INVARIANTS CountsAgree DescriptorsOK
PROPERTY ImplementsQueues
