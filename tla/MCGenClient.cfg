SPECIFICATION Spec
CONSTANTS
    NULL = NULL
    a = a
    b = b
    p1 = p1
    p2 = p2
    Procs = {p1, p2}
    Names = {a, b}
    Options <- MCOptions
    MAX_POLL = 1
    MaxAuth = 2
    MaxClient = 1
    MaxRuns = 3
SYMMETRY Symmetry
CHECK_DEADLOCK FALSE
INVARIANTS
    TokenKept
    ServerTold
