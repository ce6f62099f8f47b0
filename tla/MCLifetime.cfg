SPECIFICATION Spec
CONSTANTS
    NULL = NULL
    a1 = a1
    a2 = a2
    Accounts = {a1, a2}
    Lifetimes = {0, 1, 3}
    ShortLife = 2
    MaxTime = 7
INVARIANTS
    TimerCovers
PROPERTIES
    NeverUnloadedEarly
    UnloadedWhenIdle
