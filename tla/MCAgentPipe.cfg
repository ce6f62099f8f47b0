SPECIFICATION Spec
CONSTANTS
    NULL = NULL
    c1 = c1
    c2 = c2
    Clients = {c1, c2}
    Settings <- Crashing
    MaxPolls = 2
INVARIANTS
    InStep
    OwnKey
PROPERTIES
    ImplementsService
    AlwaysComesBack
    StopsAfterDeath
CHECK_DEADLOCK FALSE
