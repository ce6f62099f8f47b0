SPECIFICATION Spec
CONSTANTS
    NULL = NULL
    pw1 = pw1
    pw2 = pw2
    key1 = key1
    Passwords = {pw1, pw2}
    Keys = {key1}
    DefaultKeys <- MCDefaultKeys
    AddOptions <- MCAddOptions
    GenOptions <- MCGenOptions
    MaxTries = 2
    ParentInterval = 0
    Cuts <- MCCuts
    MaxFaults = 1
    MaxToken = 2
    MaxTime = 2
SYMMETRY Symmetry
CHECK_DEADLOCK FALSE
INVARIANTS
    DecryptionTells
    FileKeepsUp
    FailedUpdateHarmless
    NoExpiredPassword
