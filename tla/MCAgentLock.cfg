SPECIFICATION Spec
CONSTANTS
    NULL = NULL
    pw1 = pw1
    pw2 = pw2
    Passwords = {pw1, pw2}
    Shapes <- AllShapes
    MaxAccounts = 2
    MaxLayers = 2
INVARIANTS
    SealedWhenLocked
    RightPasswordUnlocks
PROPERTIES
    LockedIsFrozen
