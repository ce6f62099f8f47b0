SPECIFICATION Spec
CONSTANTS
    NULL = NULL
    Root = "/"
    Names = {"a", "b", "f", "l"}
    FileSystems <- Trees
    Questions <- Asked
    Spare = {"X", "Y"}
    MAX_SYMLINK_DEPTH = 3
    RETRY_MAX = 2
    PATH_MAX = 3
    SocketGroup = NULL
    MaxChanges = 2
    IdMod = 8
    ULongMod = 16
    Users <- NoNames
    Groups <- NoNames
CHECK_DEADLOCK FALSE
INVARIANTS
    AlwaysTheSame
    NotMadeByOthers
PROPERTIES
    WalkEnds
