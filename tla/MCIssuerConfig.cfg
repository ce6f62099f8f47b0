SPECIFICATION Spec
CONSTANTS
    CJSON_NESTING_LIMIT = 6
    MIN_PORT = 1024
    MAX_PORT = 49151
    NULL = NULL
    a1 = a1
    a2 = a2
    Agents = {a1, a2}
    Names <- MCNames
    Issuers <- MCIssuers
    Contact <- MCContact
    Confs <- MCConfs
    Lows <- MCLows
SYMMETRY Symmetry
INVARIANTS
    AccountsReported
    PrecedenceKept
    RestartReadsTheSame
