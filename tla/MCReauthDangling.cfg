CONSTANTS
    NULL = NULL
    i1 = i1
    Names = {n1}
    Accounts = {a1, a2}
    States = {s1, s2}
    OnlyAtStates = {}
    DeviceCodes = {d1}
    Issuers = {i1}
    IssuerOf <- MCIssuerOf
    NoAutoload = FALSE
    Confirm = FALSE
    AlwaysAllowId = TRUE
SPECIFICATION SpecR
SYMMETRY Symmetry
INVARIANT
    NoDangling
