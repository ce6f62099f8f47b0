CONSTANTS
    NULL = NULL
    i1 = i1
    Names = {n1, n2}
    Accounts = {a1, a2, a3}
    States = {s1, s2}
    OnlyAtStates = {s2}
    DeviceCodes = {d1}
    Issuers = {i1}
    IssuerOf <- MCIssuerOf
    NoAutoload = FALSE
    Confirm = FALSE
    AlwaysAllowId = TRUE
SPECIFICATION Spec
SYMMETRY Symmetry
INVARIANTS
    TypeOK
    NoDangling
    SingleOwner
    LookupsUnique
    EncryptedAtRest
PROPERTIES
    ConfigHandedOver
    PendingUndisturbed
