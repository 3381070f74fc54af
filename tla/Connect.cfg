SPECIFICATION Spec
CONSTANTS
    NoUser = NoUser
    NoAccount = NoAccount
    Users = {u1, u2}
    Accounts = {a1, a2, a3}
    Calls = {c1, c2, c3}
    MaxCalls = 5
SYMMETRY ConnectSymmetry
INVARIANTS
    TypeOK
    UrlOnlyForPersisted
    ClearedStaysCleared
PROPERTIES
    LinkLostToOverlap
CHECK_DEADLOCK FALSE
