SPECIFICATION ClosureSpec
CONSTANTS
    k1 = k1
    k2 = k2
    k3 = k3
    NoKey = NoKey
    Reqs = {r1, r2}
    Procs = {p1}
    Inputs <- ClosureInputs
    Keys = {k1, k2}
    MaxFaults = 1
    MaxRetries = 1
    BatchSize = 1
    Closers = {1}
    Wallets = {1, 2}
    Active = {1, 2}
    Amounts = {1, 2}
    Opening <- MCOpening
    Currencies <- MCCurrencies
    CurrencyOf <- MCCurrencyOf
SYMMETRY ReqSymmetry
INVARIANTS
    ClosureTypeOK
    NothingOpenAtClosure
    OnlyLateFunds
PROPERTIES
    ImplementsContract
