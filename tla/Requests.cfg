SPECIFICATION Spec
CONSTANTS
    k1 = k1
    k2 = k2
    k3 = k3
    NoKey = NoKey
    Reqs = {r1, r2, r3}
    Procs = {}
    Inputs <- MixedInputs
    Keys = {k1, k2, k3}
    MaxFaults = 0
    MaxRetries = 2
    BatchSize = 2
    Wallets = {1, 2, 3}
    Active = {1, 2}
    Amounts = {1, 2}
    Opening <- MCOpening
    Currencies <- MCCurrencies
    CurrencyOf <- MCCurrencyOf
SYMMETRY ReqSymmetry
INVARIANTS
    TypeOK
    NoOverdraft
    CreatedOnce
    BalancesMatchTransactions
PROPERTIES
    LedgerIsAppendOnly
