SPECIFICATION ClosureSpec
CONSTANTS
    k1 = k1
    k2 = k2
    k3 = k3
    NoKey = NoKey
    Reqs = {r1}
    Procs = {}
    Inputs <- ClosureInputs
    Keys = {k1, k2}
    MaxFaults = 0
    MaxRetries = 1
    BatchSize = 1
    Closers = {1}
    Wallets = {1, 2}
    Active = {1, 2}
    Amounts = {1, 2}
    Opening <- MCOpening
    Currencies <- MCCurrencies
    CurrencyOf <- MCCurrencyOf
PROPERTIES
    ClosedWithoutFunds
