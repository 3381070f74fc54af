SPECIFICATION FairSpec
CONSTANTS
    k1 = k1
    k2 = k2
    k3 = k3
    NoKey = NoKey
    Reqs = {r1}
    Procs = {p1, p2}
    Inputs <- DrainInputs
    Keys = {k1, k2}
    MaxFaults = 1
    MaxRetries = 2
    BatchSize = 1
    Wallets = {1, 2}
    Active = {1, 2}
    Amounts = {1, 2}
    Opening <- MCOpening
    Currencies <- MCCurrencies
    CurrencyOf <- MCCurrencyOf
PROPERTIES
    EventsDrained
