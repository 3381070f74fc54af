SPECIFICATION FairPoolSpec
CONSTANTS
    k1 = k1
    k2 = k2
    k3 = k3
    NoKey = NoKey
    Reqs = {r1, r2}
    Procs = {}
    Inputs <- CrossingInputs
    Keys = {k1, k2, k3}
    MaxFaults = 0
    MaxRetries = 2
    BatchSize = 2
    PoolSize = 2
    Wallets = {1, 2}
    Active = {1, 2}
    Amounts = {1, 2}
    Opening <- MCOpening
    Currencies <- MCCurrencies
    CurrencyOf <- MCCurrencyOf
INVARIANTS
    PoolTypeOK
PROPERTIES
    EveryCallAnswered
    WaitersServed
