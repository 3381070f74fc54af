SPECIFICATION Spec
CONSTANTS
    k1 = k1
    k2 = k2
    k3 = k3
    NoKey = NoKey
    Reqs = {r1}
    Procs = {p1, p2}
    Inputs <- PipelineInputs
    Keys = {k1, k2}
    MaxFaults = 2
    MaxRetries = 2
    BatchSize = 2
    Wallets = {1, 2}
    Active = {1, 2}
    Amounts = {1, 2, 3}
    Opening <- MCOpening
    Currencies <- MCCurrencies
    CurrencyOf <- MCCurrencyOf
SYMMETRY PipelineSymmetry
INVARIANTS
    NoOverdraft
    BalancesMatchTransactions
    LedgerReconciles
    TerminalMatchesLog
    PendingStillInitiated
    SettledDepositWasPaid
PROPERTIES
    HistoryIsFinal
    LocksShield
