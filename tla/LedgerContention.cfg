SPECIFICATION Spec
CONSTANTS
    a1 = a1
    a2 = a2
    a3 = a3
    usd = usd
    eur = eur
    None = None
    Accounts <- TwoAccounts
    Currencies <- OneCurrency
    CurrencyOf <- AllUsd
    Requests = {r1, r2, r3}
    Commands <- ContendedCommands
    MaxLong = 7
    StepUpThreshold = 3
    Opened <- FundedRows
    Opening <- FundedUsd
    MaxAttempts = 2
SYMMETRY RequestSymmetry
INVARIANTS
    BalanceMatchesEntries
    NoOverdraft
    ZeroSumByCurrency
    FailuresNeedCommits
PROPERTIES
    FreezeIsFinal
