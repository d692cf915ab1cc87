SPECIFICATION FairSpec
CONSTANTS
    a1 = a1
    a2 = a2
    a3 = a3
    usd = usd
    eur = eur
    None = None
    Accounts <- ThreeAccounts
    Currencies <- TwoCurrencies
    CurrencyOf <- ThirdInEur
    Requests = {r1, r2}
    Commands <- EdgeCommands
    MaxLong = 3
    StepUpThreshold = 3
    Opened <- PartlyOpenedRows
    Opening <- PartlyFunded
    MaxAttempts = 2
INVARIANTS
    TypeOK
PROPERTIES
    AtomicSpec
    EveryRequestAnswered
