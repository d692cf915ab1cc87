SPECIFICATION FairSpec
CONSTANTS
    None = None
    Transfers = {t1, t2, t3}
    Large = {t3}
    Runners = {w1, w2}
    MaxAttempts = 3
    MaxCrashes = 1
INVARIANTS
    StatusTellsTheTruth
    ExtraPostingsNeedCrashes
PROPERTIES
    SettledIsFinal
    DueIsSettled
