CHECK_DEADLOCK FALSE
CONSTANTS
    a1 = a1
    x1 = x1
    p1 = p1
    p2 = p2
    t1 = t1
    t2 = t2
    Accounts = {a1}
    Entries = {1, 2, 3}
    AccountOf <- MCAccountOf
    Tabs = {x1}
    Pollers = {p1, p2}
    Tasks = {t1, t2}
    PageSize = 1
    MaxFaults = 2
    None = None
SPECIFICATION Spec
INVARIANTS
    OnePollLoop
    ToldTwiceNeedsOverlap
    NothingPassedOver
PROPERTIES
    OwedIsAnnounced

