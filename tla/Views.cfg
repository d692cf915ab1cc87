CONSTANTS
    a1 = a1
    a2 = a2
    Accounts = {a1, a2}
    Acc = a1
    Entries = {1, 2, 3}
    AccountOf <- MCAccountOf
    Amount <- MCAmount
    DayOf <- MCDayOf
    Today = 3
    Window = 2
    DashboardPage = 2
    StatementPage = 1
    Limit = 2
    Pending = Pending
    Degraded = Degraded
SPECIFICATION Spec
INVARIANTS
    DashboardFollowsNotifications
    StatementFollowsNotifications
    StatementHasNoSeams
    RecentIsNewest
    SpendIsTotal
