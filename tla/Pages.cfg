CONSTANTS
    Sources = {s1}
    Recipients = {r1}
    Amounts = {small, large}
    Large = {large}
    Payees = {p1}
    None = None
    MaxCalls = 3
    MaxVisits = 2
    MaxLost = 1
CHECK_DEADLOCK FALSE
SPECIFICATION Spec
INVARIANTS
    OneTransferPerVisit
    SentWasReviewed
    LockedOutNeedsEnrolment
PROPERTY
    AnswerFitsScreen
