CONSTANTS
    s1 = s1
    s2 = s2
    r1 = r1
    r2 = r2
    Sessions = {s1, s2}
    Requests = {r1, r2}
    MaxToken = 2
    None = None
SPECIFICATION Spec
SYMMETRY Renamings
INVARIANTS
    ReuseNeedsLoss
    OneRefreshPerSession
    AppliedOnce
    LogoutIsFinal
    CsrfFollowsSession
    WaitersAreResumed
