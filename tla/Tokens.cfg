SPECIFICATION Spec
CONSTANTS
    None = None
    Tokens = {t1, t2, t3, t4}
    Workers = {w1, w2}
SYMMETRY TokenSymmetry
INVARIANTS
    TwoSuccessorsNeedRace
    LogoutEndsUnlessRaced
