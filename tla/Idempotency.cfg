SPECIFICATION Spec
CONSTANTS
    None = None
    Calls = {c1, c2, c3}
    Keys = {k1, k2}
    Hashes = {h1, h2}
    Requests <- AllRequests
SYMMETRY CallSymmetry
CHECK_DEADLOCK FALSE
INVARIANTS
    OneSuccessPerKey
    AnswerMeansDone
    EffectIsRecorded
    SecondEffectNeedsFault
    PayeeAddedOnce
