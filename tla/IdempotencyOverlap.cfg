SPECIFICATION Spec
CONSTANTS
    None = None
    Calls = {c1, c2}
    Keys = {k1}
    Hashes = {h1}
    Requests <- OneTransfer
CHECK_DEADLOCK FALSE
INVARIANT AtMostOnce
