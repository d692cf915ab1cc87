SPECIFICATION Spec
CONSTANTS
    None = None
    Tokens = {t1, t2}
    Workers = {w1}
INVARIANT ReuseRevokesFamily
