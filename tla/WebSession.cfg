CONSTANTS
    None = None
    MaxOpen = 2
    MaxSessions = 2
    MaxFaults = 1
CHECK_DEADLOCK FALSE
SPECIFICATION Spec
INVARIANTS
    UserMeansSession
PROPERTIES
    IdleSignsOut
