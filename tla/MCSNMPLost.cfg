CONSTANTS
    Callers = {c1, c2}
    MaxSets = 2
SPECIFICATION FairSpec
PROPERTY
    RestartSignalNotLost
CHECK_DEADLOCK FALSE
