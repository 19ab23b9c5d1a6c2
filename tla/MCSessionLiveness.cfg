CONSTANTS
    Compat = FALSE
    MaxFaults = 1
SPECIFICATION FairSpec
PROPERTIES LockReleased
