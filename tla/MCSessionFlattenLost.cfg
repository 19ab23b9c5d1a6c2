CONSTANTS
    Compat = FALSE
    MaxFaults = 0
SPECIFICATION FairSpec
PROPERTY FlattenKept
