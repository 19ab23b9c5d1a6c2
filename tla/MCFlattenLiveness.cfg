CONSTANTS
    Q = 2
    MaxAttempts = 2
    Lookups = 2
    MaxWorking = 0
    MaxTriggers = 0
    MaxFaults = 0
SPECIFICATION FairSpec
PROPERTIES FlattenEnds CleanupHappens
