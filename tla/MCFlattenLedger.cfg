CONSTANTS
    Q = 2
    MaxAttempts = 3
    Lookups = 2
    MaxWorking = 1
    MaxTriggers = 2
    MaxFaults = 1
SPECIFICATION Spec
INVARIANTS OneLiveExit LedgerIsTrue OversellNeedsFault ProtectionOutlivesPosition FlatIsClean
