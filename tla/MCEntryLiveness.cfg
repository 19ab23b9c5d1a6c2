CONSTANTS
    Plans = {p1}
    Workers = {w1}
    NoPlan = NoPlan
    Q = 2
    Lookups = 2
    MaxFaults = 1
SPECIFICATION FairSpec
PROPERTIES EntriesResolved FilledBecomesManaged LossNoticedWhenFilled
