CONSTANTS
    Plans = {p1, p2}
    Workers = {w1}
    NoPlan = NoPlan
    Q = 2
    Lookups = 1
    MaxFaults = 1
    RuleSets <- MCRuleSets
    Earlier <- MCEarlier
SPECIFICATION AdmissionSpec
SYMMETRY PlanSymmetry
INVARIANTS ExposureBounded SlotsBounded
PROPERTIES LossesStopEntries
