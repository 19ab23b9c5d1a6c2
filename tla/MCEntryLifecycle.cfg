CONSTANTS
    Plans = {p1, p2}
    Workers = {w1}
    NoPlan = NoPlan
    Q = 2
    Lookups = 2
    MaxFaults = 1
SPECIFICATION Spec
SYMMETRY PlanSymmetry
INVARIANTS TypeOK PlacedOnce TerminalIsRemote ManagedWithinFills ObservationsAccepted FillsManaged
PROPERTIES CancelRemembered EntriesSettle
