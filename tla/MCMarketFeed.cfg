CONSTANTS
    MaxMinute = 6
    BootLimit = 2
    Capacity = 3
    QueueCap = 1
    KeyCap = 3
    MaxFailures = 1
    MaxOdd = 1
    MaxLate = 2
SPECIFICATION FairSpec
INVARIANTS EvaluatedOnce
PROPERTIES SnapshotSound GapStopsSession
