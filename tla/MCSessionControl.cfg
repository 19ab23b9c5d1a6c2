CONSTANTS
    Compat = TRUE
    MaxFaults = 1
SPECIFICATION Spec
INVARIANTS KillBlocks RowsAreMirrorable CoreFollowsControl NoEntryAfterReturn PauseReachesEntries
