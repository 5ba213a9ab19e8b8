CONSTANTS
    StreamLen = 6
    Capacity = 4
    MaxLen = 4
    EndFitsWindow = FALSE
SPECIFICATION CallerSpec
INVARIANTS ClosedOnlyWhenComplete
