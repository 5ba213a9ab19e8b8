CONSTANTS
    StreamLen = 10
    Capacity = 7
    MaxLen = 5
    EndFitsWindow = TRUE
SPECIFICATION CallerSpec
INVARIANTS BlocksWellPlaced PendingIsStored
PROPERTIES ImplementsReassembly
