CONSTANTS
    f1 = f1
    f2 = f2
    Files = {f1, f2}
    NoFile = NoFile
    NUL = NUL
    Numbers = {3, 4}
    SendRoom = 1
    kReadBufferSize = 2
    CloseMayFail = FALSE
    MaxOwners = 2
    MaxBytes = 2
    BusyFiles = {f1}
    UsersCheckClosed = TRUE
    UsersAwaitData = TRUE
    UsersFillVectors = TRUE
SPECIFICATION Spec
INVARIANTS OpenIffOwned TransfersIntact EofIsEnd
PROPERTIES EndIsSeen
