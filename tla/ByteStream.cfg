CONSTANTS
    Byte = {b1, b2}
    NoByte = zero
    Capacity = 3
    MaxPush = 4
    MaxTotal = 7
    WriterStopsAtClose = TRUE
SPECIFICATION StreamSpec
INVARIANTS StreamIntact
PROPERTIES FinishedIsFinal ImplementsFifo
