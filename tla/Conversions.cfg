CONSTANTS
    Base = 8
    Word = 64
    MaxCheckpoint = 31
    MaxHops = 3
    MaxFaults = 1
    EmptyPieces = FALSE
    SplitPoints = {1, 14, 17, 34, 35}
SPECIFICATION ConversionsSpec
INVARIANTS UnwrapIsClosest RoundTrip FramesArriveWhole AcceptedHeaderIsTrue
CHECK_DEADLOCK FALSE
