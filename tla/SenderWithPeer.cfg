CONSTANTS
    Base = 8
    Word = 64
    initial_RTO_ms = 2
    MAX_PAYLOAD_SIZE = 2
    OutboundCapacity = 3
    MaxResend = 2
    MaxReady = 2
    StreamLen = 4
    MaxWindow = 3
    MaxTick = 2
    ISNs = {6}
SPECIFICATION Spec
INVARIANTS
    TimerRunsIffOutstanding
    OutstandingIsContiguous
    SegmentsCarryTheirBytes
    StreamAccounted
    WithinAdvertisedWindow
    StatusMatchesOutstanding
PROPERTIES
    NeverBackwards
    DeadlineNotPostponed
