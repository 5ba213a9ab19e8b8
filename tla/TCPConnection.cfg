CONSTANTS
    Base = 16
    Word = 64
    initial_RTO_ms = 1
    MAX_PAYLOAD_SIZE = 2
    OutboundCapacity = 3
    InboundCapacity = 2
    MaxWindow = 2
    StreamLen = 3
    MaxResend = 1
    MaxReady = 1
    MaxInNetwork = 2
    MaxLost = 1
    MaxDuplicated = 1
    MaxFaults = 1
    ISNs = {14}
    WindowUpdates = TRUE
SPECIFICATION Spec
INVARIANTS EndsAgree SentFitsRoom EndFitsWindow FinishedMeansDelivered
PROPERTIES ImplementsReliableStream
