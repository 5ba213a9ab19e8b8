CONSTANTS
    Base = 16
    Word = 64
    initial_RTO_ms = 1
    MAX_PAYLOAD_SIZE = 2
    OutboundCapacity = 2
    InboundCapacity = 1
    MaxWindow = 2
    StreamLen = 2
    MaxResend = 2
    MaxReady = 2
    MaxInNetwork = 1
    MaxLost = 1
    MaxDuplicated = 0
    MaxFaults = 1
    ISNs = {14}
    WindowUpdates = FALSE
SPECIFICATION FairSpec
PROPERTIES AllBytesArrive CloseCompletes
CHECK_DEADLOCK FALSE
