CONSTANTS
    Base = 8
    Word = 64
    InboundCapacity = 3
    MaxWindow = 2
    StreamLen = 7
    MaxLen = 3
    PeerISNs = {0, 5, 7}
    SynCarriesData = FALSE
SPECIFICATION Spec
INVARIANTS InboundIntact AckIsCumulative
PROPERTIES WindowNeverShrinks
