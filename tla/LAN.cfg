CONSTANTS
    ETHERNET_BROADCAST = broadcast
    NoAddress = zeros
    MaxArpMapTime = 2
    MaxArpReqTime = 1
    Host = {a, b, c}
    Datagram = {d1, d2}
    MaxOnWire = 1
    MaxLost = 1
    Ticks = {1}
    Talkers = {a, b}
SPECIFICATION FairSpec
INVARIANTS MappingsTrue WaitingIsBeingAnswered
PROPERTIES ImplementsDatagramService DatagramsArrive
