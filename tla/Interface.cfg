CONSTANTS
    ETHERNET_BROADCAST = broadcast
    NoAddress = zeros
    MaxArpMapTime = 3
    MaxArpReqTime = 2
    Own = own
    OwnIP = ipOwn
    PeerEth = {e1, e2}
    PeerIP = {ip1, ip2}
    Other = other
    Datagram = {d1, d2}
    MaxOut = 2
SPECIFICATION Spec
SYMMETRY Symmetry
INVARIANTS DatagramsAccounted FramesFollowClaims ExpiredMeansAskable
PROPERTIES RequestsSpaced
