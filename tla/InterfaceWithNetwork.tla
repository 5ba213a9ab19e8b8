------------------------ MODULE InterfaceWithNetwork ------------------------
(* One NetworkInterface, the stack above it, which sends each datagram once, *)
(* and a network that may deliver any frame at any time: mappings that       *)
(* contradict one another, replies nobody asked for, frames for others,      *)
(* frames that do not parse.                                                 *)
EXTENDS NetworkInterface, FiniteSets, SequencesExt

CONSTANTS Own, OwnIP,       \* the interface's own addresses
          PeerEth, PeerIP,  \* addresses of others that speak to it
          Other,            \* an Ethernet address nobody here speaks for
          Datagram,
          MaxOut            \* bound: frames waiting in out_que_

ASSUME PeerAssumption ==
    /\ Own \notin PeerEth \cup {Other} /\ OwnIP \notin PeerIP
    /\ ETHERNET_BROADCAST \notin PeerEth \cup {Own, Other}
    /\ MaxOut \in Nat

VARIABLES nif,
          hop,          \* the next hop of each datagram sent so far
          released,     \* the datagrams handed out in a frame
          claims,       \* the mappings some ARP message for us has claimed
          sinceRequest  \* time since ip was last asked for, as far as it matters

vars == <<nif, hop, released, claims, sinceRequest>>

AllIP == PeerIP \cup {OwnIP}

Init ==
    /\ nif = NewInterface(Own, OwnIP)
    /\ hop = EmptyMap
    /\ released = {}
    /\ claims = {}
    /\ sinceRequest = [ip \in AllIP |-> MaxArpReqTime]

Room == Len(nif.out_que_) < MaxOut

(* The messages others send: a request names its sender, a reply also the    *)
(* interface it answers.                                                     *)
ARPMessages ==
    {ARPMessage("REQUEST", eth, ip, NoAddress, target) :
        eth \in PeerEth, ip \in PeerIP, target \in AllIP}
    \cup {ARPMessage("REPLY", eth, ip, Own, OwnIP) :
        eth \in PeerEth, ip \in PeerIP}

Frames ==
    {Frame(dst, NoAddress, "ARP", msg) :
        dst \in {Own, Other, ETHERNET_BROADCAST}, msg \in ARPMessages}
    \cup {Frame(Own, NoAddress, "garbage", NoAddress)}

Claimed(frame) ==
    IF frame.type = "ARP" /\ frame.dst # Other
    THEN {<<frame.payload.sender_ip_address,
            frame.payload.sender_ethernet_address>>}
         \cup IF IsReply(frame) THEN {<<frame.payload.target_ip_address,
                                        frame.payload.target_ethernet_address>>}
              ELSE {}
    ELSE {}

(* A request for ip has just joined the queue.                               *)
Asks(ip) ==
    /\ Len(nif'.out_que_) > Len(nif.out_que_)
    /\ Last(nif'.out_que_) = RequestFor(nif, ip)

StackSends(dgram, ip) ==
    /\ Room
    /\ dgram \notin DOMAIN hop
    /\ nif' = send_datagram(nif, dgram, ip)
    /\ hop' = Put(hop, dgram, ip)
    /\ sinceRequest' = IF Asks(ip) THEN [sinceRequest EXCEPT ![ip] = 0]
                       ELSE sinceRequest
    /\ UNCHANGED <<released, claims>>

FrameArrives(frame) ==
    /\ Room
    /\ nif' = recv_frame(nif, frame)
    /\ claims' = claims \cup Claimed(frame)
    /\ UNCHANGED <<hop, released, sinceRequest>>

TimePasses(ms) ==
    /\ nif' = tick(nif, ms)
    /\ sinceRequest' = [ip \in AllIP |->
          IF sinceRequest[ip] + ms < MaxArpReqTime THEN sinceRequest[ip] + ms
          ELSE MaxArpReqTime]
    /\ UNCHANGED <<hop, released, claims>>

FrameLeaves ==
    /\ CanSend(nif)
    /\ nif' = maybe_send(nif)
    /\ released' = IF IsData(NextFrame(nif))
                   THEN released \cup {NextFrame(nif).payload} ELSE released
    /\ UNCHANGED <<hop, claims, sinceRequest>>

Next ==
    \/ \E dgram \in Datagram, ip \in AllIP : StackSends(dgram, ip)
    \/ \E frame \in Frames : FrameArrives(frame)
    \/ \E ms \in 1..2 : TimePasses(ms)
    \/ FrameLeaves

Spec == Init /\ [][Next]_vars

(* Datagrams and the addresses of others are interchangeable.                *)
Symmetry == Permutations(Datagram) \cup Permutations(PeerEth)
            \cup Permutations(PeerIP)
---------------------------------------------------------------------------
Places(seq, Test(_)) == Cardinality({i \in DOMAIN seq : Test(seq[i])})

(* Every datagram the stack sent is in exactly one place, the queue of its   *)
(* own next hop, the queue of frames, or released: releasing those that      *)
(* waited neither loses nor doubles one, whatever replies come when.         *)
DatagramsAccounted ==
    \A dgram \in DOMAIN hop :
        Places(nif.out_que_, LAMBDA frame : IsData(frame)
                                            /\ frame.payload = dgram)
        + Places(Waiting(nif, hop[dgram]), LAMBDA d : d = dgram)
        + (IF dgram \in released THEN 1 ELSE 0) = 1

(* A datagram goes to an Ethernet address that has claimed its next hop in   *)
(* an ARP message addressed to this interface, never to another's.           *)
FramesFollowClaims ==
    \A i \in DOMAIN nif.out_que_ :
        LET frame == nif.out_que_[i] IN
        IsData(frame) => <<hop[frame.payload], frame.dst>> \in claims

(* No mapping is older than the last request for it: when a mapping expires  *)
(* the next datagram asks again at once.  And none outlives its age: tick()  *)
(* erases from the table of mappings by the keys of the table of ages.       *)
ExpiredMeansAskable ==
    /\ DOMAIN nif.arp_ip2eth_map_ = DOMAIN nif.arp_valid_time_map_
    /\ \A ip \in DOMAIN nif.arp_valid_time_map_ :
          ip \in DOMAIN nif.arpreq_survival_map_ =>
              nif.arp_valid_time_map_[ip] <= nif.arpreq_survival_map_[ip]

(* However datagrams, replies and expiries interleave, the same address is   *)
(* asked for at most once in MaxArpReqTime.                                  *)
RequestsSpaced ==
    [][\A ip \in AllIP : Asks(ip) => sinceRequest[ip] >= MaxArpReqTime]_vars
============================================================================
