-------------------------------- MODULE LAN --------------------------------
(* Hosts with a NetworkInterface each on one Ethernet segment: every frame a *)
(* host transmits is heard by all others, unless it is lost on the way to    *)
(* one of them, and not necessarily in order.  The owner of an interface     *)
(* drains maybe_send(), hands every frame it hears to recv_frame() and calls *)
(* tick() (src/tests/network_interface_test_harness.hh).  Each host measures *)
(* time for itself.                                                          *)
EXTENDS NetworkInterface, Bags, SequencesExt

CONSTANTS Host, Datagram,
          MaxOnWire,    \* bound: copies of frames on the segment
          MaxLost,      \* bound: copies the segment loses
          Talkers,      \* bound: hosts whose stack sends and whose time passes;
                        \* the others listen and answer
          Ticks         \* bound: by how much tick() is called

ASSUME LANAssumption ==
    /\ MaxOnWire \in Nat /\ MaxLost \in Nat
    /\ Talkers \subseteq Host /\ Ticks \subseteq Nat

VARIABLES nif,          \* the interface of each host
          wire,         \* bag of [to, frame] on the segment
          sent,         \* the host each datagram was sent to
          received,     \* the datagrams each host's stack was given
          lost          \* copies lost so far

vars == <<nif, wire, sent, received, lost>>

EthOf(h) == <<"eth", h>>
IPOf(h)  == <<"ip", h>>

(* No host has the address that stands for all of them.                      *)
ASSUME AddressAssumption == \A h \in Host : EthOf(h) # ETHERNET_BROADCAST

Init ==
    /\ nif = [h \in Host |-> NewInterface(EthOf(h), IPOf(h))]
    /\ wire = EmptyBag
    /\ sent = EmptyMap
    /\ received = [h \in Host |-> <<>>]
    /\ lost = 0

One(copy) == SetToBag({copy})
---------------------------------------------------------------------------
StackSends(h, dgram, dst) ==
    /\ h # dst /\ dgram \notin DOMAIN sent
    /\ nif' = [nif EXCEPT ![h] = send_datagram(@, dgram, IPOf(dst))]
    /\ sent' = Put(sent, dgram, dst)
    /\ UNCHANGED <<wire, received, lost>>

HostTransmits(h) ==
    /\ CanSend(nif[h])
    /\ BagCardinality(wire) < MaxOnWire
    /\ wire' = wire (+) SetToBag({[to |-> g, frame |-> NextFrame(nif[h])] :
                                     g \in Host \ {h}})
    /\ nif' = [nif EXCEPT ![h] = maybe_send(@)]
    /\ UNCHANGED <<sent, received, lost>>

HostHears(h) ==
    \E copy \in BagToSet(wire) :
        /\ copy.to = h
        /\ wire' = wire (-) One(copy)
        /\ nif' = [nif EXCEPT ![h] = recv_frame(@, copy.frame)]
        /\ received' = IF PassesUp(nif[h], copy.frame)
                       THEN [received EXCEPT
                                ![h] = Append(@, copy.frame.payload)]
                       ELSE received
        /\ UNCHANGED <<sent, lost>>

TimePasses(h, ms) ==
    /\ nif' = [nif EXCEPT ![h] = tick(@, ms)]
    /\ UNCHANGED <<wire, sent, received, lost>>

WireLoses ==
    \E copy \in BagToSet(wire) :
        /\ lost < MaxLost
        /\ lost' = lost + 1
        /\ wire' = wire (-) One(copy)
        /\ UNCHANGED <<nif, sent, received>>

Next ==
    \/ \E h \in Talkers, dst \in Host, dgram \in Datagram :
          StackSends(h, dgram, dst)
    \/ \E h \in Host : HostTransmits(h) \/ HostHears(h)
    \/ \E h \in Talkers, ms \in Ticks : TimePasses(h, ms)
    \/ WireLoses

Spec == Init /\ [][Next]_vars

(* Owners keep draining their interfaces and hand over what they hear.       *)
(* Nothing is assumed of tick(): time alone must not be needed.              *)
Fairness == \A h \in Host : WF_vars(HostTransmits(h)) /\ WF_vars(HostHears(h))

FairSpec == Spec /\ Fairness
---------------------------------------------------------------------------
(* Interfaces, wire and datagrams are of their types; the wire carries no    *)
(* garbage.                                                                  *)
TypeOK ==
    /\ DOMAIN sent \subseteq Datagram
    /\ \A h \in Host :
          /\ DOMAIN nif[h].arp_ip2eth_map_ = DOMAIN nif[h].arp_valid_time_map_
          /\ DOMAIN nif[h].wait_map \subseteq {IPOf(g) : g \in Host}
          /\ \A ip \in DOMAIN nif[h].arp_valid_time_map_ :
                nif[h].arp_valid_time_map_[ip] \in 0 .. MaxArpMapTime - 1
    /\ \A copy \in BagToSet(wire) : copy.to \in Host
                                    /\ copy.frame.type \in {"ARP", "IPv4"}

(* Every mapping any host holds is true: hosts teach one another their own   *)
(* addresses, and what is learned from either side of a reply was once the   *)
(* sender's own word.                                                        *)
MappingsTrue ==
    \A h, g \in Host :
        Knows(nif[h], IPOf(g)) => nif[h].arp_ip2eth_map_[IPOf(g)] = EthOf(g)

(* Is an answer about g on its way to h, or a question that will bring one?  *)
Underway(h, g) ==
    LET Question(frame) == frame = RequestFor(nif[h], IPOf(g))
        Answer(frame) == IsReply(frame) /\ frame.dst = EthOf(h)
                         /\ frame.payload.sender_ip_address = IPOf(g)
    IN  \/ \E i \in DOMAIN nif[h].out_que_ : Question(nif[h].out_que_[i])
        \/ \E i \in DOMAIN nif[g].out_que_ : Answer(nif[g].out_que_[i])
        \/ \E copy \in BagToSet(wire) :
              \/ copy.to = g /\ Question(copy.frame)
              \/ copy.to = h /\ Answer(copy.frame)

(* Unless a frame was lost, a datagram waits only while the answer that will *)
(* release it is under way: also when the mapping was learned from another   *)
(* message, has expired since, or a request was held back because there had  *)
(* been one a moment ago.  This is why a mapping must not expire before the  *)
(* request that led to it.                                                   *)
WaitingIsBeingAnswered ==
    lost = 0 =>
        \A h, g \in Host :
            Waiting(nif[h], IPOf(g)) # <<>> => Underway(h, g)

(* The interfaces implement the datagram service.                            *)
Service == INSTANCE DatagramService

ImplementsDatagramService == Service!Spec

(* As long as no frame is lost, every datagram arrives, whatever expires on  *)
(* the way and although tick() never repeats a request.                      *)
DatagramsArrive ==
    \A dgram \in Datagram, h \in Host :
        dgram \in DOMAIN sent /\ sent[dgram] = h ~>
            lost > 0 \/ Contains(received[h], dgram)
============================================================================
