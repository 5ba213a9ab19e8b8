-------------------------- MODULE NetworkInterface --------------------------
(* src/src/network_interface.cc: turns datagrams into Ethernet frames and    *)
(* back, and finds out the Ethernet address of a next hop with ARP.          *)
(* An interface is a record of the members of class NetworkInterface.  The   *)
(* two maps that hold a time hold an age here: now_time_t less that time.    *)
(* An address, a datagram, an unparsable payload are values without inside.  *)
EXTENDS Naturals, Sequences, Functions

CONSTANTS ETHERNET_BROADCAST,
          NoAddress,            \* the target address of a request: zeros
          MaxArpMapTime,        \* life of a mapping
          MaxArpReqTime         \* time in which a request is not repeated

ASSUME InterfaceAssumption ==
    /\ MaxArpMapTime \in Nat /\ MaxArpReqTime \in Nat \ {0}
    /\ MaxArpReqTime <= MaxArpMapTime

EmptyMap == [ip \in {} |-> 0]

(* map[key] = value in the code.                                             *)
Put(map, key, value) ==
    [k \in DOMAIN map \cup {key} |-> IF k = key THEN value ELSE map[k]]

NewInterface(eth, ip) ==
    [ethernet_address_     |-> eth,
     ip_address_           |-> ip,
     arp_ip2eth_map_       |-> EmptyMap,
     arp_valid_time_map_   |-> EmptyMap,
     arpreq_survival_map_  |-> EmptyMap,
     wait_map              |-> EmptyMap,
     out_que_              |-> <<>>]

Knows(nif, ip)   == ip \in DOMAIN nif.arp_ip2eth_map_
Waiting(nif, ip) == IF ip \in DOMAIN nif.wait_map THEN nif.wait_map[ip]
                    ELSE <<>>
---------------------------------------------------------------------------
Frame(dst, src, type, payload) ==
    [dst |-> dst, src |-> src, type |-> type, payload |-> payload]

ARPMessage(opcode, senderEth, senderIP, targetEth, targetIP) ==
    [opcode |-> opcode,
     sender_ethernet_address |-> senderEth, sender_ip_address |-> senderIP,
     target_ethernet_address |-> targetEth, target_ip_address |-> targetIP]

IsRequest(frame) == frame.type = "ARP" /\ frame.payload.opcode = "REQUEST"
IsReply(frame)   == frame.type = "ARP" /\ frame.payload.opcode = "REPLY"
IsData(frame)    == frame.type = "IPv4"

RequestFor(nif, ip) ==
    Frame(ETHERNET_BROADCAST, nif.ethernet_address_, "ARP",
          ARPMessage("REQUEST", nif.ethernet_address_, nif.ip_address_,
                     NoAddress, ip))

(* Mutant: the fields of the request are copied, not exchanged.              *)
ReplyNotExchanged(nif, msg) ==
    Frame(msg.sender_ethernet_address, nif.ethernet_address_, "ARP",
          ARPMessage("REPLY", nif.ethernet_address_, msg.sender_ip_address,
                     msg.sender_ethernet_address, msg.target_ip_address))
ReplyTo(nif, msg) ==
    Frame(msg.sender_ethernet_address, nif.ethernet_address_, "ARP",
          ARPMessage("REPLY", nif.ethernet_address_, nif.ip_address_,
                     msg.sender_ethernet_address, msg.sender_ip_address))

DatagramFrame(nif, dgram, ip) ==
    Frame(nif.arp_ip2eth_map_[ip], nif.ethernet_address_, "IPv4", dgram)
---------------------------------------------------------------------------
(* Mutant: every datagram that has to wait asks again.                       *)
MustAskAlways(nif, ip) == TRUE
(* Has no request for ip been sent within MaxArpReqTime?                     *)
MustAsk(nif, ip) == ip \notin DOMAIN nif.arpreq_survival_map_

(* An unknown next hop: ask for it, unless that was done a moment ago, and   *)
(* let the datagram wait.                                                    *)
Postpone(nif, dgram, ip) ==
    LET waiting == [nif EXCEPT !.wait_map =
                       Put(@, ip, Append(Waiting(nif, ip), dgram))]
    IN  IF MustAsk(nif, ip)
        THEN [waiting EXCEPT !.out_que_ = Append(@, RequestFor(nif, ip)),
                             !.arpreq_survival_map_ = Put(@, ip, 0)]
        ELSE waiting

send_datagram(nif, dgram, ip) ==
    IF Knows(nif, ip)
    THEN [nif EXCEPT !.out_que_ = Append(@, DatagramFrame(nif, dgram, ip))]
    ELSE Postpone(nif, dgram, ip)
---------------------------------------------------------------------------
(* A mapping that is already there is not touched.                           *)
Learned(nif, eth, ip) ==
    IF Knows(nif, ip) THEN nif
    ELSE [nif EXCEPT !.arp_ip2eth_map_ = Put(@, ip, eth),
                     !.arp_valid_time_map_ = Put(@, ip, 0)]

(* Mutant: the datagrams that waited are forgotten.                          *)
FlushedForgotten(nif, ip) ==
    [nif EXCEPT !.wait_map = Restrict(@, DOMAIN @ \ {ip})]
(* send_datagram() for each datagram that waits for ip, whose address is     *)
(* known by now; then the queue is erased.                                   *)
Flushed(nif, ip) ==
    LET queue == Waiting(nif, ip) IN
    [nif EXCEPT !.out_que_ = @ \o [i \in DOMAIN queue |->
                                      DatagramFrame(nif, queue[i], ip)],
                !.wait_map = Restrict(@, DOMAIN @ \ {ip})]

(* Mutant: a sender that is known is not answered again.                     *)
ReceiveRequestOnce(nif, msg) ==
    LET learned == Learned(nif, msg.sender_ethernet_address,
                           msg.sender_ip_address)
    IN  IF msg.target_ip_address = nif.ip_address_ /\ learned # nif
        THEN [learned EXCEPT !.out_que_ = Append(@, ReplyTo(nif, msg))]
        ELSE learned
(* A request teaches the sender's address and is answered by its target.     *)
ReceiveRequest(nif, msg) ==
    LET learned == Learned(nif, msg.sender_ethernet_address,
                           msg.sender_ip_address)
    IN  IF msg.target_ip_address = nif.ip_address_
        THEN [learned EXCEPT !.out_que_ = Append(@, ReplyTo(nif, msg))]
        ELSE learned

(* A reply teaches both addresses and releases what waited for the sender's. *)
ReceiveReply(nif, msg) ==
    LET sender == Learned(nif, msg.sender_ethernet_address,
                          msg.sender_ip_address)
        target == Learned(sender, msg.target_ethernet_address,
                          msg.target_ip_address)
    IN  Flushed(target, msg.sender_ip_address)

(* Mutant: every frame that is heard is taken for one's own.                 *)
ForEveryone(nif, frame) == TRUE
(* Is the frame addressed to this interface?  Others are dropped.            *)
ForMe(nif, frame) == frame.dst \in {nif.ethernet_address_, ETHERNET_BROADCAST}

(* recv_frame(): a frame for another address, of another type or with a      *)
(* payload that does not parse ("garbage") changes nothing.                  *)
recv_frame(nif, frame) ==
    CASE ForMe(nif, frame) /\ IsRequest(frame) ->
             ReceiveRequest(nif, frame.payload)
      [] ForMe(nif, frame) /\ IsReply(frame) ->
             ReceiveReply(nif, frame.payload)
      [] OTHER -> nif

(* Does recv_frame() return the datagram in the frame?                       *)
PassesUp(nif, frame) == ForMe(nif, frame) /\ IsData(frame)
---------------------------------------------------------------------------
(* The entries that stay when ms more have passed.                           *)
StillYoung(ages, ms, limit) == {ip \in DOMAIN ages : ages[ip] + ms < limit}

Aged(ages, ms, limit) ==
    [ip \in StillYoung(ages, ms, limit) |-> ages[ip] + ms]

(* Mutant: mappings are erased after the time that is meant for requests.    *)
UnexpiredByRequestTime(nif, ms) ==
    Restrict(nif.arp_ip2eth_map_,
             DOMAIN nif.arp_ip2eth_map_
                 \ (DOMAIN nif.arp_valid_time_map_
                     \ StillYoung(nif.arp_valid_time_map_, ms, MaxArpReqTime)))
(* Mappings are erased with their times.                                     *)
Unexpired(nif, ms) ==
    LET ages == nif.arp_valid_time_map_ IN
    Restrict(nif.arp_ip2eth_map_,
             DOMAIN nif.arp_ip2eth_map_
                 \ (DOMAIN ages \ StillYoung(ages, ms, MaxArpMapTime)))

tick(nif, ms) ==
    [nif EXCEPT !.arp_ip2eth_map_ = Unexpired(nif, ms),
                !.arp_valid_time_map_ = Aged(@, ms, MaxArpMapTime),
                !.arpreq_survival_map_ = Aged(@, ms, MaxArpReqTime)]

(* maybe_send() hands out the first frame of the queue.                      *)
CanSend(nif)    == nif.out_que_ # <<>>
NextFrame(nif)  == Head(nif.out_que_)
maybe_send(nif) == [nif EXCEPT !.out_que_ = Tail(@)]
============================================================================
