----------------------------- MODULE LANProofs -----------------------------
(* For every set of hosts, every life of mappings and requests and whatever  *)
(* is lost or overtaken: interfaces are of their type and every mapping is   *)
(* true; the interfaces implement the datagram service; and as long as       *)
(* nothing is lost, what waits is being answered.                            *)
EXTENDS LAN, DataFacts

Addresses == {EthOf(h) : h \in Host}
IPs       == {IPOf(h) : h \in Host}

(* Messages in which both sides are presented with their own addresses.      *)
HonestRequests ==
    {ARPMessage("REQUEST", EthOf(h), IPOf(h), NoAddress, IPOf(g)) :
        h \in Host, g \in Host}
HonestReplies ==
    {ARPMessage("REPLY", EthOf(h), IPOf(h), EthOf(g), IPOf(g)) :
        h \in Host, g \in Host}

HonestFrames ==
    {Frame(dst, src, "ARP", msg) :
        dst \in Addresses \cup {ETHERNET_BROADCAST}, src \in Addresses,
        msg \in HonestRequests \cup HonestReplies}
    \cup {Frame(dst, src, "IPv4", dgram) :
        dst \in Addresses, src \in Addresses, dgram \in Datagram}

TrueTables ==
    {map \in Tables(IPs, Addresses) :
        \A g \in Host : IPOf(g) \in DOMAIN map => map[IPOf(g)] = EthOf(g)}

Interfaces(h) ==
    [ethernet_address_    : {EthOf(h)},
     ip_address_          : {IPOf(h)},
     arp_ip2eth_map_      : TrueTables,
     arp_valid_time_map_  : Tables(IPs, 0 .. MaxArpMapTime - 1),
     arpreq_survival_map_ : Tables(IPs, 0 .. MaxArpReqTime - 1),
     wait_map             : Tables(IPs, Seq(Datagram)),
     out_que_             : Seq(HonestFrames)]

SameKeys(n) == DOMAIN n.arp_ip2eth_map_ = DOMAIN n.arp_valid_time_map_

InterfacesInv == /\ DOMAIN nif = Host
                 /\ \A h \in Host : nif[h] \in Interfaces(h)
                 /\ \A h \in Host : SameKeys(nif[h])

WireInv == \A copy \in DOMAIN wire : copy.to \in Host
                                     /\ copy.frame \in HonestFrames

SentInv == DOMAIN sent \subseteq Datagram

(* TypeOK and MappingsTrue say nothing of the frames under way, which teach  *)
(* mappings later: that all of them are honest has to be carried along.      *)
IInv == InterfacesInv /\ WireInv /\ SentInv
---------------------------------------------------------------------------
LEMMA AddressesDiffer ==
    ASSUME NEW g \in Host, NEW h \in Host, IPOf(g) = IPOf(h) PROVE g = h
BY DEF IPOf

LEMMA PutFacts ==
    ASSUME NEW K, NEW V, NEW map \in Tables(K, V), NEW key \in K,
           NEW value \in V
    PROVE  /\ Put(map, key, value) \in Tables(K, V)
           /\ DOMAIN Put(map, key, value) = DOMAIN map \cup {key}
           /\ Put(map, key, value)[key] = value
           /\ \A k \in DOMAIN map \ {key} : Put(map, key, value)[k] = map[k]
<1>1. DOMAIN map \cup {key} \in SUBSET K
  BY TableFacts
<1>2. Put(map, key, value) \in [DOMAIN map \cup {key} -> V]
  BY TableFacts DEF Put
<1>3. Put(map, key, value) \in Tables(K, V)
  BY <1>1, <1>2, MakeTable
<1> QED BY <1>3 DEF Put

LEMMA PutDomain ==
    ASSUME NEW map, NEW key, NEW value
    PROVE  DOMAIN Put(map, key, value) = DOMAIN map \cup {key}
BY DEF Put

LEMMA EmptyTable ==
    ASSUME NEW K, NEW V PROVE EmptyMap \in Tables(K, V) /\ DOMAIN EmptyMap = {}
<1>1. EmptyMap \in [{} -> V] /\ DOMAIN EmptyMap = {}
  BY DEF EmptyMap
<1> QED BY <1>1, MakeTable

LEMMA LearnTrue ==
    ASSUME NEW map \in TrueTables, NEW g \in Host
    PROVE  Put(map, IPOf(g), EthOf(g)) \in TrueTables
<1>1. map \in Tables(IPs, Addresses) /\ IPOf(g) \in IPs /\ EthOf(g) \in Addresses
  BY DEF TrueTables, IPs, Addresses
<1>2. Put(map, IPOf(g), EthOf(g)) \in Tables(IPs, Addresses)
  BY <1>1, PutFacts
<1>3. ASSUME NEW k \in Host, IPOf(k) \in DOMAIN Put(map, IPOf(g), EthOf(g))
      PROVE  Put(map, IPOf(g), EthOf(g))[IPOf(k)] = EthOf(k)
  <2>0. /\ DOMAIN Put(map, IPOf(g), EthOf(g)) = DOMAIN map \cup {IPOf(g)}
        /\ Put(map, IPOf(g), EthOf(g))[IPOf(g)] = EthOf(g)
        /\ \A ip \in DOMAIN map \ {IPOf(g)} :
              Put(map, IPOf(g), EthOf(g))[ip] = map[ip]
    BY <1>1, PutFacts
  <2>1. CASE k = g
    BY <2>1, <2>0
  <2>2. CASE k # g
    <3>1. IPOf(k) # IPOf(g)
      BY <2>2, AddressesDiffer
    <3>2. IPOf(k) \in DOMAIN map
      BY <3>1, <1>3, <2>0
    <3>3. Put(map, IPOf(g), EthOf(g))[IPOf(k)] = map[IPOf(k)]
      BY <3>1, <3>2, <2>0
    <3> QED BY <3>2, <3>3 DEF TrueTables
  <2> QED BY <2>1, <2>2
<1> QED BY <1>2, <1>3 DEF TrueTables

LEMMA ForgetTrue ==
    ASSUME NEW map \in TrueTables, NEW D \in SUBSET (DOMAIN map)
    PROVE  Restrict(map, D) \in TrueTables
<1>1. map \in Tables(IPs, Addresses)
  BY DEF TrueTables
<1>2. /\ Restrict(map, D) \in Tables(IPs, Addresses)
      /\ DOMAIN Restrict(map, D) = D
      /\ \A k \in D : Restrict(map, D)[k] = map[k]
  BY <1>1, RestrictFacts
<1> QED BY <1>2 DEF TrueTables
---------------------------------------------------------------------------
(* Each handler keeps an interface in order and queues honest frames.        *)
LEMMA Fields ==
    ASSUME NEW h \in Host, NEW n \in Interfaces(h)
    PROVE  /\ n.ethernet_address_ = EthOf(h) /\ n.ip_address_ = IPOf(h)
           /\ n.arp_ip2eth_map_ \in TrueTables
           /\ n.arp_ip2eth_map_ \in Tables(IPs, Addresses)
           /\ n.arp_valid_time_map_ \in Tables(IPs, 0 .. MaxArpMapTime - 1)
           /\ n.arpreq_survival_map_ \in Tables(IPs, 0 .. MaxArpReqTime - 1)
           /\ n.wait_map \in Tables(IPs, Seq(Datagram))
           /\ n.out_que_ \in Seq(HonestFrames)
BY DEF Interfaces, TrueTables

LEMMA WithOut ==
    ASSUME NEW h \in Host, NEW n \in Interfaces(h),
           NEW queue \in Seq(HonestFrames)
    PROVE  /\ [n EXCEPT !.out_que_ = queue] \in Interfaces(h)
           /\ SameKeys(n) => SameKeys([n EXCEPT !.out_que_ = queue])
BY DEF Interfaces, SameKeys

LEMMA QueuedFrame ==
    ASSUME NEW h \in Host, NEW n \in Interfaces(h), NEW frame \in HonestFrames
    PROVE  /\ [n EXCEPT !.out_que_ = Append(@, frame)] \in Interfaces(h)
           /\ SameKeys(n) =>
                 SameKeys([n EXCEPT !.out_que_ = Append(@, frame)])
<1>1. Append(n.out_que_, frame) \in Seq(HonestFrames)
  BY Fields
<1> QED BY <1>1, WithOut

LEMMA Request ==
    ASSUME NEW h \in Host, NEW g \in Host, NEW n \in Interfaces(h)
    PROVE  RequestFor(n, IPOf(g)) \in HonestFrames
<1>1. ARPMessage("REQUEST", n.ethernet_address_, n.ip_address_, NoAddress,
                 IPOf(g)) \in HonestRequests
  BY Fields DEF HonestRequests
<1>2. n.ethernet_address_ \in Addresses
  BY Fields DEF Addresses
<1> QED BY <1>1, <1>2 DEF RequestFor, HonestFrames

LEMMA Data ==
    ASSUME NEW h \in Host, NEW ip, NEW n \in Interfaces(h), Knows(n, ip),
           NEW dgram \in Datagram
    PROVE  DatagramFrame(n, dgram, ip) \in HonestFrames
<1>1. n.arp_ip2eth_map_[ip] \in Addresses
  BY Fields, TableFacts DEF Knows
<1>2. n.ethernet_address_ \in Addresses
  BY Fields DEF Addresses
<1> QED BY <1>1, <1>2 DEF DatagramFrame, HonestFrames

LEMMA Queue ==
    ASSUME NEW h \in Host, NEW ip, NEW n \in Interfaces(h)
    PROVE  Waiting(n, ip) \in Seq(Datagram)
BY Fields, TableFacts DEF Waiting

LEMMA PostponeKeeps ==
    ASSUME NEW h \in Host, NEW g \in Host, NEW n \in Interfaces(h),
           SameKeys(n), NEW dgram \in Datagram
    PROVE  /\ Postpone(n, dgram, IPOf(g)) \in Interfaces(h)
           /\ SameKeys(Postpone(n, dgram, IPOf(g)))
<1> DEFINE queue   == Append(Waiting(n, IPOf(g)), dgram)
           waiting == [n EXCEPT !.wait_map = Put(@, IPOf(g), queue)]
           out     == Append(waiting.out_que_, RequestFor(n, IPOf(g)))
           reqs    == Put(waiting.arpreq_survival_map_, IPOf(g), 0)
<1>1. IPOf(g) \in IPs /\ queue \in Seq(Datagram)
  BY Queue DEF IPs
<1>2. Put(n.wait_map, IPOf(g), queue) \in Tables(IPs, Seq(Datagram))
  BY <1>1, Fields, PutFacts
<1>3. waiting \in Interfaces(h) /\ SameKeys(waiting)
  BY <1>2 DEF Interfaces, SameKeys
<1>4. CASE ~MustAsk(n, IPOf(g))
  BY <1>3, <1>4 DEF Postpone
<1>5. CASE MustAsk(n, IPOf(g))
  <2>1. out \in Seq(HonestFrames)
    BY <1>3, Fields, Request
  <2>2. 0 \in 0 .. MaxArpReqTime - 1
    BY InterfaceAssumption
  <2>3. reqs \in Tables(IPs, 0 .. MaxArpReqTime - 1)
    <3>1. waiting.arpreq_survival_map_ \in Tables(IPs, 0 .. MaxArpReqTime - 1)
      BY <1>3, Fields
    <3> HIDE DEF waiting
    <3> QED BY <1>1, <2>2, <3>1, PutFacts
  <2> HIDE DEF waiting, out, reqs
  <2>4. /\ [waiting EXCEPT !.out_que_ = out, !.arpreq_survival_map_ = reqs]
              \in Interfaces(h)
        /\ SameKeys([waiting EXCEPT !.out_que_ = out,
                                    !.arpreq_survival_map_ = reqs])
    BY <1>3, <2>1, <2>3 DEF Interfaces, SameKeys
  <2> QED BY <2>4, <1>5 DEF Postpone, waiting, out, reqs
<1> QED BY <1>4, <1>5

LEMMA SendKeeps ==
    ASSUME NEW h \in Host, NEW g \in Host, NEW n \in Interfaces(h),
           SameKeys(n), NEW dgram \in Datagram
    PROVE  /\ send_datagram(n, dgram, IPOf(g)) \in Interfaces(h)
           /\ SameKeys(send_datagram(n, dgram, IPOf(g)))
<1>1. CASE Knows(n, IPOf(g))
  BY <1>1, Data, QueuedFrame DEF send_datagram
<1>2. CASE ~Knows(n, IPOf(g))
  BY <1>2, PostponeKeeps DEF send_datagram
<1> QED BY <1>1, <1>2
LEMMA LearnKeeps ==
    ASSUME NEW h \in Host, NEW g \in Host, NEW n \in Interfaces(h),
           SameKeys(n)
    PROVE  /\ Learned(n, EthOf(g), IPOf(g)) \in Interfaces(h)
           /\ SameKeys(Learned(n, EthOf(g), IPOf(g)))
           /\ Knows(Learned(n, EthOf(g), IPOf(g)), IPOf(g))
<1> DEFINE arp   == Put(n.arp_ip2eth_map_, IPOf(g), EthOf(g))
           times == Put(n.arp_valid_time_map_, IPOf(g), 0)
<1>1. CASE Knows(n, IPOf(g))
  BY <1>1 DEF Learned
<1>2. CASE ~Knows(n, IPOf(g))
  <2>1. arp \in TrueTables
    BY Fields, LearnTrue
  <2>2. IPOf(g) \in IPs /\ EthOf(g) \in Addresses
        /\ 0 \in 0 .. MaxArpMapTime - 1
    BY InterfaceAssumption DEF IPs, Addresses
  <2>a. n.arp_valid_time_map_ \in Tables(IPs, 0 .. MaxArpMapTime - 1)
    BY Fields
  <2>3. times \in Tables(IPs, 0 .. MaxArpMapTime - 1)
    BY <2>2, <2>a, PutFacts
  <2>4. /\ DOMAIN arp = DOMAIN n.arp_ip2eth_map_ \cup {IPOf(g)}
        /\ DOMAIN times = DOMAIN n.arp_valid_time_map_ \cup {IPOf(g)}
    BY PutDomain
  <2>5. DOMAIN arp = DOMAIN times /\ IPOf(g) \in DOMAIN arp
    BY <2>4 DEF SameKeys
  <2> HIDE DEF arp, times
  <2>6. /\ [n EXCEPT !.arp_ip2eth_map_ = arp, !.arp_valid_time_map_ = times]
              \in Interfaces(h)
        /\ SameKeys([n EXCEPT !.arp_ip2eth_map_ = arp,
                              !.arp_valid_time_map_ = times])
        /\ Knows([n EXCEPT !.arp_ip2eth_map_ = arp,
                           !.arp_valid_time_map_ = times], IPOf(g))
    BY <2>1, <2>3, <2>5 DEF Interfaces, SameKeys, Knows
  <2> QED BY <2>6, <1>2 DEF Learned, arp, times
<1> QED BY <1>1, <1>2

LEMMA LearnKnows ==
    ASSUME NEW h \in Host, NEW g \in Host, NEW n \in Interfaces(h), NEW ip,
           Knows(n, ip)
    PROVE  Knows(Learned(n, EthOf(g), IPOf(g)), ip)
<1>1. CASE Knows(n, IPOf(g))
  BY <1>1 DEF Learned
<1>2. CASE ~Knows(n, IPOf(g))
  <2>1. ip \in DOMAIN Put(n.arp_ip2eth_map_, IPOf(g), EthOf(g))
    <3>1. DOMAIN Put(n.arp_ip2eth_map_, IPOf(g), EthOf(g))
             = DOMAIN n.arp_ip2eth_map_ \cup {IPOf(g)}
      BY PutDomain
    <3> QED BY <3>1 DEF Knows
  <2> QED BY <2>1, <1>2 DEF Learned, Knows, Interfaces
<1> QED BY <1>1, <1>2

LEMMA FlushKeeps ==
    ASSUME NEW h \in Host, NEW ip, NEW n \in Interfaces(h), SameKeys(n),
           Knows(n, ip)
    PROVE  Flushed(n, ip) \in Interfaces(h) /\ SameKeys(Flushed(n, ip))
<1> DEFINE queue  == Waiting(n, ip)
           frames == [i \in DOMAIN queue |-> DatagramFrame(n, queue[i], ip)]
           out    == n.out_que_ \o frames
           rest   == Restrict(n.wait_map, DOMAIN n.wait_map \ {ip})
<1>1. queue \in Seq(Datagram)
  BY Queue
<1>2. \A i \in DOMAIN queue : DatagramFrame(n, queue[i], ip) \in HonestFrames
  <2> TAKE i \in DOMAIN queue
  <2>1. queue[i] \in Datagram
    BY <1>1
  <2> QED BY <2>1, Data
<1>3. frames \in Seq(HonestFrames)
  <2>1. DOMAIN queue = 1 .. Len(queue) /\ Len(queue) \in Nat
    BY <1>1
  <2>2. frames \in [1 .. Len(queue) -> HonestFrames]
    BY <1>2, <2>1
  <2> HIDE DEF frames, queue
  <2> QED BY <2>1, <2>2
<1>4. out \in Seq(HonestFrames)
  BY <1>3, Fields
<1>5. rest \in Tables(IPs, Seq(Datagram))
  BY Fields, RestrictFacts
<1> HIDE DEF out, rest
<1>6. /\ [n EXCEPT !.out_que_ = out, !.wait_map = rest] \in Interfaces(h)
      /\ SameKeys([n EXCEPT !.out_que_ = out, !.wait_map = rest])
  BY <1>4, <1>5 DEF Interfaces, SameKeys
<1> QED BY <1>6 DEF Flushed, out, rest

LEMMA Reply ==
    ASSUME NEW h \in Host, NEW g \in Host, NEW n \in Interfaces(h), NEW target
    PROVE  ReplyTo(n, ARPMessage("REQUEST", EthOf(g), IPOf(g), NoAddress,
                                 target)) \in HonestFrames
<1> DEFINE msg == ARPMessage("REQUEST", EthOf(g), IPOf(g), NoAddress, target)
<1>1. /\ msg.sender_ethernet_address = EthOf(g)
      /\ msg.sender_ip_address = IPOf(g)
  BY DEF ARPMessage
<1> HIDE DEF msg
<1>2. ARPMessage("REPLY", n.ethernet_address_, n.ip_address_,
                 msg.sender_ethernet_address, msg.sender_ip_address)
         \in HonestReplies
  BY <1>1, Fields DEF HonestReplies
<1>3. n.ethernet_address_ \in Addresses /\ msg.sender_ethernet_address \in Addresses
  BY <1>1, Fields DEF Addresses
<1>4. ReplyTo(n, msg) \in HonestFrames
  BY <1>2, <1>3 DEF ReplyTo, HonestFrames
<1> QED BY <1>4 DEF msg

LEMMA HonestPayload ==
    ASSUME NEW frame \in HonestFrames
    PROVE  /\ frame.type \in {"ARP", "IPv4"}
           /\ IsRequest(frame) => frame.payload \in HonestRequests
           /\ IsReply(frame) => frame.payload \in HonestReplies
           /\ IsData(frame) => frame.payload \in Datagram
<1>1. CASE \E dst \in Addresses \cup {ETHERNET_BROADCAST}, src \in Addresses,
              msg \in HonestRequests \cup HonestReplies :
                 frame = Frame(dst, src, "ARP", msg)
  <2> PICK dst \in Addresses \cup {ETHERNET_BROADCAST}, src \in Addresses,
           msg \in HonestRequests \cup HonestReplies :
              frame = Frame(dst, src, "ARP", msg)
    BY <1>1
  <2>1. frame.type = "ARP" /\ frame.payload = msg
    BY DEF Frame
  <2>2. msg \in HonestRequests => msg.opcode = "REQUEST"
    BY DEF HonestRequests, ARPMessage
  <2>3. msg \in HonestReplies => msg.opcode = "REPLY"
    BY DEF HonestReplies, ARPMessage
  <2> QED BY <2>1, <2>2, <2>3 DEF IsRequest, IsReply, IsData
<1>2. CASE \E dst \in Addresses, src \in Addresses, dgram \in Datagram :
              frame = Frame(dst, src, "IPv4", dgram)
  <2>1. frame.type = "IPv4" /\ frame.payload \in Datagram
    BY <1>2 DEF Frame
  <2> QED BY <2>1 DEF IsRequest, IsReply, IsData
<1> QED BY <1>1, <1>2 DEF HonestFrames

LEMMA RequestKeeps ==
    ASSUME NEW h \in Host, NEW n \in Interfaces(h), SameKeys(n),
           NEW msg \in HonestRequests
    PROVE  /\ ReceiveRequest(n, msg) \in Interfaces(h)
           /\ SameKeys(ReceiveRequest(n, msg))
<1> PICK g \in Host, k \in Host :
       msg = ARPMessage("REQUEST", EthOf(g), IPOf(g), NoAddress, IPOf(k))
  BY DEF HonestRequests
<1> DEFINE learned == Learned(n, EthOf(g), IPOf(g))
<1>1. learned \in Interfaces(h) /\ SameKeys(learned)
  BY LearnKeeps
<1>2. /\ msg.sender_ethernet_address = EthOf(g)
      /\ msg.sender_ip_address = IPOf(g)
  BY DEF ARPMessage
<1>3. ReplyTo(n, msg) \in HonestFrames
  BY Reply
<1> HIDE DEF learned
<1>4. /\ [learned EXCEPT !.out_que_ = Append(@, ReplyTo(n, msg))]
            \in Interfaces(h)
      /\ SameKeys([learned EXCEPT !.out_que_ = Append(@, ReplyTo(n, msg))])
  BY <1>1, <1>3, QueuedFrame
<1> QED BY <1>1, <1>2, <1>4 DEF ReceiveRequest, learned

LEMMA ReplyKeeps ==
    ASSUME NEW h \in Host, NEW n \in Interfaces(h), SameKeys(n),
           NEW msg \in HonestReplies
    PROVE  /\ ReceiveReply(n, msg) \in Interfaces(h)
           /\ SameKeys(ReceiveReply(n, msg))
<1> PICK g \in Host, k \in Host :
       msg = ARPMessage("REPLY", EthOf(g), IPOf(g), EthOf(k), IPOf(k))
  BY DEF HonestReplies
<1> DEFINE sender == Learned(n, EthOf(g), IPOf(g))
           both   == Learned(sender, EthOf(k), IPOf(k))
<1>1. sender \in Interfaces(h) /\ SameKeys(sender) /\ Knows(sender, IPOf(g))
  BY LearnKeeps
<1>2. both \in Interfaces(h) /\ SameKeys(both) /\ Knows(both, IPOf(g))
  BY <1>1, LearnKeeps, LearnKnows
<1>3. /\ msg.sender_ethernet_address = EthOf(g)
      /\ msg.sender_ip_address = IPOf(g)
      /\ msg.target_ethernet_address = EthOf(k)
      /\ msg.target_ip_address = IPOf(k)
  BY DEF ARPMessage
<1>4. Flushed(both, IPOf(g)) \in Interfaces(h)
      /\ SameKeys(Flushed(both, IPOf(g)))
  BY <1>2, FlushKeeps
<1> QED BY <1>3, <1>4 DEF ReceiveReply

LEMMA ReceiveKeeps ==
    ASSUME NEW h \in Host, NEW n \in Interfaces(h), SameKeys(n),
           NEW frame \in HonestFrames
    PROVE  recv_frame(n, frame) \in Interfaces(h) /\ SameKeys(recv_frame(n, frame))
<1>1. CASE ForMe(n, frame) /\ IsRequest(frame)
  <2>1. ~IsReply(frame)
    BY <1>1 DEF IsRequest, IsReply
  <2> QED BY <1>1, <2>1, HonestPayload, RequestKeeps DEF recv_frame
<1>2. CASE ForMe(n, frame) /\ IsReply(frame)
  <2>1. ~IsRequest(frame)
    BY <1>2 DEF IsRequest, IsReply
  <2> QED BY <1>2, <2>1, HonestPayload, ReplyKeeps DEF recv_frame
<1>3. CASE ~(ForMe(n, frame) /\ IsRequest(frame))
           /\ ~(ForMe(n, frame) /\ IsReply(frame))
  BY <1>3 DEF recv_frame
<1> QED BY <1>1, <1>2, <1>3
LEMMA AgedFacts ==
    ASSUME NEW K, NEW limit \in Nat, NEW ages \in Tables(K, 0 .. limit - 1),
           NEW ms \in Nat
    PROVE  /\ StillYoung(ages, ms, limit) \subseteq DOMAIN ages
           /\ Aged(ages, ms, limit) \in Tables(K, 0 .. limit - 1)
           /\ DOMAIN Aged(ages, ms, limit) = StillYoung(ages, ms, limit)
<1>1. /\ StillYoung(ages, ms, limit) \subseteq DOMAIN ages
      /\ StillYoung(ages, ms, limit) \in SUBSET K
  BY TableFacts DEF StillYoung
<1>2. \A ip \in StillYoung(ages, ms, limit) : ages[ip] + ms \in 0 .. limit - 1
  <2> TAKE ip \in StillYoung(ages, ms, limit)
  <2>1. ages[ip] \in 0 .. limit - 1 /\ ages[ip] + ms < limit
    BY TableFacts DEF StillYoung
  <2> QED BY <2>1
<1>3. Aged(ages, ms, limit) \in [StillYoung(ages, ms, limit) -> 0 .. limit - 1]
  BY <1>2 DEF Aged
<1> QED BY <1>1, <1>3, MakeTable

LEMMA ThreeFields ==
    ASSUME NEW h \in Host, NEW n \in Interfaces(h), NEW arp \in TrueTables,
           NEW times \in Tables(IPs, 0 .. MaxArpMapTime - 1),
           NEW reqs \in Tables(IPs, 0 .. MaxArpReqTime - 1),
           DOMAIN arp = DOMAIN times
    PROVE  /\ [n EXCEPT !.arp_ip2eth_map_ = arp, !.arp_valid_time_map_ = times,
                        !.arpreq_survival_map_ = reqs] \in Interfaces(h)
           /\ SameKeys([n EXCEPT !.arp_ip2eth_map_ = arp,
                                 !.arp_valid_time_map_ = times,
                                 !.arpreq_survival_map_ = reqs])
BY DEF Interfaces, SameKeys

LEMMA TickKeeps ==
    ASSUME NEW h \in Host, NEW n \in Interfaces(h), SameKeys(n), NEW ms \in Nat
    PROVE  tick(n, ms) \in Interfaces(h) /\ SameKeys(tick(n, ms))
<1> DEFINE ages  == n.arp_valid_time_map_
           young == StillYoung(ages, ms, MaxArpMapTime)
           times == Aged(ages, ms, MaxArpMapTime)
           reqs  == Aged(n.arpreq_survival_map_, ms, MaxArpReqTime)
           arp   == Unexpired(n, ms)
<1>1. /\ young \subseteq DOMAIN ages
      /\ times \in Tables(IPs, 0 .. MaxArpMapTime - 1)
      /\ DOMAIN times = young
  BY Fields, AgedFacts, InterfaceAssumption
<1>2. reqs \in Tables(IPs, 0 .. MaxArpReqTime - 1)
  BY Fields, AgedFacts, InterfaceAssumption
<1>3. arp = Restrict(n.arp_ip2eth_map_, young)
  BY <1>1 DEF Unexpired, SameKeys
<1>4. young \subseteq DOMAIN n.arp_ip2eth_map_
  BY <1>1 DEF SameKeys
<1>5. arp \in TrueTables /\ DOMAIN arp = young
  BY <1>3, <1>4, Fields, ForgetTrue DEF Restrict
<1> HIDE DEF times, reqs, arp
<1> QED BY <1>1, <1>2, <1>5, ThreeFields DEF tick, times, reqs, arp

LEMMA TransmitKeeps ==
    ASSUME NEW h \in Host, NEW n \in Interfaces(h), SameKeys(n), CanSend(n)
    PROVE  /\ maybe_send(n) \in Interfaces(h) /\ SameKeys(maybe_send(n))
           /\ NextFrame(n) \in HonestFrames
<1>1. Tail(n.out_que_) \in Seq(HonestFrames) /\ Head(n.out_que_) \in HonestFrames
  BY Fields DEF CanSend
<1> QED BY <1>1, WithOut DEF maybe_send, NextFrame
---------------------------------------------------------------------------
LEMMA InitIInv == Init => IInv
<1> SUFFICES ASSUME Init PROVE IInv
  OBVIOUS
<1>1. ASSUME NEW h \in Host
      PROVE  nif[h] \in Interfaces(h) /\ SameKeys(nif[h])
  <2>1. nif[h] = NewInterface(EthOf(h), IPOf(h))
    BY DEF Init
  <2>2. EmptyMap \in TrueTables
    <3>1. EmptyMap \in Tables(IPs, Addresses) /\ DOMAIN EmptyMap = {}
      BY EmptyTable
    <3> QED BY <3>1 DEF TrueTables
  <2>3. /\ EmptyMap \in Tables(IPs, 0 .. MaxArpMapTime - 1)
        /\ EmptyMap \in Tables(IPs, 0 .. MaxArpReqTime - 1)
        /\ EmptyMap \in Tables(IPs, Seq(Datagram))
    BY EmptyTable
  <2>4. <<>> \in Seq(HonestFrames)
    OBVIOUS
  <2> HIDE DEF EmptyMap
  <2> QED BY <2>1, <2>2, <2>3, <2>4 DEF NewInterface, Interfaces, SameKeys
<1>2. InterfacesInv
  BY <1>1 DEF Init, InterfacesInv
<1>3. WireInv
  BY DEF Init, WireInv, EmptyBag, SetToBag
<1>4. SentInv
  BY DEF Init, SentInv, EmptyMap
<1> QED BY <1>2, <1>3, <1>4 DEF IInv

LEMMA OneChanges ==
    ASSUME InterfacesInv, NEW h \in Host, NEW n \in Interfaces(h), SameKeys(n),
           nif' = [nif EXCEPT ![h] = n]
    PROVE  InterfacesInv'
BY DEF InterfacesInv, Interfaces, SameKeys

LEMMA Removed ==
    ASSUME NEW bag, NEW other
    PROVE  DOMAIN (bag (-) other) \subseteq DOMAIN bag
BY DEF (-)

LEMMA Added ==
    ASSUME NEW bag, NEW other
    PROVE  DOMAIN (bag (+) other) = DOMAIN bag \cup DOMAIN other
BY DEF (+)

LEMMA NextIInv == IInv /\ [Next]_vars => IInv'
<1> SUFFICES ASSUME IInv, [Next]_vars PROVE IInv'
  OBVIOUS
<1> USE DEF IInv
<1>0. ASSUME NEW h \in Host PROVE nif[h] \in Interfaces(h) /\ SameKeys(nif[h])
  BY DEF InterfacesInv
<1>1. ASSUME NEW h \in Talkers, NEW dst \in Host, NEW dgram \in Datagram,
             StackSends(h, dgram, dst)
      PROVE  IInv'
  <2> DEFINE n == send_datagram(nif[h], dgram, IPOf(dst))
  <2>1. h \in Host
    BY LANAssumption
  <2>2. n \in Interfaces(h) /\ SameKeys(n)
    BY <1>0, <2>1, SendKeeps
  <2>3. nif' = [nif EXCEPT ![h] = n] /\ UNCHANGED wire
        /\ sent' = Put(sent, dgram, dst)
    BY <1>1 DEF StackSends
  <2>4. InterfacesInv'
    BY <2>1, <2>2, <2>3, OneChanges
  <2>5. SentInv'
    <3>1. DOMAIN Put(sent, dgram, dst) = DOMAIN sent \cup {dgram}
      BY PutDomain
    <3> QED BY <3>1, <2>3 DEF SentInv
  <2> QED BY <2>3, <2>4, <2>5 DEF WireInv
<1>2. ASSUME NEW h \in Host, HostTransmits(h) PROVE IInv'
  <2> DEFINE n      == maybe_send(nif[h])
             copies == {[to |-> g, frame |-> NextFrame(nif[h])] :
                           g \in Host \ {h}}
  <2>1. /\ CanSend(nif[h]) /\ wire' = wire (+) SetToBag(copies)
        /\ nif' = [nif EXCEPT ![h] = n] /\ UNCHANGED sent
    BY <1>2 DEF HostTransmits
  <2>2. n \in Interfaces(h) /\ SameKeys(n) /\ NextFrame(nif[h]) \in HonestFrames
    BY <1>0, <2>1, TransmitKeeps
  <2>3. InterfacesInv'
    BY <2>1, <2>2, OneChanges
  <2>4. DOMAIN wire' = DOMAIN wire \cup copies
    BY <2>1, Added DEF SetToBag
  <2>5. \A copy \in copies : copy.to \in Host /\ copy.frame \in HonestFrames
    BY <2>2
  <2>6. WireInv'
    BY <2>4, <2>5 DEF WireInv
  <2> QED BY <2>1, <2>3, <2>6 DEF SentInv
<1>3. ASSUME NEW h \in Host, HostHears(h) PROVE IInv'
  <2> PICK copy \in BagToSet(wire) :
         /\ wire' = wire (-) One(copy)
         /\ nif' = [nif EXCEPT ![h] = recv_frame(@, copy.frame)]
         /\ UNCHANGED sent
    BY <1>3 DEF HostHears
  <2> DEFINE n == recv_frame(nif[h], copy.frame)
  <2>1. copy.frame \in HonestFrames
    BY DEF BagToSet, WireInv
  <2>2. n \in Interfaces(h) /\ SameKeys(n)
    BY <1>0, <2>1, ReceiveKeeps
  <2>3. nif' = [nif EXCEPT ![h] = n]
    OBVIOUS
  <2>4. InterfacesInv'
    BY <2>2, <2>3, OneChanges
  <2>5. WireInv'
    BY Removed DEF WireInv
  <2> QED BY <2>4, <2>5 DEF SentInv
<1>4. ASSUME NEW h \in Talkers, NEW ms \in Ticks, TimePasses(h, ms)
      PROVE  IInv'
  <2> DEFINE n == tick(nif[h], ms)
  <2>1. h \in Host /\ ms \in Nat
    BY LANAssumption
  <2>2. n \in Interfaces(h) /\ SameKeys(n)
    BY <1>0, <2>1, TickKeeps
  <2>3. nif' = [nif EXCEPT ![h] = n] /\ UNCHANGED <<wire, sent>>
    BY <1>4 DEF TimePasses
  <2>4. InterfacesInv'
    BY <2>1, <2>2, <2>3, OneChanges
  <2> QED BY <2>3, <2>4 DEF WireInv, SentInv
<1>5. ASSUME WireLoses PROVE IInv'
  <2> PICK copy \in BagToSet(wire) :
         wire' = wire (-) One(copy) /\ UNCHANGED <<nif, sent>>
    BY <1>5 DEF WireLoses
  <2>1. WireInv'
    BY Removed DEF WireInv
  <2> QED BY <2>1 DEF InterfacesInv, SentInv
<1>6. ASSUME UNCHANGED vars PROVE IInv'
  BY <1>6 DEF vars, InterfacesInv, WireInv, SentInv
<1> QED BY <1>1, <1>2, <1>3, <1>4, <1>5, <1>6 DEF Next

LEMMA IInvImpliesTypeOK == IInv => TypeOK
<1> SUFFICES ASSUME IInv PROVE TypeOK
  OBVIOUS
<1>1. ASSUME NEW h \in Host
      PROVE  /\ DOMAIN nif[h].arp_ip2eth_map_ = DOMAIN nif[h].arp_valid_time_map_
             /\ DOMAIN nif[h].wait_map \subseteq {IPOf(g) : g \in Host}
             /\ \A ip \in DOMAIN nif[h].arp_valid_time_map_ :
                   nif[h].arp_valid_time_map_[ip] \in 0 .. MaxArpMapTime - 1
  <2>1. nif[h] \in Interfaces(h) /\ SameKeys(nif[h])
    BY DEF IInv, InterfacesInv
  <2>2. /\ nif[h].arp_valid_time_map_ \in Tables(IPs, 0 .. MaxArpMapTime - 1)
        /\ nif[h].wait_map \in Tables(IPs, Seq(Datagram))
    BY <2>1, Fields
  <2>3. \A ip \in DOMAIN nif[h].arp_valid_time_map_ :
           nif[h].arp_valid_time_map_[ip] \in 0 .. MaxArpMapTime - 1
    BY <2>2, TableFacts
  <2>4. DOMAIN nif[h].wait_map \subseteq IPs
    BY <2>2, TableFacts
  <2> QED BY <2>1, <2>3, <2>4 DEF SameKeys, IPs
<1>2. \A copy \in BagToSet(wire) : copy.to \in Host
                                   /\ copy.frame.type \in {"ARP", "IPv4"}
  BY HonestPayload DEF IInv, WireInv, BagToSet
<1> QED BY <1>1, <1>2 DEF TypeOK, IInv, SentInv

LEMMA IInvImpliesMappingsTrue == IInv => MappingsTrue
BY Fields DEF IInv, InterfacesInv, MappingsTrue, Knows, TrueTables

LEMMA Invariance == Spec => []IInv
BY InitIInv, NextIInv, PTL DEF Spec

---------------------------------------------------------------------------
(* Where datagrams are.                                                      *)
FramesWith(dgram) ==
    {frame \in HonestFrames : IsData(frame) /\ frame.payload = dgram}

(* How often interface n holds a datagram for host dst.                      *)
Held(n, dgram, dst) ==
    Occurrences(n.out_que_, FramesWith(dgram))
    + Occurrences(Waiting(n, IPOf(dst)), {dgram})

(* When st is who datagrams were sent to: what waits does so for its host,   *)
(* what is in a frame is addressed to it.                                    *)
Addressed(frame, st) ==
    IsData(frame) => /\ frame.payload \in DOMAIN st
                     /\ st[frame.payload] \in Host
                     /\ frame.dst = EthOf(st[frame.payload])
Placed(n, st) ==
    /\ \A g \in Host : \A i \in DOMAIN Waiting(n, IPOf(g)) :
          /\ Waiting(n, IPOf(g))[i] \in DOMAIN st
          /\ st[Waiting(n, IPOf(g))[i]] = g
    /\ \A i \in DOMAIN n.out_que_ : Addressed(n.out_que_[i], st)

(* A queue is continued.                                                     *)
Grows(q, r) == \A i \in DOMAIN q : i \in DOMAIN r /\ r[i] = q[i]

(* No mapping is older than the last request for it.                         *)
Aging(n) ==
    \A ip \in DOMAIN n.arp_valid_time_map_ : ip \in DOMAIN n.arpreq_survival_map_
        => n.arp_valid_time_map_[ip] <= n.arpreq_survival_map_[ip]

LEMMA AppendedFrame ==
    ASSUME NEW q \in Seq(HonestFrames), NEW frame \in HonestFrames
    PROVE  /\ \A d : Occurrences(Append(q, frame), FramesWith(d))
                  = Occurrences(q, FramesWith(d))
                    + (IF IsData(frame) /\ frame.payload = d THEN 1 ELSE 0)
           /\ Grows(q, Append(q, frame))
           /\ Len(q) + 1 \in DOMAIN Append(q, frame)
           /\ Append(q, frame)[Len(q) + 1] = frame
           /\ \A i \in DOMAIN Append(q, frame) :
                 i \in DOMAIN q \/ Append(q, frame)[i] = frame
<1>1. \A d : Occurrences(Append(q, frame), FramesWith(d))
                 = Occurrences(q, FramesWith(d))
                   + (IF frame \in FramesWith(d) THEN 1 ELSE 0)
  BY OccurrencesAppended
<1>2. \A d : frame \in FramesWith(d) <=> IsData(frame) /\ frame.payload = d
  BY DEF FramesWith
<1>3. /\ Len(q) \in Nat /\ DOMAIN q = 1..Len(q)
      /\ DOMAIN Append(q, frame) = 1..(Len(q) + 1)
      /\ Append(q, frame)[Len(q) + 1] = frame
      /\ \A i \in 1..Len(q) : Append(q, frame)[i] = q[i]
  BY AppendProperties, LenProperties
<1>4. \A i \in 1..(Len(q) + 1) : i \in 1..Len(q) \/ i = Len(q) + 1
  BY <1>3
<1> QED BY <1>1, <1>2, <1>3, <1>4 DEF Grows

LEMMA AppendedPlaced ==
    ASSUME NEW h \in Host, NEW n \in Interfaces(h), NEW frame \in HonestFrames,
           NEW m, m.out_que_ = Append(n.out_que_, frame),
           m.wait_map = n.wait_map, NEW st, Placed(n, st), Addressed(frame, st)
    PROVE  Placed(m, st)
<1>1. \A ip : Waiting(m, ip) = Waiting(n, ip)
  BY DEF Waiting
<1>2. n.out_que_ \in Seq(HonestFrames)
  BY Fields
<1>3. ASSUME NEW i \in DOMAIN m.out_que_ PROVE Addressed(m.out_que_[i], st)
  BY <1>2, AppendedFrame DEF Placed, Grows
<1> QED BY <1>1, <1>3 DEF Placed

LEMMA DataIs ==
    ASSUME NEW h \in Host, NEW g \in Host, NEW n \in Interfaces(h),
           Knows(n, IPOf(g)), NEW dgram \in Datagram
    PROVE  LET frame == DatagramFrame(n, dgram, IPOf(g))
           IN  /\ frame \in HonestFrames /\ IsData(frame)
               /\ frame.payload = dgram /\ frame.dst = EthOf(g)
<1>1. n.arp_ip2eth_map_[IPOf(g)] = EthOf(g)
  BY Fields DEF Knows, TrueTables
<1>2. DatagramFrame(n, dgram, IPOf(g)) \in HonestFrames
  BY Data
<1> QED BY <1>1, <1>2 DEF DatagramFrame, Frame, IsData

LEMMA RequestIs ==
    ASSUME NEW h \in Host, NEW n \in Interfaces(h), NEW ip
    PROVE  ~IsData(RequestFor(n, ip))
BY DEF RequestFor, Frame, IsData

LEMMA AppendedDatagram ==
    ASSUME NEW q \in Seq(Datagram), NEW dgram \in Datagram
    PROVE  /\ \A d : Occurrences(Append(q, dgram), {d})
                  = Occurrences(q, {d}) + (IF d = dgram THEN 1 ELSE 0)
           /\ \A i \in DOMAIN Append(q, dgram) :
                 \/ i \in DOMAIN q /\ Append(q, dgram)[i] = q[i]
                 \/ Append(q, dgram)[i] = dgram
           /\ Append(q, dgram) # <<>>
<1>1. \A d : Occurrences(Append(q, dgram), {d})
                 = Occurrences(q, {d}) + (IF dgram \in {d} THEN 1 ELSE 0)
  BY OccurrencesAppended
<1>2. /\ Len(q) \in Nat /\ DOMAIN q = 1..Len(q)
      /\ DOMAIN Append(q, dgram) = 1..(Len(q) + 1)
      /\ Append(q, dgram)[Len(q) + 1] = dgram
      /\ \A i \in 1..Len(q) : Append(q, dgram)[i] = q[i]
  BY AppendProperties, LenProperties
<1>3. \A i \in 1..(Len(q) + 1) : i \in 1..Len(q) \/ i = Len(q) + 1
  BY <1>2
<1>4. Append(q, dgram) # <<>>
  BY <1>2
<1> QED BY <1>1, <1>2, <1>3, <1>4

LEMMA HeldIsNat ==
    ASSUME NEW h \in Host, NEW n \in Interfaces(h), NEW d, NEW dst
    PROVE  /\ Occurrences(n.out_que_, FramesWith(d)) \in Nat
           /\ Occurrences(Waiting(n, IPOf(dst)), {d}) \in Nat
           /\ Held(n, d, dst) \in Nat
<1>1. n.out_que_ \in Seq(HonestFrames) /\ Waiting(n, IPOf(dst)) \in Seq(Datagram)
  BY Fields, Queue
<1>2. /\ Occurrences(n.out_que_, FramesWith(d)) \in Nat
      /\ Occurrences(Waiting(n, IPOf(dst)), {d}) \in Nat
  BY <1>1, OccurrencesAre
<1> QED BY <1>2 DEF Held

(* send_datagram() puts the datagram in the queue of frames or among those   *)
(* that wait, and then asks if no request is remembered.                     *)
LEMMA SendFields ==
    ASSUME NEW h \in Host, NEW n \in Interfaces(h), NEW dgram, NEW ip
    PROVE  LET m == send_datagram(n, dgram, ip)
           IN  /\ m.arp_ip2eth_map_ = n.arp_ip2eth_map_
               /\ m.arp_valid_time_map_ = n.arp_valid_time_map_
               /\ m.wait_map = IF Knows(n, ip) THEN n.wait_map
                               ELSE Put(n.wait_map, ip,
                                        Append(Waiting(n, ip), dgram))
               /\ m.arpreq_survival_map_ =
                     IF Knows(n, ip) \/ ~MustAsk(n, ip)
                     THEN n.arpreq_survival_map_
                     ELSE Put(n.arpreq_survival_map_, ip, 0)
               /\ m.out_que_ =
                     IF Knows(n, ip)
                     THEN Append(n.out_que_, DatagramFrame(n, dgram, ip))
                     ELSE IF MustAsk(n, ip)
                     THEN Append(n.out_que_, RequestFor(n, ip))
                     ELSE n.out_que_
<1> DEFINE wait == Put(n.wait_map, ip, Append(Waiting(n, ip), dgram))
           w    == [n EXCEPT !.wait_map = wait]
<1> HIDE DEF wait
<1>1. CASE Knows(n, ip)
  BY <1>1 DEF send_datagram, Interfaces
<1>2. CASE ~Knows(n, ip) /\ ~MustAsk(n, ip)
  <2>1. send_datagram(n, dgram, ip) = w
    BY <1>2 DEF send_datagram, Postpone, wait
  <2>2. /\ w.wait_map = wait /\ w.arp_ip2eth_map_ = n.arp_ip2eth_map_
        /\ w.arp_valid_time_map_ = n.arp_valid_time_map_
        /\ w.arpreq_survival_map_ = n.arpreq_survival_map_
        /\ w.out_que_ = n.out_que_
    BY DEF Interfaces
  <2> QED BY <1>2, <2>1, <2>2 DEF wait
<1>3. CASE ~Knows(n, ip) /\ MustAsk(n, ip)
  <2> DEFINE reqs  == Put(n.arpreq_survival_map_, ip, 0)
             out   == Append(n.out_que_, RequestFor(n, ip))
             m     == [n EXCEPT !.wait_map = wait, !.out_que_ = out,
                                !.arpreq_survival_map_ = reqs]
  <2>1. send_datagram(n, dgram, ip) = m
    BY <1>3 DEF send_datagram, Postpone, wait, Interfaces
  <2> HIDE DEF reqs, out
  <2>2. /\ m.wait_map = wait /\ m.arp_ip2eth_map_ = n.arp_ip2eth_map_
        /\ m.arp_valid_time_map_ = n.arp_valid_time_map_
        /\ m.arpreq_survival_map_ = reqs
        /\ m.out_que_ = out
    BY DEF Interfaces
  <2> QED BY <1>3, <2>1, <2>2 DEF wait, reqs, out
<1> QED BY <1>1, <1>2, <1>3

LEMMA SendIs ==
    ASSUME NEW h \in Host, NEW g \in Host, NEW n \in Interfaces(h),
           NEW dgram \in Datagram,
           NEW st, Placed(n, st), dgram \in DOMAIN st, st[dgram] = g
    PROVE  LET m == send_datagram(n, dgram, IPOf(g))
           IN  /\ Placed(m, st)
               /\ Grows(n.out_que_, m.out_que_)
               /\ \A d : Held(m, d, st[d]) = Held(n, d, st[d])
                                             + (IF d = dgram THEN 1 ELSE 0)
<1> DEFINE ip    == IPOf(g)
           m     == send_datagram(n, dgram, ip)
           queue == Waiting(n, ip)
           more  == Append(queue, dgram)
<1>1. n.out_que_ \in Seq(HonestFrames) /\ queue \in Seq(Datagram)
  BY Fields, Queue
<1>2. /\ m.wait_map = IF Knows(n, ip) THEN n.wait_map ELSE Put(n.wait_map, ip, more)
      /\ m.out_que_ = IF Knows(n, ip)
                      THEN Append(n.out_que_, DatagramFrame(n, dgram, ip))
                      ELSE IF MustAsk(n, ip)
                      THEN Append(n.out_que_, RequestFor(n, ip))
                      ELSE n.out_que_
  BY SendFields
<1> HIDE DEF m
<1>3. CASE Knows(n, ip)
  <2> DEFINE frame == DatagramFrame(n, dgram, ip)
  <2>1. /\ frame \in HonestFrames /\ IsData(frame)
        /\ frame.payload = dgram /\ frame.dst = EthOf(g)
    BY <1>3, DataIs
  <2> HIDE DEF frame
  <2>2. m.out_que_ = Append(n.out_que_, frame) /\ m.wait_map = n.wait_map
    BY <1>2, <1>3 DEF frame
  <2>3. Placed(m, st)
    BY <2>1, <2>2, AppendedPlaced DEF Addressed
  <2>4. /\ Grows(n.out_que_, m.out_que_)
        /\ \A d : Occurrences(m.out_que_, FramesWith(d))
                      = Occurrences(n.out_que_, FramesWith(d))
                        + (IF d = dgram THEN 1 ELSE 0)
    BY <1>1, <2>1, <2>2, AppendedFrame
  <2>5. \A k : Waiting(m, k) = Waiting(n, k)
    BY <2>2 DEF Waiting
  <2>6. ASSUME NEW d PROVE Held(m, d, st[d]) = Held(n, d, st[d])
                                               + (IF d = dgram THEN 1 ELSE 0)
    <3> DEFINE x == Occurrences(n.out_que_, FramesWith(d))
               y == Occurrences(Waiting(n, IPOf(st[d])), {d})
    <3>1. x \in Nat /\ y \in Nat
      BY HeldIsNat
    <3>2. Held(n, d, st[d]) = x + y
          /\ Held(m, d, st[d]) = (x + (IF d = dgram THEN 1 ELSE 0)) + y
      BY <2>4, <2>5 DEF Held
    <3> HIDE DEF x, y
    <3> QED BY <3>1, <3>2
  <2> QED BY <2>3, <2>4, <2>6 DEF m
<1>4. CASE ~Knows(n, ip)
  <2>1. m.wait_map = Put(n.wait_map, ip, more)
    BY <1>2, <1>4
  <2>2. /\ Waiting(m, ip) = more
        /\ \A k : k # ip => Waiting(m, k) = Waiting(n, k)
    BY <2>1 DEF Waiting, Put
  <2>3. /\ \A d : Occurrences(more, {d})
                      = Occurrences(queue, {d}) + (IF d = dgram THEN 1 ELSE 0)
        /\ \A i \in DOMAIN more :
              \/ i \in DOMAIN queue /\ more[i] = queue[i]
              \/ more[i] = dgram
    BY <1>1, AppendedDatagram
  <2> HIDE DEF more
  <2>4. ASSUME NEW k \in Host, NEW i \in DOMAIN Waiting(m, IPOf(k))
        PROVE  /\ Waiting(m, IPOf(k))[i] \in DOMAIN st
               /\ st[Waiting(m, IPOf(k))[i]] = k
    <3>1. CASE k # g
      <4>1. Waiting(m, IPOf(k)) = Waiting(n, IPOf(k))
        BY <2>2, <3>1, AddressesDiffer
      <4> QED BY <4>1 DEF Placed
    <3>2. CASE k = g
      BY <2>2, <2>3, <3>2 DEF Placed
    <3> QED BY <3>1, <3>2
  <2>5. /\ Grows(n.out_que_, m.out_que_)
        /\ \A d : Occurrences(m.out_que_, FramesWith(d))
                      = Occurrences(n.out_que_, FramesWith(d))
        /\ \A i \in DOMAIN m.out_que_ : Addressed(m.out_que_[i], st)
    <3>1. CASE ~MustAsk(n, ip)
      BY <1>2, <1>4, <3>1 DEF Grows, Placed
    <3>2. CASE MustAsk(n, ip)
      <4> DEFINE frame == RequestFor(n, ip)
      <4>1. frame \in HonestFrames /\ ~IsData(frame)
        BY Request, RequestIs
      <4>2. m.out_que_ = Append(n.out_que_, frame)
        BY <1>2, <1>4, <3>2
      <4> HIDE DEF frame
      <4>3. \A d : Occurrences(m.out_que_, FramesWith(d))
                      = Occurrences(n.out_que_, FramesWith(d)) + 0
        BY <1>1, <4>1, <4>2, AppendedFrame
      <4>4. \A d : Occurrences(n.out_que_, FramesWith(d)) \in Nat
        BY HeldIsNat
      <4>5. ASSUME NEW i \in DOMAIN m.out_que_ PROVE Addressed(m.out_que_[i], st)
        <5>1. \/ i \in DOMAIN n.out_que_ /\ m.out_que_[i] = n.out_que_[i]
              \/ m.out_que_[i] = frame
          BY <1>1, <4>1, <4>2, AppendedFrame DEF Grows
        <5> QED BY <4>1, <5>1 DEF Placed, Addressed
      <4>6. Grows(n.out_que_, m.out_que_)
        BY <1>1, <4>1, <4>2, AppendedFrame
      <4> QED BY <4>3, <4>4, <4>5, <4>6
    <3> QED BY <3>1, <3>2
  <2>6. ASSUME NEW d PROVE Held(m, d, st[d]) = Held(n, d, st[d])
                                               + (IF d = dgram THEN 1 ELSE 0)
    <3> DEFINE x == Occurrences(n.out_que_, FramesWith(d))
               y == Occurrences(Waiting(n, IPOf(st[d])), {d})
               z == Occurrences(Waiting(m, IPOf(st[d])), {d})
    <3>1. x \in Nat /\ y \in Nat
      BY HeldIsNat
    <3>2. Held(n, d, st[d]) = x + y /\ Held(m, d, st[d]) = x + z
      BY <2>5 DEF Held
    <3>3. z = y + (IF d = dgram THEN 1 ELSE 0)
      <4>1. CASE IPOf(st[d]) = ip
        BY <2>2, <2>3, <4>1
      <4>2. CASE IPOf(st[d]) # ip
        <5>1. d # dgram
          BY <4>2
        <5> QED BY <2>2, <3>1, <4>2, <5>1
      <4> QED BY <4>1, <4>2
    <3> HIDE DEF x, y, z
    <3> QED BY <3>1, <3>2, <3>3
  <2>7. Placed(m, st)
    BY <2>4, <2>5 DEF Placed
  <2> QED BY <2>5, <2>6, <2>7 DEF m
<1> QED BY <1>3, <1>4

(* The same interface but for what it knows: learning from honest messages.  *)
LEMMA LearnIs ==
    ASSUME NEW h \in Host, NEW n \in Interfaces(h), NEW eth, NEW ip
    PROVE  LET m == Learned(n, eth, ip)
           IN  /\ m.out_que_ = n.out_que_ /\ m.wait_map = n.wait_map
               /\ m.arpreq_survival_map_ = n.arpreq_survival_map_
               /\ m.ethernet_address_ = n.ethernet_address_
               /\ m.ip_address_ = n.ip_address_
               /\ Knows(m, ip)
               /\ \A k : Knows(n, k) => Knows(m, k)
               /\ Aging(n) => Aging(m)
<1> DEFINE arp  == Put(n.arp_ip2eth_map_, ip, eth)
           ages == Put(n.arp_valid_time_map_, ip, 0)
           w    == [n EXCEPT !.arp_ip2eth_map_ = arp, !.arp_valid_time_map_ = ages]
<1>1. CASE Knows(n, ip)
  BY <1>1 DEF Learned
<1>2. CASE ~Knows(n, ip)
  <2>1. Learned(n, eth, ip) = w
    BY <1>2 DEF Learned
  <2>2. /\ DOMAIN arp = DOMAIN n.arp_ip2eth_map_ \cup {ip}
        /\ DOMAIN ages = DOMAIN n.arp_valid_time_map_ \cup {ip}
        /\ ages[ip] = 0
        /\ \A k \in DOMAIN ages : k # ip => ages[k] = n.arp_valid_time_map_[k]
    BY DEF Put
  <2> HIDE DEF arp, ages
  <2>3. /\ w.out_que_ = n.out_que_ /\ w.wait_map = n.wait_map
        /\ w.arpreq_survival_map_ = n.arpreq_survival_map_
        /\ w.ethernet_address_ = n.ethernet_address_
        /\ w.ip_address_ = n.ip_address_
        /\ w.arp_ip2eth_map_ = arp /\ w.arp_valid_time_map_ = ages
    BY DEF Interfaces
  <2> HIDE DEF w
  <2>4. ASSUME Aging(n), NEW k \in DOMAIN ages, k \in DOMAIN n.arpreq_survival_map_
        PROVE  ages[k] <= n.arpreq_survival_map_[k]
    <3>1. CASE k # ip
      BY <2>2, <2>4, <3>1 DEF Aging
    <3>2. CASE k = ip
      <4>1. n.arpreq_survival_map_[k] \in 0 .. MaxArpReqTime - 1
        BY <2>4, Fields, TableFacts
      <4>2. n.arpreq_survival_map_[k] >= 0
        BY <4>1, InterfaceAssumption
      <4> QED BY <2>2, <3>2, <4>1, <4>2
    <3> QED BY <3>1, <3>2
  <2> QED BY <2>1, <2>2, <2>3, <2>4 DEF Knows, Aging
<1> QED BY <1>1, <1>2

(* Flushed() moves what waits for a known host into frames addressed to it.  *)
LEMMA FlushIs ==
    ASSUME NEW h \in Host, NEW g \in Host, NEW n \in Interfaces(h),
           Knows(n, IPOf(g))
    PROVE  LET m == Flushed(n, IPOf(g))
           IN  /\ m.arp_ip2eth_map_ = n.arp_ip2eth_map_
               /\ m.arp_valid_time_map_ = n.arp_valid_time_map_
               /\ m.arpreq_survival_map_ = n.arpreq_survival_map_
               /\ Waiting(m, IPOf(g)) = <<>>
               /\ \A k : k # IPOf(g) => Waiting(m, k) = Waiting(n, k)
               /\ Grows(n.out_que_, m.out_que_)
               /\ \A st : Placed(n, st) =>
                     /\ Placed(m, st)
                     /\ \A d : st[d] \in Host =>
                                   Held(m, d, st[d]) = Held(n, d, st[d])
<1> DEFINE ip     == IPOf(g)
           queue  == Waiting(n, ip)
           old    == n.out_que_
           frames == [i \in DOMAIN queue |-> DatagramFrame(n, queue[i], ip)]
           out    == old \o frames
           rest   == Restrict(n.wait_map, DOMAIN n.wait_map \ {ip})
           m      == Flushed(n, ip)
<1>1. /\ queue \in Seq(Datagram) /\ old \in Seq(HonestFrames)
      /\ n.wait_map \in Tables(IPs, Seq(Datagram))
  BY Queue, Fields
<1>2. /\ DOMAIN queue = 1..Len(queue) /\ Len(queue) \in Nat
      /\ \A i \in DOMAIN queue : queue[i] \in Datagram
  <2> HIDE DEF queue
  <2> QED BY <1>1, LenProperties, ElementOfSeq
<1>3. ASSUME NEW i \in DOMAIN queue
      PROVE  /\ frames[i] \in HonestFrames /\ IsData(frames[i])
             /\ frames[i].payload = queue[i] /\ frames[i].dst = EthOf(g)
  <2> HIDE DEF queue
  <2> QED BY <1>2, DataIs
<1>4. /\ frames \in Seq(HonestFrames) /\ DOMAIN frames = DOMAIN queue
      /\ Len(frames) = Len(queue)
  <2> HIDE DEF queue
  <2>1. frames \in [1..Len(queue) -> HonestFrames]
    BY <1>2, <1>3
  <2> QED BY <1>2, <2>1, SeqDef, LenProperties
<1>5. /\ DOMAIN rest = DOMAIN n.wait_map \ {ip}
      /\ \A k \in DOMAIN rest : rest[k] = n.wait_map[k]
  BY <1>1, RestrictFacts
<1>6. /\ m.out_que_ = out /\ m.wait_map = rest
      /\ m.arp_ip2eth_map_ = n.arp_ip2eth_map_
      /\ m.arp_valid_time_map_ = n.arp_valid_time_map_
      /\ m.arpreq_survival_map_ = n.arpreq_survival_map_
  <2>1. m = [n EXCEPT !.out_que_ = out, !.wait_map = rest]
    BY DEF Flushed
  <2> HIDE DEF m, out, rest
  <2> QED BY <2>1 DEF Interfaces
<1> HIDE DEF m, rest, frames
<1>7. /\ Waiting(m, ip) = <<>>
      /\ \A k : k # ip => Waiting(m, k) = Waiting(n, k)
  BY <1>5, <1>6 DEF Waiting
<1> HIDE DEF queue, old
<1>8. /\ Len(old) \in Nat /\ DOMAIN old = 1..Len(old)
      /\ DOMAIN out = 1..(Len(old) + Len(queue))
      /\ \A i \in 1..(Len(old) + Len(queue)) :
            out[i] = IF i <= Len(old) THEN old[i] ELSE frames[i - Len(old)]
  <2>1. Len(out) = Len(old) + Len(frames) /\ out \in Seq(HonestFrames)
        /\ \A i \in 1..(Len(old) + Len(frames)) :
              out[i] = IF i <= Len(old) THEN old[i] ELSE frames[i - Len(old)]
    BY <1>1, <1>4, ConcatProperties
  <2> QED BY <1>1, <1>4, <2>1, LenProperties
<1>9. \A d : Occurrences(out, FramesWith(d))
                 = Occurrences(old, FramesWith(d)) + Occurrences(queue, {d})
  <2>1. \A d : Occurrences(out, FramesWith(d)) =
                   Occurrences(old, FramesWith(d))
                   + Occurrences(frames, FramesWith(d))
    BY <1>1, <1>4, OccurrencesInBoth
  <2>2. ASSUME NEW d
        PROVE  Positions(frames, FramesWith(d)) = Positions(queue, {d})
    BY <1>3, <1>4 DEF Positions, FramesWith
  <2> QED BY <2>1, <2>2 DEF Occurrences
<1> HIDE DEF out
<1>10. Grows(old, m.out_que_)
  <2>1. \A i \in 1..Len(old) : i \in 1..(Len(old) + Len(queue)) /\ i <= Len(old)
    BY <1>2, <1>8
  <2> QED BY <1>6, <1>8, <2>1 DEF Grows
<1>11. ASSUME NEW st, Placed(n, st) PROVE Placed(m, st)
  <2>1. \A i \in DOMAIN queue : queue[i] \in DOMAIN st /\ st[queue[i]] = g
    BY <1>11 DEF Placed, queue
  <2>2. \A i \in DOMAIN frames : Addressed(frames[i], st)
    BY <1>3, <1>4, <2>1 DEF Addressed
  <2>3. ASSUME NEW i \in DOMAIN out PROVE Addressed(out[i], st)
    <3>1. CASE i <= Len(old)
      <4>1. i \in DOMAIN old /\ out[i] = old[i]
        BY <1>8, <3>1
      <4> QED BY <1>11, <4>1 DEF Placed, old
    <3>2. CASE ~(i <= Len(old))
      <4>1. i - Len(old) \in DOMAIN frames /\ out[i] = frames[i - Len(old)]
        BY <1>2, <1>4, <1>8, <3>2
      <4> QED BY <2>2, <4>1
    <3> QED BY <3>1, <3>2
  <2>4. ASSUME NEW k \in Host, NEW i \in DOMAIN Waiting(m, IPOf(k))
        PROVE  /\ Waiting(m, IPOf(k))[i] \in DOMAIN st
               /\ st[Waiting(m, IPOf(k))[i]] = k
    <3>1. IPOf(k) # ip
      BY <1>7, <2>4, EmptySeq
    <3> QED BY <1>7, <1>11, <3>1 DEF Placed
  <2> QED BY <1>6, <2>3, <2>4 DEF Placed
<1>12. ASSUME NEW st, Placed(n, st), NEW d, st[d] \in Host
       PROVE  Held(m, d, st[d]) = Held(n, d, st[d])
  <2> DEFINE x == Occurrences(old, FramesWith(d))
             y == Occurrences(Waiting(n, IPOf(st[d])), {d})
             z == Occurrences(queue, {d})
  <2>1. x \in Nat /\ y \in Nat
    BY HeldIsNat DEF old
  <2>2. /\ Held(n, d, st[d]) = x + y
        /\ Held(m, d, st[d]) = (x + z)
                               + Occurrences(Waiting(m, IPOf(st[d])), {d})
    BY <1>6, <1>9 DEF Held, old
  <2>3. CASE IPOf(st[d]) = ip
    <3>1. z = y
      BY <2>3 DEF queue
    <3>2. Occurrences(Waiting(m, IPOf(st[d])), {d}) = 0
      BY <1>7, <2>3, OccurrencesInNone
    <3> HIDE DEF x, y, z
    <3> QED BY <2>1, <2>2, <3>1, <3>2
  <2>4. CASE IPOf(st[d]) # ip
    <3>1. \A i \in DOMAIN queue : queue[i] \notin {d}
      BY <1>12, <2>4 DEF Placed, queue
    <3>2. z = 0
      BY <1>1, <3>1, OccurrencesAre
    <3>3. Occurrences(Waiting(m, IPOf(st[d])), {d}) = y
      BY <1>7, <2>4
    <3> HIDE DEF x, y, z
    <3> QED BY <2>1, <2>2, <3>2, <3>3
  <2> QED BY <2>3, <2>4
<1> QED BY <1>6, <1>7, <1>10, <1>11, <1>12 DEF m, old

LEMMA SameQueues ==
    ASSUME NEW n, NEW m, m.out_que_ = n.out_que_, m.wait_map = n.wait_map
    PROVE  /\ \A k : Waiting(m, k) = Waiting(n, k)
           /\ \A st : Placed(n, st) => Placed(m, st)
           /\ \A d, dst : Held(m, d, dst) = Held(n, d, dst)
BY DEF Waiting, Placed, Held

(* The request of h for g's address, and the reply to it.                    *)
Question(h, g) ==
    Frame(ETHERNET_BROADCAST, EthOf(h), "ARP",
          ARPMessage("REQUEST", EthOf(h), IPOf(h), NoAddress, IPOf(g)))
Answers(frame, h, g) ==
    /\ IsReply(frame) /\ frame.dst = EthOf(h)
    /\ frame.payload.sender_ip_address = IPOf(g)

LEMMA QuestionIs ==
    ASSUME NEW h \in Host, NEW g \in Host, NEW n \in Interfaces(h)
    PROVE  RequestFor(n, IPOf(g)) = Question(h, g)
BY Fields DEF RequestFor, Question

(* What a frame can bring about: queues grow, what was known stays known,    *)
(* datagrams stay where they are but for those an answer releases.           *)
Heard(n, m) ==
    /\ Grows(n.out_que_, m.out_que_)
    /\ m.arpreq_survival_map_ = n.arpreq_survival_map_
    /\ \A k : Knows(n, k) => Knows(m, k)
    /\ \A k : Waiting(m, k) \in {Waiting(n, k), <<>>}
    /\ Aging(n) => Aging(m)
    /\ \A st : Placed(n, st) =>
          /\ Placed(m, st)
          /\ \A d : st[d] \in Host => Held(m, d, st[d]) = Held(n, d, st[d])

LEMMA RequestHeard ==
    ASSUME NEW h \in Host, NEW n \in Interfaces(h), SameKeys(n),
           NEW msg \in HonestRequests
    PROVE  LET m == ReceiveRequest(n, msg)
           IN  /\ Heard(n, m)
               /\ \A k \in Host :
                     (/\ msg.sender_ethernet_address = EthOf(k)
                      /\ msg.target_ip_address = IPOf(h)) =>
                         \E i \in DOMAIN m.out_que_ : Answers(m.out_que_[i], k, h)
<1> PICK g \in Host, t \in Host :
       msg = ARPMessage("REQUEST", EthOf(g), IPOf(g), NoAddress, IPOf(t))
  BY DEF HonestRequests
<1> DEFINE l     == Learned(n, EthOf(g), IPOf(g))
           reply == ReplyTo(n, msg)
           m     == [l EXCEPT !.out_que_ = Append(@, reply)]
<1>1. /\ msg.sender_ethernet_address = EthOf(g)
      /\ msg.sender_ip_address = IPOf(g)
      /\ msg.target_ip_address = IPOf(t)
  BY DEF ARPMessage
<1>2. /\ l \in Interfaces(h) /\ l.out_que_ = n.out_que_ /\ l.wait_map = n.wait_map
      /\ l.arpreq_survival_map_ = n.arpreq_survival_map_
      /\ \A k : Knows(n, k) => Knows(l, k)
      /\ Aging(n) => Aging(l)
  BY LearnIs, LearnKeeps
<1>3. /\ reply \in HonestFrames /\ ~IsData(reply)
      /\ \A k \in Host : EthOf(g) = EthOf(k) => Answers(reply, k, h)
  <2>1. reply \in HonestFrames
    BY Reply
  <2>2. /\ reply.type = "ARP" /\ reply.dst = EthOf(g)
        /\ reply.payload.opcode = "REPLY"
        /\ reply.payload.sender_ip_address = IPOf(h)
    BY <1>1, Fields DEF ReplyTo, Frame, ARPMessage
  <2> HIDE DEF reply
  <2> QED BY <2>1, <2>2 DEF IsData, IsReply, Answers
<1>4. ReceiveRequest(n, msg) =
          IF IPOf(t) = IPOf(h) THEN m ELSE l
  <2>1. n.ip_address_ = IPOf(h)
    BY Fields
  <2> QED BY <1>1, <2>1 DEF ReceiveRequest
<1> HIDE DEF l, reply
<1>5. /\ \A k : Waiting(l, k) = Waiting(n, k)
      /\ \A st : Placed(n, st) => Placed(l, st)
      /\ \A d, dst : Held(l, d, dst) = Held(n, d, dst)
  BY <1>2, SameQueues
<1>6. CASE IPOf(t) # IPOf(h)
  <2>1. Heard(n, l)
    BY <1>2, <1>5 DEF Heard, Grows
  <2> QED BY <1>1, <1>4, <1>6, <2>1
<1>7. CASE IPOf(t) = IPOf(h)
  <2>1. /\ m.out_que_ = Append(n.out_que_, reply)
        /\ m.wait_map = n.wait_map
        /\ m.arpreq_survival_map_ = n.arpreq_survival_map_
        /\ m.arp_ip2eth_map_ = l.arp_ip2eth_map_
        /\ m.arp_valid_time_map_ = l.arp_valid_time_map_
        /\ l.arpreq_survival_map_ = m.arpreq_survival_map_
    BY <1>2 DEF Interfaces
  <2> HIDE DEF m
  <2>2. n.out_que_ \in Seq(HonestFrames)
    BY Fields
  <2>3. /\ Grows(n.out_que_, m.out_que_)
        /\ Len(n.out_que_) + 1 \in DOMAIN m.out_que_
        /\ m.out_que_[Len(n.out_que_) + 1] = reply
        /\ \A d : Occurrences(m.out_que_, FramesWith(d))
                      = Occurrences(n.out_que_, FramesWith(d)) + 0
    BY <1>3, <2>1, <2>2, AppendedFrame
  <2>4. \A k : Waiting(m, k) = Waiting(n, k)
    BY <2>1 DEF Waiting
  <2>5. ASSUME NEW st, Placed(n, st) PROVE Placed(m, st)
    <3>1. Addressed(reply, st)
      BY <1>3 DEF Addressed
    <3> QED BY <1>3, <2>1, <2>5, <3>1, AppendedPlaced
  <2>6. ASSUME NEW d, NEW dst PROVE Held(m, d, dst) = Held(n, d, dst)
    <3>1. Occurrences(n.out_que_, FramesWith(d)) \in Nat
      BY HeldIsNat
    <3> QED BY <2>3, <2>4, <3>1 DEF Held
  <2>7. /\ Aging(n) => Aging(m)
        /\ \A k : Knows(n, k) => Knows(m, k)
    BY <1>2, <2>1 DEF Aging, Knows
  <2>8. Heard(n, m)
    BY <2>1, <2>3, <2>4, <2>5, <2>6, <2>7 DEF Heard
  <2> QED BY <1>1, <1>3, <1>4, <1>7, <2>3, <2>8
<1> QED BY <1>6, <1>7

LEMMA ReplyHeard ==
    ASSUME NEW h \in Host, NEW n \in Interfaces(h), SameKeys(n),
           NEW msg \in HonestReplies
    PROVE  LET m == ReceiveReply(n, msg)
           IN  /\ Heard(n, m)
               /\ \A k \in Host : msg.sender_ip_address = IPOf(k) =>
                     Waiting(m, IPOf(k)) = <<>> /\ Knows(m, IPOf(k))
<1> PICK g \in Host, t \in Host :
       msg = ARPMessage("REPLY", EthOf(g), IPOf(g), EthOf(t), IPOf(t))
  BY DEF HonestReplies
<1> DEFINE s == Learned(n, EthOf(g), IPOf(g))
           l == Learned(s, EthOf(t), IPOf(t))
           m == Flushed(l, IPOf(g))
<1>1. /\ msg.sender_ethernet_address = EthOf(g)
      /\ msg.sender_ip_address = IPOf(g)
      /\ msg.target_ethernet_address = EthOf(t)
      /\ msg.target_ip_address = IPOf(t)
  BY DEF ARPMessage
<1>2. ReceiveReply(n, msg) = m
  BY <1>1 DEF ReceiveReply
<1>3. /\ s \in Interfaces(h) /\ SameKeys(s)
      /\ s.out_que_ = n.out_que_ /\ s.wait_map = n.wait_map
      /\ s.arpreq_survival_map_ = n.arpreq_survival_map_
      /\ \A k : Knows(n, k) => Knows(s, k)
      /\ Knows(s, IPOf(g))
      /\ Aging(n) => Aging(s)
  BY LearnIs, LearnKeeps
<1> HIDE DEF s
<1>4. /\ l \in Interfaces(h)
      /\ l.out_que_ = s.out_que_ /\ l.wait_map = s.wait_map
      /\ l.arpreq_survival_map_ = s.arpreq_survival_map_
      /\ \A k : Knows(s, k) => Knows(l, k)
      /\ Aging(s) => Aging(l)
  BY <1>3, LearnIs, LearnKeeps
<1> HIDE DEF l
<1>5. /\ \A k : Waiting(l, k) = Waiting(n, k)
      /\ \A st : Placed(n, st) => Placed(l, st)
      /\ \A d, dst : Held(l, d, dst) = Held(n, d, dst)
  <2>1. l.out_que_ = n.out_que_ /\ l.wait_map = n.wait_map
    BY <1>3, <1>4
  <2> QED BY <2>1, SameQueues
<1>6. /\ m.arp_ip2eth_map_ = l.arp_ip2eth_map_
      /\ m.arp_valid_time_map_ = l.arp_valid_time_map_
      /\ m.arpreq_survival_map_ = l.arpreq_survival_map_
      /\ Waiting(m, IPOf(g)) = <<>>
      /\ \A k : k # IPOf(g) => Waiting(m, k) = Waiting(l, k)
      /\ Grows(l.out_que_, m.out_que_)
      /\ \A st : Placed(l, st) =>
            /\ Placed(m, st)
            /\ \A d : st[d] \in Host => Held(m, d, st[d]) = Held(l, d, st[d])
  BY <1>3, <1>4, FlushIs
<1> HIDE DEF m
<1>7. \A k : Knows(l, k) => Knows(m, k)
  BY <1>6 DEF Knows
<1>8. Aging(l) => Aging(m)
  BY <1>6 DEF Aging
<1>9. \A k : Waiting(m, k) \in {Waiting(n, k), <<>>}
  BY <1>5, <1>6
<1>10. Heard(n, m)
  BY <1>3, <1>4, <1>5, <1>6, <1>7, <1>8, <1>9 DEF Heard
<1> QED BY <1>1, <1>2, <1>3, <1>4, <1>6, <1>7, <1>10

LEMMA ReceiveIs ==
    ASSUME NEW h \in Host, NEW n \in Interfaces(h), SameKeys(n),
           NEW frame \in HonestFrames
    PROVE  LET m == recv_frame(n, frame)
           IN  /\ Heard(n, m)
               /\ \A k \in Host : frame = Question(k, h) =>
                     \E i \in DOMAIN m.out_que_ : Answers(m.out_que_[i], k, h)
               /\ \A k \in Host : Answers(frame, h, k) =>
                     Waiting(m, IPOf(k)) = <<>> /\ Knows(m, IPOf(k))
<1>1. /\ IsRequest(frame) => frame.payload \in HonestRequests
      /\ IsReply(frame) => frame.payload \in HonestReplies
      /\ ~(IsRequest(frame) /\ IsReply(frame))
  BY HonestPayload DEF IsRequest, IsReply
<1>2. n.ethernet_address_ = EthOf(h)
  BY Fields
<1>3. ASSUME NEW k \in Host, frame = Question(k, h)
      PROVE  /\ ForMe(n, frame) /\ IsRequest(frame)
             /\ frame.payload.sender_ethernet_address = EthOf(k)
             /\ frame.payload.target_ip_address = IPOf(h)
  BY <1>3 DEF Question, Frame, ARPMessage, ForMe, IsRequest
<1>4. ASSUME NEW k \in Host, Answers(frame, h, k)
      PROVE  /\ ForMe(n, frame) /\ IsReply(frame)
             /\ frame.payload.sender_ip_address = IPOf(k)
  BY <1>2, <1>4 DEF Answers, ForMe
<1>5. CASE ForMe(n, frame) /\ IsRequest(frame)
  <2> DEFINE m == ReceiveRequest(n, frame.payload)
  <2>1. recv_frame(n, frame) = m
    BY <1>1, <1>5 DEF recv_frame
  <2>2. /\ Heard(n, m)
        /\ \A k \in Host :
              (/\ frame.payload.sender_ethernet_address = EthOf(k)
               /\ frame.payload.target_ip_address = IPOf(h)) =>
                  \E i \in DOMAIN m.out_que_ : Answers(m.out_que_[i], k, h)
    BY <1>1, <1>5, RequestHeard
  <2> HIDE DEF m
  <2> QED BY <1>1, <1>3, <1>4, <1>5, <2>1, <2>2
<1>6. CASE ForMe(n, frame) /\ IsReply(frame)
  <2> DEFINE m == ReceiveReply(n, frame.payload)
  <2>1. recv_frame(n, frame) = m
    BY <1>1, <1>6 DEF recv_frame
  <2>2. /\ Heard(n, m)
        /\ \A k \in Host : frame.payload.sender_ip_address = IPOf(k) =>
              Waiting(m, IPOf(k)) = <<>> /\ Knows(m, IPOf(k))
    BY <1>1, <1>6, ReplyHeard
  <2> HIDE DEF m
  <2> QED BY <1>1, <1>3, <1>4, <1>6, <2>1, <2>2
<1>7. CASE ~(ForMe(n, frame) /\ IsRequest(frame))
           /\ ~(ForMe(n, frame) /\ IsReply(frame))
  <2>1. recv_frame(n, frame) = n
    BY <1>7 DEF recv_frame
  <2>2. Heard(n, n)
    BY DEF Heard, Grows
  <2> QED BY <1>3, <1>4, <1>7, <2>1, <2>2
<1> QED BY <1>5, <1>6, <1>7

(* tick() leaves datagrams where they are; what a request is remembered for  *)
(* stays known if it was, because mappings live at least as long.            *)
LEMMA TickIs ==
    ASSUME NEW h \in Host, NEW n \in Interfaces(h), SameKeys(n), NEW ms \in Nat
    PROVE  LET m == tick(n, ms)
           IN  /\ m.out_que_ = n.out_que_ /\ m.wait_map = n.wait_map
               /\ DOMAIN m.arpreq_survival_map_ \subseteq
                      DOMAIN n.arpreq_survival_map_
               /\ Aging(n) => Aging(m)
               /\ Aging(n) => \A ip \in DOMAIN m.arpreq_survival_map_ :
                                  Knows(n, ip) => Knows(m, ip)
<1> DEFINE ages  == n.arp_valid_time_map_
           old   == n.arpreq_survival_map_
           young == StillYoung(ages, ms, MaxArpMapTime)
           fresh == StillYoung(old, ms, MaxArpReqTime)
           times == Aged(ages, ms, MaxArpMapTime)
           reqs  == Aged(old, ms, MaxArpReqTime)
           arp   == Unexpired(n, ms)
           m     == tick(n, ms)
<1>1. /\ ages \in Tables(IPs, 0 .. MaxArpMapTime - 1)
      /\ old \in Tables(IPs, 0 .. MaxArpReqTime - 1)
      /\ MaxArpMapTime \in Nat /\ MaxArpReqTime \in Nat
      /\ MaxArpReqTime <= MaxArpMapTime
  BY Fields, InterfaceAssumption
<1>2. /\ DOMAIN times = young /\ DOMAIN reqs = fresh
      /\ \A ip \in young : times[ip] = ages[ip] + ms
      /\ \A ip \in fresh : reqs[ip] = old[ip] + ms
      /\ young = {ip \in DOMAIN ages : ages[ip] + ms < MaxArpMapTime}
      /\ fresh = {ip \in DOMAIN old : old[ip] + ms < MaxArpReqTime}
  BY DEF Aged, StillYoung
<1>3. DOMAIN arp = DOMAIN n.arp_ip2eth_map_ \cap (DOMAIN n.arp_ip2eth_map_
                       \ (DOMAIN ages \ young))
  <2> HIDE DEF young
  <2> QED BY DEF Unexpired, Restrict, young
<1> HIDE DEF times, reqs, young, fresh, arp
<1>4. /\ m.out_que_ = n.out_que_ /\ m.wait_map = n.wait_map
      /\ m.arp_ip2eth_map_ = arp /\ m.arp_valid_time_map_ = times
      /\ m.arpreq_survival_map_ = reqs
  <2>1. m = [n EXCEPT !.arp_ip2eth_map_ = arp, !.arp_valid_time_map_ = times,
                      !.arpreq_survival_map_ = reqs]
    BY DEF tick, arp, times, reqs, Interfaces
  <2> HIDE DEF m
  <2> QED BY <2>1 DEF Interfaces
<1> HIDE DEF m
<1>5. /\ \A ip \in DOMAIN ages : ages[ip] \in Nat
      /\ \A ip \in DOMAIN old : old[ip] \in Nat
  <2> HIDE DEF ages, old
  <2>1. /\ \A ip \in DOMAIN ages : ages[ip] \in 0 .. MaxArpMapTime - 1
        /\ \A ip \in DOMAIN old : old[ip] \in 0 .. MaxArpReqTime - 1
    BY <1>1, TableFacts
  <2> QED BY <1>1, <2>1
<1>6. ASSUME Aging(n), NEW ip \in DOMAIN ages, ip \in DOMAIN old
      PROVE  ages[ip] <= old[ip]
  BY <1>6 DEF Aging
<1> HIDE DEF ages, old
<1>7. ASSUME Aging(n), NEW ip \in young, ip \in fresh
      PROVE  times[ip] <= reqs[ip]
  <2>1. ip \in DOMAIN ages /\ ip \in DOMAIN old
    BY <1>2, <1>7
  <2>2. ages[ip] <= old[ip] /\ ages[ip] \in Nat /\ old[ip] \in Nat
    BY <1>5, <1>6, <1>7, <2>1
  <2> QED BY <1>2, <1>7, <2>2
<1>8. ASSUME Aging(n), NEW ip \in fresh, ip \in DOMAIN ages PROVE ip \in young
  <2>1. ip \in DOMAIN old /\ old[ip] + ms < MaxArpReqTime
    BY <1>2
  <2>2. ages[ip] <= old[ip] /\ ages[ip] \in Nat /\ old[ip] \in Nat
    BY <1>5, <1>6, <1>8, <2>1
  <2>3. ages[ip] + ms < MaxArpMapTime
    BY <1>1, <2>1, <2>2
  <2> QED BY <1>2, <1>8, <2>3
<1>9. DOMAIN n.arp_ip2eth_map_ = DOMAIN ages
  BY DEF SameKeys, ages
<1> QED BY <1>2, <1>3, <1>4, <1>7, <1>8, <1>9 DEF Aging, Knows, m, old

(* maybe_send() takes the first frame and leaves the others.                 *)
LEMMA TransmitIs ==
    ASSUME NEW h \in Host, NEW n \in Interfaces(h), CanSend(n)
    PROVE  LET m == maybe_send(n)
               frame == NextFrame(n)
           IN  /\ m.arpreq_survival_map_ = n.arpreq_survival_map_
               /\ m.arp_ip2eth_map_ = n.arp_ip2eth_map_
               /\ m.arp_valid_time_map_ = n.arp_valid_time_map_
               /\ m.wait_map = n.wait_map
               /\ \A i \in DOMAIN n.out_que_ :
                     \/ n.out_que_[i] = frame
                     \/ \E j \in DOMAIN m.out_que_ : m.out_que_[j] = n.out_que_[i]
               /\ \A st : Placed(n, st) => Placed(m, st) /\ Addressed(frame, st)
               /\ \A d, dst : Held(n, d, dst) =
                     (IF IsData(frame) /\ frame.payload = d THEN 1 ELSE 0)
                     + Held(m, d, dst)
<1> DEFINE queue == n.out_que_
           rest  == Tail(queue)
           first == Head(queue)
           m     == [n EXCEPT !.out_que_ = rest]
<1>1. queue \in Seq(HonestFrames) /\ queue # <<>>
  BY Fields DEF CanSend
<1>2. /\ Len(queue) \in Nat /\ Len(queue) > 0 /\ DOMAIN queue = 1..Len(queue)
      /\ first \in HonestFrames /\ first = queue[1]
      /\ rest \in Seq(HonestFrames) /\ Len(rest) = Len(queue) - 1
      /\ DOMAIN rest = 1..Len(rest)
      /\ \A i \in 1..Len(rest) : rest[i] = queue[i + 1]
  <2> HIDE DEF queue
  <2>1. /\ first \in HonestFrames /\ rest \in Seq(HonestFrames)
        /\ Len(rest) = Len(queue) - 1 /\ first = queue[1]
        /\ \A i \in 1..Len(rest) : rest[i] = queue[i + 1]
    BY <1>1, HeadTailProperties, EmptySeq
  <2>2. Len(queue) \in Nat /\ Len(queue) # 0 /\ DOMAIN queue = 1..Len(queue)
    BY <1>1, LenProperties, EmptySeq
  <2>3. DOMAIN rest = 1..Len(rest)
    BY <2>1, LenProperties
  <2> QED BY <2>1, <2>2, <2>3
<1>3. \A V : Occurrences(queue, V) =
                 (IF first \in V THEN 1 ELSE 0) + Occurrences(rest, V)
  <2> HIDE DEF queue
  <2> QED BY <1>1, OccurrencesInTail
<1>4. \A d : first \in FramesWith(d) <=> IsData(first) /\ first.payload = d
  BY <1>2 DEF FramesWith
<1>5. /\ maybe_send(n) = m /\ NextFrame(n) = first
  BY DEF maybe_send, NextFrame
<1> HIDE DEF rest, first
<1>6. /\ m.out_que_ = rest
      /\ m.arpreq_survival_map_ = n.arpreq_survival_map_
      /\ m.arp_ip2eth_map_ = n.arp_ip2eth_map_
      /\ m.arp_valid_time_map_ = n.arp_valid_time_map_
      /\ m.wait_map = n.wait_map
  BY DEF Interfaces
<1> HIDE DEF m
<1>7. \A k : Waiting(m, k) = Waiting(n, k)
  BY <1>6 DEF Waiting
<1>8. ASSUME NEW i \in DOMAIN queue
      PROVE  queue[i] = first \/ \E j \in DOMAIN rest : rest[j] = queue[i]
  <2>1. i = 1 \/ i - 1 \in 1..Len(rest)
    BY <1>2
  <2>2. CASE i - 1 \in 1..Len(rest)
    <3>1. (i - 1) + 1 = i
      BY <1>2
    <3>2. rest[i - 1] = queue[(i - 1) + 1]
      BY <1>2, <2>2
    <3>3. rest[i - 1] = queue[i]
      BY <3>1, <3>2
    <3> QED BY <1>2, <2>2, <3>3
  <2> QED BY <1>2, <2>1, <2>2
<1>9. ASSUME NEW st, Placed(n, st) PROVE Placed(m, st) /\ Addressed(first, st)
  <2>1. \A i \in DOMAIN queue : Addressed(queue[i], st)
    BY <1>9 DEF Placed
  <2>2. \A i \in DOMAIN rest : i + 1 \in DOMAIN queue /\ rest[i] = queue[i + 1]
    BY <1>2
  <2>3. 1 \in DOMAIN queue
    BY <1>2
  <2> QED BY <1>2, <1>6, <1>7, <1>9, <2>1, <2>2, <2>3 DEF Placed
<1>10. ASSUME NEW d, NEW dst
       PROVE  Held(n, d, dst) =
                  (IF IsData(first) /\ first.payload = d THEN 1 ELSE 0)
                  + Held(m, d, dst)
  <2> DEFINE x == Occurrences(queue, FramesWith(d))
             y == Occurrences(rest, FramesWith(d))
             z == Occurrences(Waiting(n, IPOf(dst)), {d})
             k == IF IsData(first) /\ first.payload = d THEN 1 ELSE 0
  <2>1. x = k + y
    BY <1>3, <1>4
  <2>2. Held(n, d, dst) = x + z /\ Held(m, d, dst) = y + z
    BY <1>6, <1>7 DEF Held
  <2>3. x \in Nat /\ z \in Nat
    BY HeldIsNat
  <2>4. y \in Nat /\ k \in {0, 1}
    BY <1>2, OccurrencesAre
  <2> HIDE DEF x, y, z
  <2>5. x + z = k + (y + z)
    BY <2>1, <2>3, <2>4
  <2> QED BY <2>2, <2>5
<1> QED BY <1>5, <1>6, <1>8, <1>9, <1>10

---------------------------------------------------------------------------
(* Copies on the segment.                                                    *)
LEMMA CopiesAdded ==
    ASSUME NEW bag, NEW S
    PROVE  /\ DOMAIN (bag (+) SetToBag(S)) = DOMAIN bag \cup S
           /\ \A c \in DOMAIN bag \ S : (bag (+) SetToBag(S))[c] = bag[c] + 0
           /\ \A c \in DOMAIN bag \cap S : (bag (+) SetToBag(S))[c] = bag[c] + 1
           /\ \A c \in S \ DOMAIN bag : (bag (+) SetToBag(S))[c] = 1
BY DEF (+), SetToBag

LEMMA CopyRemoved ==
    ASSUME NEW bag, NEW c \in DOMAIN bag,
           \A e \in DOMAIN bag : bag[e] \in Nat \ {0}
    PROVE  /\ DOMAIN (bag (-) One(c)) =
                  DOMAIN bag \ (IF bag[c] = 1 THEN {c} ELSE {})
           /\ \A e \in DOMAIN (bag (-) One(c)) :
                 (bag (-) One(c))[e] = IF e = c THEN bag[e] - 1 ELSE bag[e]
<1> DEFINE b == [e \in DOMAIN bag |-> IF e \in {c} THEN bag[e] - 1 ELSE bag[e]]
<1>1. bag (-) One(c) = [e \in {d \in DOMAIN b : b[d] > 0} |-> b[e]]
  BY DEF (-), One, SetToBag
<1>2. \A e \in DOMAIN bag : b[e] > 0 <=> ~(e = c /\ bag[e] = 1)
  OBVIOUS
<1>3. {d \in DOMAIN b : b[d] > 0} = DOMAIN bag \ (IF bag[c] = 1 THEN {c} ELSE {})
  BY <1>2
<1>4. \A e \in DOMAIN bag : b[e] = IF e = c THEN bag[e] - 1 ELSE bag[e]
  OBVIOUS
<1> HIDE DEF b
<1> QED BY <1>1, <1>3, <1>4

(* The copies of a datagram that its host is yet to hear, and whether it was *)
(* passed up there already.                                                  *)
Arriving(dgram) ==
    {copy \in DOMAIN wire : /\ copy.to = sent[dgram] /\ IsData(copy.frame)
                            /\ copy.frame.payload = dgram}
Arrived(dgram) == Contains(received[sent[dgram]], dgram)

HeldBy(h, dgram) == Held(nif[h], dgram, sent[dgram])

(* A datagram is in one place only: with one host, once, or in one copy on   *)
(* the segment, or passed up, or lost.                                       *)
Single(dgram) ==
    /\ \A h \in Host : HeldBy(h, dgram) \in {0, 1}
    /\ \A h, g \in Host : HeldBy(h, dgram) = 1 /\ HeldBy(g, dgram) = 1 => h = g
    /\ \A h \in Host : HeldBy(h, dgram) = 1 =>
                           Arriving(dgram) = {} /\ ~Arrived(dgram)
    /\ \A c \in Arriving(dgram) : wire[c] = 1
    /\ \A b, c \in Arriving(dgram) : b = c
    /\ Arriving(dgram) # {} => ~Arrived(dgram)

Copies  == \A copy \in DOMAIN wire : wire[copy] \in Nat \ {0}
AllSent ==
    /\ \A copy \in DOMAIN wire : Addressed(copy.frame, sent)
    /\ \A h \in Host : Placed(nif[h], sent)
    /\ \A h \in Host : \A i \in DOMAIN received[h] : received[h][i] \in DOMAIN sent
ServiceInv ==
    /\ Copies /\ AllSent
    /\ \A dgram \in DOMAIN sent : sent[dgram] \in Host
    /\ received \in [Host -> Seq(Datagram)]
    /\ \A dgram \in DOMAIN sent : Single(dgram)

(* Nothing becomes more than it was by staying where it is or getting lost.  *)
LEMMA SingleStays ==
    ASSUME NEW dgram, Single(dgram), sent'[dgram] = sent[dgram],
           \A h \in Host : HeldBy(h, dgram)' = HeldBy(h, dgram),
           Arriving(dgram)' \subseteq Arriving(dgram),
           \A c \in Arriving(dgram)' : wire'[c] = wire[c],
           Arrived(dgram)' <=> Arrived(dgram)
    PROVE  Single(dgram)'
BY DEF Single

LEMMA ServiceInit == ASSUME Init PROVE ServiceInv
<1>1. DOMAIN wire = {} /\ DOMAIN sent = {}
  BY DEF Init, EmptyBag, SetToBag, EmptyMap
<1>2. received = [h \in Host |-> <<>>]
  BY DEF Init
<1>3. \A h \in Host : DOMAIN received[h] = {}
  BY <1>2
<1>4. received \in [Host -> Seq(Datagram)]
  BY <1>2, EmptySeq
<1>5. ASSUME NEW h \in Host PROVE Placed(nif[h], sent)
  <2>1. nif[h].wait_map = EmptyMap /\ nif[h].out_que_ = <<>>
    BY DEF Init, NewInterface
  <2>2. \A ip : Waiting(nif[h], ip) = <<>>
    BY <2>1 DEF Waiting, EmptyMap
  <2> QED BY <2>1, <2>2, EmptySeq DEF Placed
<1> QED BY <1>1, <1>3, <1>4, <1>5 DEF ServiceInv, Copies, AllSent

LEMMA PlacedGrows ==
    ASSUME NEW st, NEW st2, DOMAIN st \subseteq DOMAIN st2,
           \A d \in DOMAIN st : st2[d] = st[d]
    PROVE  /\ \A n : Placed(n, st) => Placed(n, st2)
           /\ \A frame : Addressed(frame, st) => Addressed(frame, st2)
BY DEF Placed, Addressed

LEMMA NotHeldBefore ==
    ASSUME NEW h \in Host, NEW n \in Interfaces(h), NEW st, Placed(n, st),
           NEW dgram, dgram \notin DOMAIN st, NEW dst \in Host
    PROVE  Held(n, dgram, dst) = 0
<1>1. n.out_que_ \in Seq(HonestFrames) /\ Waiting(n, IPOf(dst)) \in Seq(Datagram)
  BY Fields, Queue
<1>2. \A i \in DOMAIN n.out_que_ : n.out_que_[i] \notin FramesWith(dgram)
  BY DEF Placed, Addressed, FramesWith
<1>3. \A i \in DOMAIN Waiting(n, IPOf(dst)) :
         Waiting(n, IPOf(dst))[i] \notin {dgram}
  BY DEF Placed
<1>4. /\ Occurrences(n.out_que_, FramesWith(dgram)) = 0
      /\ Occurrences(Waiting(n, IPOf(dst)), {dgram}) = 0
  BY <1>1, <1>2, <1>3, OccurrencesAre
<1> QED BY <1>4 DEF Held

LEMMA SendServes ==
    ASSUME IInv, ServiceInv, NEW h \in Host, NEW dst \in Host,
           NEW dgram \in Datagram, StackSends(h, dgram, dst)
    PROVE  ServiceInv'
<1> DEFINE m == send_datagram(nif[h], dgram, IPOf(dst))
<1>1. /\ dgram \notin DOMAIN sent /\ sent' = Put(sent, dgram, dst)
      /\ nif' = [nif EXCEPT ![h] = m]
      /\ wire' = wire /\ received' = received
  BY DEF StackSends
<1>2. /\ DOMAIN sent' = DOMAIN sent \cup {dgram} /\ sent'[dgram] = dst
      /\ \A d \in DOMAIN sent : sent'[d] = sent[d]
  BY <1>1 DEF Put
<1>3. \A k \in Host : nif[k] \in Interfaces(k) /\ Placed(nif[k], sent)
  BY DEF IInv, InterfacesInv, ServiceInv, AllSent
<1>4. \A k \in Host : Placed(nif[k], sent')
  BY <1>2, <1>3, PlacedGrows
<1>5. /\ nif'[h] = m /\ \A k \in Host \ {h} : nif'[k] = nif[k]
  BY <1>1 DEF IInv, InterfacesInv
<1>6. /\ Placed(m, sent')
      /\ \A d : Held(m, d, sent'[d]) = Held(nif[h], d, sent'[d])
                                       + (IF d = dgram THEN 1 ELSE 0)
  <2> DEFINE st == sent'
  <2>1. Placed(nif[h], st) /\ dgram \in DOMAIN st /\ st[dgram] = dst
    BY <1>2, <1>4
  <2> HIDE DEF st
  <2>2. /\ Placed(m, st)
        /\ \A d : Held(m, d, st[d]) = Held(nif[h], d, st[d])
                                      + (IF d = dgram THEN 1 ELSE 0)
    BY <1>3, <2>1, SendIs
  <2> QED BY <2>2 DEF st
<1> HIDE DEF m
<1>7. Copies' /\ AllSent'
  <2>1. \A copy \in DOMAIN wire' : Addressed(copy.frame, sent')
    BY <1>1, <1>2, PlacedGrows DEF ServiceInv, AllSent
  <2>2. \A k \in Host : Placed(nif'[k], sent')
    BY <1>4, <1>5, <1>6
  <2> QED BY <1>1, <1>2, <2>1, <2>2 DEF ServiceInv, AllSent, Copies
<1>8. ASSUME NEW d \in DOMAIN sent PROVE Single(d)'
  <2>1. Single(d) /\ d # dgram /\ sent'[d] = sent[d]
    BY <1>1, <1>2 DEF ServiceInv
  <2>2. ASSUME NEW k \in Host PROVE HeldBy(k, d)' = HeldBy(k, d)
    <3>1. CASE k = h
      <4>1. Held(m, d, sent'[d]) = Held(nif[h], d, sent'[d]) + 0
        BY <1>6, <2>1
      <4>2. Held(nif[h], d, sent'[d]) \in Nat
        BY <1>3, HeldIsNat
      <4> QED BY <1>5, <2>1, <3>1, <4>1, <4>2 DEF HeldBy
    <3>2. CASE k # h
      BY <1>5, <2>1, <3>2 DEF HeldBy
    <3> QED BY <3>1, <3>2
  <2>3. Arriving(d)' = Arriving(d) /\ (Arrived(d)' <=> Arrived(d))
    BY <1>1, <2>1 DEF Arriving, Arrived
  <2> QED BY <1>1, <2>1, <2>2, <2>3, SingleStays
<1>9. Single(dgram)'
  <2>1. \A k \in Host : Held(nif[k], dgram, dst) = 0
    BY <1>1, <1>3, NotHeldBefore
  <2>2. \A k \in Host : HeldBy(k, dgram)' = IF k = h THEN 1 ELSE 0
    <3>1. Held(m, dgram, dst) = Held(nif[h], dgram, dst) + 1
      BY <1>2, <1>6
    <3> QED BY <1>2, <1>5, <2>1, <3>1 DEF HeldBy
  <2>3. Arriving(dgram)' = {}
    BY <1>1 DEF Arriving, ServiceInv, AllSent, Addressed
  <2>4. ~Arrived(dgram)'
    <3>1. received[dst] \in Seq(Datagram)
      BY DEF ServiceInv
    <3>2. \A i \in 1..Len(received[dst]) : received[dst][i] # dgram
      BY <1>1, <3>1, LenProperties DEF ServiceInv, AllSent
    <3> QED BY <1>1, <1>2, <3>2 DEF Arrived, Contains
  <2> QED BY <2>2, <2>3, <2>4 DEF Single
<1>10. \A d \in DOMAIN sent' : sent'[d] \in Host
  BY <1>2 DEF ServiceInv
<1> QED BY <1>1, <1>2, <1>7, <1>8, <1>9, <1>10 DEF ServiceInv

LEMMA TransmitServes ==
    ASSUME IInv, ServiceInv, NEW h \in Host, HostTransmits(h)
    PROVE  ServiceInv'
<1> DEFINE m      == maybe_send(nif[h])
           frame  == NextFrame(nif[h])
           copies == {[to |-> g, frame |-> frame] : g \in Host \ {h}}
<1>1. /\ CanSend(nif[h]) /\ wire' = wire (+) SetToBag(copies)
      /\ nif' = [nif EXCEPT ![h] = m] /\ sent' = sent /\ received' = received
  BY DEF HostTransmits
<1>2. \A k \in Host : nif[k] \in Interfaces(k) /\ Placed(nif[k], sent)
  BY DEF IInv, InterfacesInv, ServiceInv, AllSent
<1>3. /\ nif'[h] = m /\ \A k \in Host \ {h} : nif'[k] = nif[k]
  BY <1>1 DEF IInv, InterfacesInv
<1>4. /\ Placed(m, sent) /\ Addressed(frame, sent)
      /\ \A d, dst : Held(nif[h], d, dst) =
            (IF IsData(frame) /\ frame.payload = d THEN 1 ELSE 0) + Held(m, d, dst)
  BY <1>1, <1>2, TransmitIs
<1> HIDE DEF m, frame
<1>5. /\ DOMAIN wire' = DOMAIN wire \cup copies
      /\ \A c \in DOMAIN wire \ copies : wire'[c] = wire[c] + 0
      /\ \A c \in DOMAIN wire \cap copies : wire'[c] = wire[c] + 1
      /\ \A c \in copies \ DOMAIN wire : wire'[c] = 1
  <2> HIDE DEF copies
  <2> QED BY <1>1, CopiesAdded
<1>6. \A c \in copies : c.to \in Host \ {h} /\ c.frame = frame
                        /\ c = [to |-> c.to, frame |-> frame]
  OBVIOUS
<1> HIDE DEF copies
<1>7. Copies'
  BY <1>5 DEF Copies, ServiceInv
<1>8. AllSent'
  <2>1. \A c \in DOMAIN wire' : Addressed(c.frame, sent)
    BY <1>4, <1>5, <1>6 DEF ServiceInv, AllSent
  <2>2. \A k \in Host : Placed(nif'[k], sent)
    BY <1>2, <1>3, <1>4
  <2> QED BY <1>1, <2>1, <2>2 DEF ServiceInv, AllSent
<1>9. ASSUME NEW d \in DOMAIN sent PROVE Single(d)'
  <2>1. Single(d) /\ sent'[d] = sent[d] /\ (Arrived(d)' <=> Arrived(d))
    BY <1>1 DEF ServiceInv, Arrived
  <2>2. \A k \in Host \ {h} : HeldBy(k, d)' = HeldBy(k, d)
    BY <1>1, <1>3 DEF HeldBy
  <2>3. HeldBy(h, d)' = Held(m, d, sent[d]) /\ HeldBy(h, d)' \in Nat
    <3>1. m \in Interfaces(h)
      BY <1>1, <1>2, TransmitKeeps DEF m, IInv, InterfacesInv
    <3> QED BY <1>1, <1>3, <3>1, HeldIsNat DEF HeldBy
  <2>4. CASE ~(IsData(frame) /\ frame.payload = d)
    <3>1. HeldBy(h, d)' = HeldBy(h, d)
      BY <1>4, <2>3, <2>4 DEF HeldBy
    <3>2. Arriving(d)' \subseteq Arriving(d)
      BY <1>1, <1>5, <1>6, <2>4 DEF Arriving
    <3>3. \A c \in Arriving(d)' : wire'[c] = wire[c]
      <4> SUFFICES ASSUME NEW c \in Arriving(d)' PROVE wire'[c] = wire[c]
        OBVIOUS
      <4>1. c \in DOMAIN wire \ copies
        BY <1>6, <2>4, <3>2 DEF Arriving
      <4>2. wire[c] \in Nat
        BY <4>1 DEF ServiceInv, Copies
      <4> QED BY <1>5, <4>1, <4>2
    <3> QED BY <2>1, <2>2, <3>1, <3>2, <3>3, SingleStays
  <2>5. CASE IsData(frame) /\ frame.payload = d
    <3>1. HeldBy(h, d) = 1 /\ HeldBy(h, d)' = 0
      <4>1. HeldBy(h, d) = 1 + HeldBy(h, d)'
        BY <1>4, <2>3, <2>5 DEF HeldBy
      <4>2. HeldBy(h, d) \in {0, 1}
        BY <2>1 DEF Single
      <4> QED BY <2>3, <4>1, <4>2
    <3>2. \A k \in Host : HeldBy(k, d)' = 0
      BY <2>1, <2>2, <3>1 DEF Single
    <3>3. Arriving(d) = {} /\ ~Arrived(d)
      BY <2>1, <3>1 DEF Single
    <3>4. Arriving(d)' \subseteq {[to |-> sent[d], frame |-> frame]}
      BY <1>1, <1>5, <1>6, <3>3 DEF Arriving
    <3>5. \A c \in Arriving(d)' : wire'[c] = 1
      <4> SUFFICES ASSUME NEW c \in Arriving(d)' PROVE wire'[c] = 1
        OBVIOUS
      <4>1. c \notin DOMAIN wire /\ c \in DOMAIN wire'
        BY <1>1, <3>3 DEF Arriving
      <4> QED BY <1>5, <4>1
    <3> QED BY <2>1, <3>2, <3>3, <3>4, <3>5 DEF Single
  <2> QED BY <2>4, <2>5
<1> QED BY <1>1, <1>7, <1>8, <1>9 DEF ServiceInv

(* A copy that leaves the segment takes nothing else with it.                *)
LEMMA CopyGone ==
    ASSUME IInv, ServiceInv, NEW c \in DOMAIN wire, wire' = wire (-) One(c),
           sent' = sent
    PROVE  /\ Copies'
           /\ DOMAIN wire' \subseteq DOMAIN wire
           /\ \A copy \in DOMAIN wire' : Addressed(copy.frame, sent')
           /\ \A d \in DOMAIN sent :
                 /\ Arriving(d)' = Arriving(d) \ {c}
                 /\ \A e \in Arriving(d)' : wire'[e] = wire[e]
<1>1. \A e \in DOMAIN wire : wire[e] \in Nat \ {0}
  BY DEF ServiceInv, Copies
<1>2. /\ DOMAIN wire' = DOMAIN wire \ (IF wire[c] = 1 THEN {c} ELSE {})
      /\ \A e \in DOMAIN wire' :
            wire'[e] = IF e = c THEN wire[e] - 1 ELSE wire[e]
  BY <1>1, CopyRemoved
<1>3. Copies'
  <2> SUFFICES ASSUME NEW e \in DOMAIN wire' PROVE wire'[e] \in Nat \ {0}
    BY DEF Copies
  <2>1. e \in DOMAIN wire /\ (e = c => wire[e] # 1) /\ wire[e] \in Nat \ {0}
    BY <1>1, <1>2
  <2> QED BY <1>2, <2>1
<1>4. ASSUME NEW d \in DOMAIN sent
      PROVE  /\ Arriving(d)' = Arriving(d) \ {c}
             /\ \A e \in Arriving(d)' : wire'[e] = wire[e]
  <2>1. \A e \in Arriving(d) : wire[e] = 1
    BY DEF ServiceInv, Single
  <2>2. Arriving(d)' = Arriving(d) \ {c}
    BY <1>2, <2>1 DEF Arriving
  <2> QED BY <1>2, <2>2 DEF Arriving
<1> QED BY <1>2, <1>3, <1>4 DEF ServiceInv, AllSent

LEMMA LossServes == ASSUME IInv, ServiceInv, WireLoses PROVE ServiceInv'
<1> PICK copy \in BagToSet(wire) :
       /\ wire' = wire (-) One(copy)
       /\ nif' = nif /\ sent' = sent /\ received' = received
  BY DEF WireLoses
<1>1. copy \in DOMAIN wire
  BY DEF BagToSet
<1>2. /\ Copies' /\ DOMAIN wire' \subseteq DOMAIN wire
      /\ \A c \in DOMAIN wire' : Addressed(c.frame, sent')
      /\ \A d \in DOMAIN sent :
            /\ Arriving(d)' \subseteq Arriving(d)
            /\ \A e \in Arriving(d)' : wire'[e] = wire[e]
  BY <1>1, CopyGone
<1>3. ASSUME NEW d \in DOMAIN sent PROVE Single(d)'
  <2>1. Single(d) /\ (Arrived(d)' <=> Arrived(d))
        /\ \A h \in Host : HeldBy(h, d)' = HeldBy(h, d)
    BY DEF ServiceInv, Arrived, HeldBy
  <2> QED BY <1>2, <2>1, SingleStays
<1> QED BY <1>2, <1>3 DEF ServiceInv, AllSent

LEMMA TimeServes ==
    ASSUME IInv, ServiceInv, NEW h \in Host, NEW ms \in Nat, TimePasses(h, ms)
    PROVE  ServiceInv'
<1> DEFINE m == tick(nif[h], ms)
<1>1. /\ nif' = [nif EXCEPT ![h] = m]
      /\ wire' = wire /\ sent' = sent /\ received' = received
  BY DEF TimePasses
<1>2. nif[h] \in Interfaces(h) /\ SameKeys(nif[h])
  BY DEF IInv, InterfacesInv
<1>3. /\ nif'[h] = m /\ \A k \in Host \ {h} : nif'[k] = nif[k]
  BY <1>1 DEF IInv, InterfacesInv
<1>4. m.out_que_ = nif[h].out_que_ /\ m.wait_map = nif[h].wait_map
  BY <1>2, TickIs
<1> HIDE DEF m
<1>5. /\ \A st : Placed(nif[h], st) => Placed(m, st)
      /\ \A d, dst : Held(m, d, dst) = Held(nif[h], d, dst)
  BY <1>4, SameQueues
<1>6. AllSent' /\ Copies'
  BY <1>1, <1>3, <1>5 DEF ServiceInv, AllSent, Copies
<1>7. ASSUME NEW d \in DOMAIN sent PROVE Single(d)'
  <2>1. /\ Single(d) /\ (Arrived(d)' <=> Arrived(d)) /\ Arriving(d)' = Arriving(d)
        /\ \A k \in Host : HeldBy(k, d)' = HeldBy(k, d)
    BY <1>1, <1>3, <1>5 DEF ServiceInv, Arrived, Arriving, HeldBy
  <2> QED BY <1>1, <2>1, SingleStays
<1> QED BY <1>1, <1>6, <1>7 DEF ServiceInv

(* A datagram that is passed up is passed up where it was sent to, once.     *)
LEMMA HearServes ==
    ASSUME IInv, ServiceInv, NEW h \in Host, HostHears(h)
    PROVE  /\ ServiceInv'
           /\ sent' = sent
           /\ \/ received' = received
              \/ \E d \in Datagram :
                    /\ d \in DOMAIN sent /\ sent[d] = h
                    /\ ~Contains(received[h], d)
                    /\ received' = [received EXCEPT ![h] = Append(@, d)]
<1> PICK c \in BagToSet(wire) :
       /\ c.to = h
       /\ wire' = wire (-) One(c)
       /\ nif' = [nif EXCEPT ![h] = recv_frame(@, c.frame)]
       /\ received' = IF PassesUp(nif[h], c.frame)
                      THEN [received EXCEPT ![h] = Append(@, c.frame.payload)]
                      ELSE received
       /\ sent' = sent
  BY DEF HostHears
<1> DEFINE m == recv_frame(nif[h], c.frame)
<1>1. c \in DOMAIN wire /\ c.frame \in HonestFrames
  BY DEF BagToSet, IInv, WireInv
<1>2. nif[h] \in Interfaces(h) /\ SameKeys(nif[h]) /\ Placed(nif[h], sent)
  BY DEF IInv, InterfacesInv, ServiceInv, AllSent
<1>3. /\ nif'[h] = m /\ \A k \in Host \ {h} : nif'[k] = nif[k]
  BY DEF IInv, InterfacesInv
<1>4. Heard(nif[h], m)
  BY <1>1, <1>2, ReceiveIs
<1> HIDE DEF m
<1>5. /\ Placed(m, sent)
      /\ \A d \in DOMAIN sent : Held(m, d, sent[d]) = Held(nif[h], d, sent[d])
  BY <1>2, <1>4 DEF Heard, ServiceInv
<1>6. \A d \in DOMAIN sent : \A k \in Host : HeldBy(k, d)' = HeldBy(k, d)
  BY <1>3, <1>5 DEF HeldBy
<1>7. /\ Copies' /\ DOMAIN wire' \subseteq DOMAIN wire
      /\ \A e \in DOMAIN wire' : Addressed(e.frame, sent')
      /\ \A d \in DOMAIN sent :
            /\ Arriving(d)' = Arriving(d) \ {c}
            /\ \A e \in Arriving(d)' : wire'[e] = wire[e]
  BY <1>1, CopyGone
<1>8. \A k \in Host : Placed(nif'[k], sent)
  BY <1>3, <1>5 DEF ServiceInv, AllSent
<1>9. CASE ~PassesUp(nif[h], c.frame)
  <2>1. received' = received
    BY <1>9
  <2>2. ASSUME NEW d \in DOMAIN sent PROVE Single(d)'
    <3>1. Single(d) /\ (Arrived(d)' <=> Arrived(d))
      BY <2>1 DEF ServiceInv, Arrived
    <3> QED BY <1>6, <1>7, <3>1, SingleStays
  <2> QED BY <1>7, <1>8, <2>1, <2>2 DEF ServiceInv, AllSent
<1>10. CASE PassesUp(nif[h], c.frame)
  <2> DEFINE p == c.frame.payload
  <2>1. /\ IsData(c.frame) /\ p \in DOMAIN sent /\ sent[p] \in Host
        /\ c.frame.dst = EthOf(sent[p])
        /\ c.frame.dst \in {EthOf(h), ETHERNET_BROADCAST}
    BY <1>1, <1>2, <1>10, Fields
       DEF PassesUp, ForMe, ServiceInv, AllSent, Addressed
  <2>2. sent[p] = h
    BY <2>1, AddressAssumption DEF EthOf
  <2>3. p \in Datagram
    BY <1>1, <2>1, HonestPayload
  <2> HIDE DEF p
  <2>4. c \in Arriving(p) /\ Single(p)
    BY <1>1, <2>1, <2>2 DEF Arriving, ServiceInv, p
  <2>5. /\ ~Contains(received[h], p)
        /\ Arriving(p)' = {}
        /\ \A k \in Host : HeldBy(k, p)' = 0
    <3>1. Arriving(p) = {c} /\ ~Arrived(p)
      BY <2>4 DEF Single
    <3>2. \A k \in Host : HeldBy(k, p) = 0
      BY <2>4 DEF Single
    <3> QED BY <1>6, <1>7, <2>1, <2>2, <3>1, <3>2 DEF Arrived
  <2>6. received' = [received EXCEPT ![h] = Append(@, p)]
    BY <1>10 DEF p
  <2>7. received[h] \in Seq(Datagram) /\ DOMAIN received = Host
    BY DEF ServiceInv
  <2>8. /\ received'[h] = Append(received[h], p)
        /\ \A k \in Host \ {h} : received'[k] = received[k]
    BY <2>6, <2>7
  <2>9. /\ Append(received[h], p) \in Seq(Datagram)
        /\ \A i \in DOMAIN Append(received[h], p) :
              \/ i \in DOMAIN received[h]
                 /\ Append(received[h], p)[i] = received[h][i]
              \/ Append(received[h], p)[i] = p
    BY <2>3, <2>7, AppendedDatagram, AppendProperties
  <2>10. \A d : d # p => (Contains(received'[h], d) <=> Contains(received[h], d))
    <3> DEFINE q == received[h]
    <3>1. q \in Seq(Datagram)
      BY <2>7
    <3> HIDE DEF q
    <3>2. /\ Len(q) \in Nat /\ Len(Append(q, p)) = Len(q) + 1
          /\ Append(q, p)[Len(q) + 1] = p
          /\ \A i \in 1..Len(q) : Append(q, p)[i] = q[i]
      BY <2>3, <3>1, AppendProperties
    <3>3. \A i \in 1..(Len(q) + 1) : i \in 1..Len(q) \/ i = Len(q) + 1
      BY <3>2
    <3>4. \A i \in 1..Len(q) : i \in 1..(Len(q) + 1)
      BY <3>2
    <3>5. \A d : d # p => (Contains(Append(q, p), d) <=> Contains(q, d))
      BY <3>2, <3>3, <3>4 DEF Contains
    <3> QED BY <2>8, <3>5 DEF q
  <2>11. ASSUME NEW d \in DOMAIN sent PROVE Single(d)'
    <3>1. CASE d = p
      BY <2>5, <3>1 DEF Single
    <3>2. CASE d # p
      <4>1. (Arrived(d)' <=> Arrived(d))
        <5>1. Contains(received'[sent[d]], d) <=> Contains(received[sent[d]], d)
          BY <2>8, <2>10, <3>2 DEF ServiceInv
        <5>2. sent'[d] = sent[d]
          OBVIOUS
        <5> QED BY <5>1, <5>2 DEF Arrived
      <4>2. Single(d)
        BY DEF ServiceInv
      <4> QED BY <1>6, <1>7, <4>1, <4>2, SingleStays
    <3> QED BY <3>1, <3>2
  <2>12. AllSent'
    <3>1. ASSUME NEW k \in Host, NEW i \in DOMAIN received'[k]
          PROVE  received'[k][i] \in DOMAIN sent
      BY <2>1, <2>8, <2>9, <3>1 DEF ServiceInv, AllSent, p
    <3> QED BY <1>7, <1>8, <3>1 DEF AllSent
  <2>13. received' \in [Host -> Seq(Datagram)]
    BY <2>6, <2>9 DEF ServiceInv
  <2>14. ServiceInv'
    BY <1>7, <2>11, <2>12, <2>13 DEF ServiceInv
  <2> QED BY <2>1, <2>2, <2>3, <2>5, <2>6, <2>14 DEF p
<1> QED BY <1>9, <1>10

LEMMA ServiceNext ==
    IInv /\ ServiceInv /\ [Next]_vars => ServiceInv'
<1> SUFFICES ASSUME IInv, ServiceInv, [Next]_vars PROVE ServiceInv'
  OBVIOUS
<1>1. ASSUME NEW h \in Talkers, NEW dst \in Host, NEW dgram \in Datagram,
             StackSends(h, dgram, dst)
      PROVE  ServiceInv'
  BY <1>1, SendServes, LANAssumption
<1>2. ASSUME NEW h \in Host, HostTransmits(h) PROVE ServiceInv'
  BY <1>2, TransmitServes
<1>3. ASSUME NEW h \in Host, HostHears(h) PROVE ServiceInv'
  BY <1>3, HearServes
<1>4. ASSUME NEW h \in Talkers, NEW ms \in Ticks, TimePasses(h, ms)
      PROVE  ServiceInv'
  BY <1>4, TimeServes, LANAssumption
<1>5. CASE WireLoses
  BY <1>5, LossServes
<1>6. CASE UNCHANGED vars
  <2>1. Copies' /\ AllSent'
    BY <1>6 DEF vars, ServiceInv, Copies, AllSent
  <2>2. ASSUME NEW d \in DOMAIN sent PROVE Single(d)'
    BY <1>6 DEF vars, ServiceInv, Single, HeldBy, Arriving, Arrived
  <2> QED BY <1>6, <2>1, <2>2 DEF vars, ServiceInv
<1> QED BY <1>1, <1>2, <1>3, <1>4, <1>5, <1>6 DEF Next

LEMMA ServiceInvariance == Spec => [](IInv /\ ServiceInv)
<1>1. Init => IInv /\ ServiceInv
  BY InitIInv, ServiceInit
<1>2. IInv /\ ServiceInv /\ [Next]_vars => (IInv /\ ServiceInv)'
  BY NextIInv, ServiceNext
<1> QED BY <1>1, <1>2, PTL DEF Spec

(* Handing a datagram to the first interface is the service's Send, passing  *)
(* it up at the last one is its Deliver; whatever lies between does nothing  *)
(* that the service could see.                                               *)
LEMMA InitMaps == Init => Service!Init
BY DEF Init, Service!Init, EmptyMap

LEMMA StepMaps ==
    IInv /\ ServiceInv /\ [Next]_vars => [Service!Next]_(Service!vars)
<1> SUFFICES ASSUME IInv, ServiceInv, [Next]_vars
             PROVE  Service!Next \/ UNCHANGED <<sent, received>>
  BY DEF Service!vars
<1>1. ASSUME NEW h \in Talkers, NEW dst \in Host, NEW dgram \in Datagram,
             StackSends(h, dgram, dst)
      PROVE  Service!Next
  <2>1. sent' = Put(sent, dgram, dst) /\ dgram \notin DOMAIN sent
        /\ received' = received
    BY <1>1 DEF StackSends
  <2>2. Service!Send(dgram, dst)
    BY <2>1 DEF Service!Send, Put
  <2>3. dgram \in Datagram /\ dst \in Host
    OBVIOUS
  <2> QED BY <2>2, <2>3 DEF Service!Next
<1>2. ASSUME NEW h \in Host, HostTransmits(h)
      PROVE  UNCHANGED <<sent, received>>
  BY <1>2 DEF HostTransmits
<1>3. ASSUME NEW h \in Host, HostHears(h)
      PROVE  Service!Next \/ UNCHANGED <<sent, received>>
  <2>1. /\ sent' = sent
        /\ \/ received' = received
           \/ \E d \in Datagram :
                 /\ d \in DOMAIN sent /\ sent[d] = h
                 /\ ~Contains(received[h], d)
                 /\ received' = [received EXCEPT ![h] = Append(@, d)]
    BY <1>3, HearServes
  <2>2. CASE received' = received
    BY <2>1, <2>2
  <2>3. ASSUME NEW d \in Datagram, d \in DOMAIN sent, sent[d] = h,
               ~Contains(received[h], d),
               received' = [received EXCEPT ![h] = Append(@, d)]
        PROVE  Service!Next
    <3>1. Service!Deliver(d, h)
      BY <2>1, <2>3 DEF Service!Deliver, Service!Contains, Contains
    <3> QED BY <3>1 DEF Service!Next
  <2> QED BY <2>1, <2>2, <2>3
<1>4. ASSUME NEW h \in Talkers, NEW ms \in Ticks, TimePasses(h, ms)
      PROVE  UNCHANGED <<sent, received>>
  BY <1>4 DEF TimePasses
<1>5. CASE WireLoses
  BY <1>5 DEF WireLoses
<1>6. CASE UNCHANGED vars
  BY <1>6 DEF vars
<1> QED BY <1>1, <1>2, <1>3, <1>4, <1>5, <1>6 DEF Next

---------------------------------------------------------------------------
(* Underway with the frames themselves: a question of h for g is with h or   *)
(* on its way to g, or an answer to it is with g or on its way to h.         *)
Under(h, g) ==
    \/ \E i \in DOMAIN nif[h].out_que_ : nif[h].out_que_[i] = Question(h, g)
    \/ \E i \in DOMAIN nif[g].out_que_ : Answers(nif[g].out_que_[i], h, g)
    \/ \E c \in DOMAIN wire : c.to = g /\ c.frame = Question(h, g)
    \/ \E c \in DOMAIN wire : c.to = h /\ Answers(c.frame, h, g)

(* WaitingIsBeingAnswered forgets why no second question is asked: a request *)
(* that h remembers is either unanswered and under way or has left h knowing *)
(* the answer for at least as long as it remembers the request.              *)
Promised(h, g) ==
    /\ Waiting(nif[h], IPOf(g)) # <<>> => Under(h, g)
    /\ IPOf(g) \in DOMAIN nif[h].arpreq_survival_map_ =>
          Under(h, g) \/ Knows(nif[h], IPOf(g))

Settled(h) == Aging(nif[h]) /\ Waiting(nif[h], IPOf(h)) = <<>>

AskedInv ==
    /\ lost \in Nat
    /\ \A h \in Host : Settled(h)
    /\ lost = 0 => \A h, g \in Host : h # g => Promised(h, g)

LEMMA UnderIs ==
    ASSUME IInv, NEW h \in Host, NEW g \in Host
    PROVE  Underway(h, g) <=> Under(h, g)
<1>1. RequestFor(nif[h], IPOf(g)) = Question(h, g)
  BY QuestionIs DEF IInv, InterfacesInv
<1> QED BY <1>1 DEF Underway, Under, Answers, BagToSet

LEMMA AskedInit == ASSUME Init PROVE AskedInv
<1>1. ASSUME NEW h \in Host
      PROVE  /\ nif[h].wait_map = EmptyMap
             /\ nif[h].arp_valid_time_map_ = EmptyMap
             /\ nif[h].arpreq_survival_map_ = EmptyMap
  BY DEF Init, NewInterface
<1>2. DOMAIN EmptyMap = {}
  BY DEF EmptyMap
<1>3. \A h \in Host : \A ip : Waiting(nif[h], ip) = <<>>
  BY <1>1, <1>2 DEF Waiting
<1> QED BY <1>1, <1>2, <1>3 DEF Init, AskedInv, Settled, Promised, Aging

(* What is under way stays so while queues and segment only gain frames.     *)
LEMMA UnderStays ==
    ASSUME NEW h \in Host, NEW g \in Host, Under(h, g),
           \A k \in Host : Grows(nif[k].out_que_, nif'[k].out_que_),
           DOMAIN wire \subseteq DOMAIN wire'
    PROVE  Under(h, g)'
BY DEF Under, Grows

(* A promise is kept by a step that makes nothing wait and remembers no new  *)
(* request.                                                                  *)
LEMMA PromiseKept ==
    ASSUME NEW h \in Host, NEW g \in Host, Promised(h, g),
           Under(h, g) => Under(h, g)',
           Waiting(nif'[h], IPOf(g)) \in {Waiting(nif[h], IPOf(g)), <<>>},
           IPOf(g) \in DOMAIN nif'[h].arpreq_survival_map_ =>
               /\ IPOf(g) \in DOMAIN nif[h].arpreq_survival_map_
               /\ Knows(nif[h], IPOf(g)) => Knows(nif'[h], IPOf(g))
    PROVE  Promised(h, g)'
BY DEF Promised

LEMMA SendAsks ==
    ASSUME IInv, ServiceInv, AskedInv, NEW h \in Host, NEW dst \in Host,
           NEW dgram \in Datagram, StackSends(h, dgram, dst)
    PROVE  AskedInv'
<1> DEFINE n  == nif[h]
           m  == send_datagram(nif[h], dgram, IPOf(dst))
           ip == IPOf(dst)
           st == Put(sent, dgram, dst)
<1>1. /\ h # dst /\ nif' = [nif EXCEPT ![h] = m]
      /\ wire' = wire /\ lost' = lost
  BY DEF StackSends
<1>2. n \in Interfaces(h) /\ SameKeys(n) /\ Placed(n, sent)
  BY DEF IInv, InterfacesInv, ServiceInv, AllSent
<1>3. nif'[h] = m /\ \A k \in Host \ {h} : nif'[k] = nif[k]
  BY <1>1 DEF IInv, InterfacesInv
<1>4. /\ m.arp_ip2eth_map_ = n.arp_ip2eth_map_
      /\ m.arp_valid_time_map_ = n.arp_valid_time_map_
      /\ m.wait_map = IF Knows(n, ip) THEN n.wait_map
                      ELSE Put(n.wait_map, ip, Append(Waiting(n, ip), dgram))
      /\ m.arpreq_survival_map_ =
            IF Knows(n, ip) \/ ~MustAsk(n, ip) THEN n.arpreq_survival_map_
            ELSE Put(n.arpreq_survival_map_, ip, 0)
      /\ m.out_que_ = IF Knows(n, ip)
                      THEN Append(n.out_que_, DatagramFrame(n, dgram, ip))
                      ELSE IF MustAsk(n, ip)
                      THEN Append(n.out_que_, RequestFor(n, ip))
                      ELSE n.out_que_
  BY <1>2, SendFields
<1>5. Grows(n.out_que_, m.out_que_)
  <2>1. /\ dgram \notin DOMAIN sent /\ dgram \in DOMAIN st /\ st[dgram] = dst
        /\ DOMAIN sent \subseteq DOMAIN st
        /\ \A d \in DOMAIN sent : st[d] = sent[d]
    BY DEF StackSends, Put
  <2> HIDE DEF st
  <2>2. Placed(n, st)
    BY <1>2, <2>1, PlacedGrows
  <2> QED BY <1>2, <2>1, <2>2, SendIs
<1> HIDE DEF n, m, st
<1>6. /\ \A k : Knows(m, k) <=> Knows(n, k)
      /\ \A k : k # ip => Waiting(m, k) = Waiting(n, k)
      /\ Knows(n, ip) => Waiting(m, ip) = Waiting(n, ip)
      /\ \A k : k # ip => (k \in DOMAIN m.arpreq_survival_map_
                               <=> k \in DOMAIN n.arpreq_survival_map_)
  BY <1>4 DEF Knows, Waiting, Put
<1>7. Aging(n) => Aging(m)
  <2>1. CASE Knows(n, ip) \/ ~MustAsk(n, ip)
    BY <1>4, <2>1 DEF Aging
  <2>2. CASE ~Knows(n, ip) /\ MustAsk(n, ip)
    <3>1. ip \notin DOMAIN m.arp_valid_time_map_
      BY <1>2, <1>4, <2>2 DEF Knows, SameKeys
    <3>2. \A k : k # ip =>
             (k \in DOMAIN m.arpreq_survival_map_ =>
                 /\ k \in DOMAIN n.arpreq_survival_map_
                 /\ m.arpreq_survival_map_[k] = n.arpreq_survival_map_[k])
      BY <1>4, <2>2 DEF Put
    <3> QED BY <1>4, <3>1, <3>2 DEF Aging
  <2> QED BY <2>1, <2>2
<1>8. \A k \in Host : Settled(k)'
  <2>1. IPOf(h) # ip
    BY <1>1, AddressesDiffer
  <2> QED BY <1>3, <1>6, <1>7, <2>1 DEF AskedInv, Settled, n
<1>9. \A k \in Host : Grows(nif[k].out_que_, nif'[k].out_que_)
  BY <1>3, <1>5 DEF n, Grows
<1>10. \A k, g \in Host : Under(k, g) => Under(k, g)'
  BY <1>1, <1>9, UnderStays
<1>11. ASSUME lost = 0, NEW k \in Host, NEW g \in Host, k # g
       PROVE  Promised(k, g)'
  <2>1. Promised(k, g)
    BY <1>11 DEF AskedInv
  <2>2. CASE k # h
    BY <1>3, <1>10, <2>1, <2>2, PromiseKept
  <2>3. CASE k = h /\ (g # dst \/ Knows(n, ip))
    <3>1. Waiting(m, IPOf(g)) = Waiting(n, IPOf(g))
      BY <1>6, <2>3, AddressesDiffer
    <3>2. IPOf(g) \in DOMAIN m.arpreq_survival_map_ =>
             IPOf(g) \in DOMAIN n.arpreq_survival_map_
      BY <1>4, <1>6, <2>3, AddressesDiffer
    <3> QED BY <1>3, <1>6, <1>10, <2>1, <2>3, <3>1, <3>2, PromiseKept DEF n
  <2>4. CASE k = h /\ g = dst /\ ~Knows(n, ip)
    <3>1. CASE ~MustAsk(n, ip)
      BY <1>10, <2>1, <2>4, <3>1 DEF MustAsk, Promised, n
    <3>2. CASE MustAsk(n, ip)
      <4>1. RequestFor(n, ip) = Question(h, dst)
        BY <1>2, QuestionIs
      <4>2. n.out_que_ \in Seq(HonestFrames)
        BY <1>2, Fields
      <4>3. m.out_que_ = Append(n.out_que_, Question(h, dst))
        BY <1>4, <2>4, <3>2, <4>1
      <4>4. /\ Len(n.out_que_) + 1 \in DOMAIN m.out_que_
            /\ m.out_que_[Len(n.out_que_) + 1] = Question(h, dst)
        <5>1. RequestFor(n, IPOf(dst)) \in HonestFrames
          BY <1>2, Request
        <5> HIDE DEF ip
        <5> QED BY <4>1, <4>2, <4>3, <5>1, AppendedFrame
      <4> QED BY <1>3, <2>4, <4>4 DEF Promised, Under
    <3> QED BY <3>1, <3>2
  <2> QED BY <2>2, <2>3, <2>4
<1> QED BY <1>1, <1>8, <1>11 DEF AskedInv

LEMMA TransmitAsks ==
    ASSUME IInv, ServiceInv, AskedInv, NEW h \in Host, HostTransmits(h)
    PROVE  AskedInv'
<1> DEFINE n      == nif[h]
           m      == maybe_send(nif[h])
           frame  == NextFrame(nif[h])
           copies == {[to |-> g, frame |-> frame] : g \in Host \ {h}}
<1>1. /\ CanSend(nif[h]) /\ wire' = wire (+) SetToBag(copies)
      /\ nif' = [nif EXCEPT ![h] = m] /\ lost' = lost
  BY DEF HostTransmits
<1>2. nif'[h] = m /\ \A k \in Host \ {h} : nif'[k] = nif[k]
  BY <1>1 DEF IInv, InterfacesInv
<1>3. /\ m.arpreq_survival_map_ = n.arpreq_survival_map_
      /\ m.arp_ip2eth_map_ = n.arp_ip2eth_map_
      /\ m.arp_valid_time_map_ = n.arp_valid_time_map_
      /\ m.wait_map = n.wait_map
      /\ \A i \in DOMAIN n.out_que_ :
            \/ n.out_que_[i] = frame
            \/ \E j \in DOMAIN m.out_que_ : m.out_que_[j] = n.out_que_[i]
  <2>1. n \in Interfaces(h)
    BY DEF IInv, InterfacesInv
  <2> QED BY <1>1, <2>1, TransmitIs
<1> HIDE DEF m, frame
<1>4. DOMAIN wire' = DOMAIN wire \cup copies
  <2> HIDE DEF copies
  <2> QED BY <1>1, CopiesAdded
<1>5. \A g \in Host \ {h} :
         \E c \in DOMAIN wire' : c.to = g /\ c.frame = frame
  <2> SUFFICES ASSUME NEW g \in Host \ {h}
               PROVE  \E c \in DOMAIN wire' : c.to = g /\ c.frame = frame
    OBVIOUS
  <2>1. [to |-> g, frame |-> frame] \in copies
    OBVIOUS
  <2> HIDE DEF copies
  <2>2. [to |-> g, frame |-> frame] \in DOMAIN wire'
    BY <1>4, <2>1
  <2> QED BY <2>2
<1> HIDE DEF n, copies
<1>6. /\ \A k \in Host : \A ip : Waiting(nif'[k], ip) = Waiting(nif[k], ip)
      /\ \A k \in Host : \A ip : Knows(nif'[k], ip) <=> Knows(nif[k], ip)
      /\ \A k \in Host : Aging(nif'[k]) <=> Aging(nif[k])
      /\ \A k \in Host : nif'[k].arpreq_survival_map_
                             = nif[k].arpreq_survival_map_
  BY <1>2, <1>3 DEF n, Waiting, Knows, Aging
<1>7. \A k \in Host : \A i \in DOMAIN nif[k].out_que_ :
         \/ k = h /\ nif[k].out_que_[i] = frame
         \/ \E j \in DOMAIN nif'[k].out_que_ :
               nif'[k].out_que_[j] = nif[k].out_que_[i]
  BY <1>2, <1>3 DEF n
<1>8. \A k, g \in Host : k # g /\ Under(k, g) => Under(k, g)'
  BY <1>4, <1>5, <1>7 DEF Under
<1>9. \A k, g \in Host : k # g /\ Promised(k, g) => Promised(k, g)'
  BY <1>6, <1>8, PromiseKept
<1>10. \A k \in Host : Settled(k)'
  BY <1>6 DEF AskedInv, Settled
<1> QED BY <1>1, <1>9, <1>10 DEF AskedInv

(* Who hears a question queues the answer; who hears the answer knows, and   *)
(* has nothing waiting any more.                                             *)
LEMMA HearAsks ==
    ASSUME IInv, ServiceInv, AskedInv, NEW h \in Host, HostHears(h)
    PROVE  AskedInv'
<1> PICK c \in BagToSet(wire) :
       /\ c.to = h
       /\ wire' = wire (-) One(c)
       /\ nif' = [nif EXCEPT ![h] = recv_frame(@, c.frame)]
       /\ lost' = lost
  BY DEF HostHears
<1> DEFINE n == nif[h]
           m == recv_frame(n, c.frame)
<1>1. c \in DOMAIN wire /\ c.frame \in HonestFrames
  BY DEF BagToSet, IInv, WireInv
<1>2. n \in Interfaces(h) /\ SameKeys(n)
  BY DEF IInv, InterfacesInv
<1>3. /\ nif'[h] = m /\ \A k \in Host \ {h} : nif'[k] = nif[k]
  BY DEF IInv, InterfacesInv
<1>4. /\ Heard(n, m)
      /\ \A k \in Host : c.frame = Question(k, h) =>
            \E i \in DOMAIN m.out_que_ : Answers(m.out_que_[i], k, h)
      /\ \A k \in Host : Answers(c.frame, h, k) =>
            Waiting(m, IPOf(k)) = <<>> /\ Knows(m, IPOf(k))
  BY <1>1, <1>2, ReceiveIs
<1> HIDE DEF m
<1>5. DOMAIN wire \ {c} \subseteq DOMAIN wire'
  <2>1. \A e \in DOMAIN wire : wire[e] \in Nat \ {0}
    BY DEF ServiceInv, Copies
  <2>2. DOMAIN wire' = DOMAIN wire \ (IF wire[c] = 1 THEN {c} ELSE {})
    BY <1>1, <2>1, CopyRemoved
  <2> QED BY <2>2
<1>6. /\ \A k \in Host : Grows(nif[k].out_que_, nif'[k].out_que_)
      /\ \A k \in Host : \A ip : Knows(nif[k], ip) => Knows(nif'[k], ip)
      /\ \A k \in Host : \A ip :
            Waiting(nif'[k], ip) \in {Waiting(nif[k], ip), <<>>}
      /\ \A k \in Host : nif'[k].arpreq_survival_map_
                             = nif[k].arpreq_survival_map_
      /\ \A k \in Host : Aging(nif[k]) => Aging(nif'[k])
  BY <1>3, <1>4 DEF Heard, Grows
<1>7. ASSUME NEW k \in Host, NEW g \in Host, Under(k, g)
      PROVE  \/ Under(k, g)'
             \/ Waiting(nif'[k], IPOf(g)) = <<>> /\ Knows(nif'[k], IPOf(g))
  <2>1. CASE \/ \E i \in DOMAIN nif[k].out_que_ :
                   nif[k].out_que_[i] = Question(k, g)
             \/ \E i \in DOMAIN nif[g].out_que_ :
                   Answers(nif[g].out_que_[i], k, g)
    BY <1>6, <2>1 DEF Under, Grows
  <2>2. ASSUME NEW e \in DOMAIN wire, e.to = g, e.frame = Question(k, g)
        PROVE  Under(k, g)'
    <3>1. CASE e = c
      BY <1>3, <1>4, <2>2, <3>1 DEF Under
    <3>2. CASE e # c
      BY <1>5, <2>2, <3>2 DEF Under
    <3> QED BY <3>1, <3>2
  <2>3. ASSUME NEW e \in DOMAIN wire, e.to = k, Answers(e.frame, k, g)
        PROVE  \/ Under(k, g)'
               \/ Waiting(nif'[k], IPOf(g)) = <<>> /\ Knows(nif'[k], IPOf(g))
    <3>1. CASE e = c
      BY <1>3, <1>4, <2>3, <3>1
    <3>2. CASE e # c
      BY <1>5, <2>3, <3>2 DEF Under
    <3> QED BY <3>1, <3>2
  <2> QED BY <1>7, <2>1, <2>2, <2>3 DEF Under
<1>8. ASSUME NEW k \in Host, NEW g \in Host, Promised(k, g)
      PROVE  Promised(k, g)'
  <2>1. CASE Waiting(nif'[k], IPOf(g)) = <<>> /\ Knows(nif'[k], IPOf(g))
    BY <2>1 DEF Promised
  <2>2. CASE Under(k, g) => Under(k, g)'
    BY <1>6, <1>8, <2>2, PromiseKept
  <2> QED BY <1>7, <2>1, <2>2
<1>9. \A k \in Host : Settled(k)'
  BY <1>6 DEF AskedInv, Settled
<1> QED BY <1>8, <1>9 DEF AskedInv

(* A mapping outlives the request that led to it.                            *)
LEMMA TimeAsks ==
    ASSUME IInv, AskedInv, NEW h \in Host, NEW ms \in Nat, TimePasses(h, ms)
    PROVE  AskedInv'
<1> DEFINE n == nif[h]
           m == tick(nif[h], ms)
<1>1. /\ nif' = [nif EXCEPT ![h] = m] /\ wire' = wire /\ lost' = lost
  BY DEF TimePasses
<1>2. nif'[h] = m /\ \A k \in Host \ {h} : nif'[k] = nif[k]
  BY <1>1 DEF IInv, InterfacesInv
<1>3. /\ m.out_que_ = n.out_que_ /\ m.wait_map = n.wait_map
      /\ DOMAIN m.arpreq_survival_map_ \subseteq DOMAIN n.arpreq_survival_map_
      /\ Aging(n) => Aging(m)
      /\ Aging(n) => \A ip \in DOMAIN m.arpreq_survival_map_ :
                         Knows(n, ip) => Knows(m, ip)
  <2>1. n \in Interfaces(h) /\ SameKeys(n)
    BY DEF IInv, InterfacesInv
  <2> QED BY <2>1, TickIs
<1> HIDE DEF m
<1>4. Aging(n)
  BY DEF AskedInv, Settled
<1>5. /\ \A k \in Host : nif'[k].out_que_ = nif[k].out_que_
      /\ \A k \in Host : \A ip : Waiting(nif'[k], ip) = Waiting(nif[k], ip)
      /\ \A k \in Host : Aging(nif'[k])
      /\ \A k \in Host : \A ip \in DOMAIN nif'[k].arpreq_survival_map_ :
            /\ ip \in DOMAIN nif[k].arpreq_survival_map_
            /\ Knows(nif[k], ip) => Knows(nif'[k], ip)
  BY <1>2, <1>3, <1>4 DEF AskedInv, Settled, Waiting
<1>6. \A k, g \in Host : Under(k, g) => Under(k, g)'
  BY <1>1, <1>5, UnderStays DEF Grows
<1>7. \A k, g \in Host : Promised(k, g) => Promised(k, g)'
  BY <1>5, <1>6, PromiseKept
<1>8. \A k \in Host : Settled(k)'
  BY <1>5 DEF AskedInv, Settled
<1> QED BY <1>1, <1>7, <1>8 DEF AskedInv

LEMMA LossAsks == ASSUME AskedInv, WireLoses PROVE AskedInv'
<1>1. nif' = nif /\ lost' = lost + 1
  BY DEF WireLoses
<1>2. lost' \in Nat /\ lost' # 0
  BY <1>1 DEF AskedInv
<1>3. \A h \in Host : Settled(h)'
  BY <1>1 DEF AskedInv, Settled
<1> QED BY <1>2, <1>3 DEF AskedInv

LEMMA AskedNext ==
    IInv /\ ServiceInv /\ AskedInv /\ [Next]_vars => AskedInv'
<1> SUFFICES ASSUME IInv, ServiceInv, AskedInv, [Next]_vars PROVE AskedInv'
  OBVIOUS
<1>1. ASSUME NEW h \in Talkers, NEW dst \in Host, NEW dgram \in Datagram,
             StackSends(h, dgram, dst)
      PROVE  AskedInv'
  BY <1>1, SendAsks, LANAssumption
<1>2. ASSUME NEW h \in Host, HostTransmits(h) PROVE AskedInv'
  BY <1>2, TransmitAsks
<1>3. ASSUME NEW h \in Host, HostHears(h) PROVE AskedInv'
  BY <1>3, HearAsks
<1>4. ASSUME NEW h \in Talkers, NEW ms \in Ticks, TimePasses(h, ms)
      PROVE  AskedInv'
  BY <1>4, TimeAsks, LANAssumption
<1>5. CASE WireLoses
  BY <1>5, LossAsks
<1>6. CASE UNCHANGED vars
  BY <1>6 DEF vars, AskedInv, Settled, Promised, Under
<1> QED BY <1>1, <1>2, <1>3, <1>4, <1>5, <1>6 DEF Next

LEMMA AskedImpliesWaiting ==
    IInv /\ AskedInv => WaitingIsBeingAnswered
<1> SUFFICES ASSUME IInv, AskedInv, lost = 0,
                    NEW h \in Host, NEW g \in Host,
                    Waiting(nif[h], IPOf(g)) # <<>>
             PROVE  Underway(h, g)
  BY DEF WaitingIsBeingAnswered
<1>1. h # g
  BY DEF AskedInv, Settled
<1> QED BY <1>1, UnderIs DEF AskedInv, Promised

(* For every number of hosts and datagrams and every life of mappings and    *)
(* requests, the two tables of each interface keep the same keys, so that    *)
(* tick() never erases what is not there, and entries expire in time.        *)
THEOREM LANTypeCorrect == Spec => []TypeOK
BY Invariance, IInvImpliesTypeOK, PTL

(* For every number of hosts, however frames are delayed, reordered and      *)
(* lost, recv_frame() never learns a mapping that is not true.               *)
THEOREM MappingsStayTrue == Spec => []MappingsTrue
BY Invariance, IInvImpliesMappingsTrue, PTL

(* For every number of hosts and datagrams, however frames are delayed,      *)
(* reordered and lost, whatever expires and however often a host has to ask: *)
(* a datagram handed to send_datagram() is passed up by recv_frame() at the  *)
(* host it was sent to and at no other, and at most once.                    *)
THEOREM LANIsDatagramService == Spec => ImplementsDatagramService
<1>1. Init => Service!Init
  BY InitMaps
<1>2. IInv /\ ServiceInv /\ [Next]_vars => [Service!Next]_(Service!vars)
  BY StepMaps
<1> QED BY <1>1, <1>2, ServiceInvariance, PTL
        DEF Spec, ImplementsDatagramService, Service!Spec

(* For every number of hosts and datagrams and every life of mappings and    *)
(* requests: as long as no frame is lost, a datagram that send_datagram()    *)
(* makes wait has its answer under way, although tick() repeats no request   *)
(* and forgets both mappings and requests.                                   *)
THEOREM WaitingIsAnswered == Spec => []WaitingIsBeingAnswered
<1>1. Init => AskedInv
  BY AskedInit
<1>2. IInv /\ ServiceInv /\ AskedInv /\ [Next]_vars => AskedInv'
  BY AskedNext
<1>3. IInv /\ AskedInv => WaitingIsBeingAnswered
  BY AskedImpliesWaiting
<1> QED BY <1>1, <1>2, <1>3, ServiceInvariance, PTL DEF Spec
============================================================================
