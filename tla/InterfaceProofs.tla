-------------------------- MODULE InterfaceProofs --------------------------
(* Proofs about src/src/network_interface.cc for every set of addresses and  *)
(* datagrams, every life of mappings and requests, and whatever ARP messages *)
(* the network delivers: datagrams are neither lost nor doubled, frames go   *)
(* where their next hop was claimed to be, and requests are spaced.          *)
EXTENDS InterfaceWithNetwork, DataFacts

Eths == PeerEth \cup {Own}

DataFrames  == {Frame(dst, Own, "IPv4", dgram) : dst \in Eths, dgram \in Datagram}
OtherFrames ==
    {Frame(dst, Own, "ARP", ARPMessage(opcode, Own, OwnIP, eth, ip)) :
        dst \in Eths \cup {ETHERNET_BROADCAST}, opcode \in {"REQUEST", "REPLY"},
        eth \in Eths \cup {NoAddress}, ip \in AllIP}
OutFrames   == DataFrames \cup OtherFrames

(* The ages of what stays less than limit in a table.                       *)
Ages(limit) == 0 .. limit - 1

Interfaces ==
    [ethernet_address_    : {Own},
     ip_address_          : {OwnIP},
     arp_ip2eth_map_      : Tables(AllIP, Eths),
     arp_valid_time_map_  : Tables(AllIP, Ages(MaxArpMapTime)),
     arpreq_survival_map_ : Tables(AllIP, Ages(MaxArpReqTime)),
     wait_map             : Tables(AllIP, Seq(Datagram)),
     out_que_             : Seq(OutFrames)]

(* A frame with a datagram goes where its next hop was claimed to be.        *)
Grounded(frame, hp, cl) ==
    IsData(frame) => /\ frame.payload \in DOMAIN hp
                     /\ <<hp[frame.payload], frame.dst>> \in cl

(* What holds of an interface n when the stack has sent to the hops hp and   *)
(* the network has claimed cl.                                               *)
Sound(n, hp, cl) ==
    /\ DOMAIN n.arp_ip2eth_map_ = DOMAIN n.arp_valid_time_map_
    /\ \A ip \in DOMAIN n.arp_valid_time_map_ :
          ip \in DOMAIN n.arpreq_survival_map_ =>
              n.arp_valid_time_map_[ip] <= n.arpreq_survival_map_[ip]
    /\ \A ip \in DOMAIN n.arp_ip2eth_map_ :
          <<ip, n.arp_ip2eth_map_[ip]>> \in cl
    /\ \A ip \in AllIP : \A i \in DOMAIN Waiting(n, ip) :
          /\ Waiting(n, ip)[i] \in DOMAIN hp
          /\ hp[Waiting(n, ip)[i]] = ip
    /\ \A i \in DOMAIN n.out_que_ : Grounded(n.out_que_[i], hp, cl)

FramesWith(dgram) ==
    {frame \in OutFrames : IsData(frame) /\ frame.payload = dgram}
Held(n, hp, dgram) ==
    Occurrences(n.out_que_, FramesWith(dgram))
    + Occurrences(Waiting(n, hp[dgram]), {dgram})
Accounted(n, hp, rel) ==
    \A dgram \in DOMAIN hp :
        Held(n, hp, dgram) + (IF dgram \in rel THEN 1 ELSE 0) = 1

(* The table of requests agrees with the time since each.                    *)
RequestTimes(n, since) ==
    \A ip \in AllIP :
        since[ip] = IF ip \in DOMAIN n.arpreq_survival_map_
                    THEN n.arpreq_survival_map_[ip] ELSE MaxArpReqTime

IInv ==
    /\ nif \in Interfaces
    /\ hop \in Tables(Datagram, AllIP)
    /\ released \subseteq DOMAIN hop
    /\ sinceRequest \in [AllIP -> 0..MaxArpReqTime]
    /\ Sound(nif, hop, claims)
    /\ Accounted(nif, hop, released)
    /\ RequestTimes(nif, sinceRequest)
---------------------------------------------------------------------------
LEMMA AccountIs ==
    ASSUME nif.out_que_ \in Seq(OutFrames)
    PROVE  DatagramsAccounted <=> Accounted(nif, hop, released)
<1>1. ASSUME NEW dgram
      PROVE  Places(nif.out_que_, LAMBDA frame : IsData(frame)
                                            /\ frame.payload = dgram)
             = Occurrences(nif.out_que_, FramesWith(dgram))
  <2>1. {i \in DOMAIN nif.out_que_ : IsData(nif.out_que_[i])
                                    /\ nif.out_que_[i].payload = dgram}
        = Positions(nif.out_que_, FramesWith(dgram))
    BY ElementOfSeq, LenProperties DEF Positions, FramesWith
  <2> QED BY <2>1 DEF Places, Occurrences
<1>2. ASSUME NEW dgram
      PROVE  Places(Waiting(nif, hop[dgram]), LAMBDA d : d = dgram)
             = Occurrences(Waiting(nif, hop[dgram]), {dgram})
  <2>1. {i \in DOMAIN Waiting(nif, hop[dgram]) :
            Waiting(nif, hop[dgram])[i] = dgram}
        = Positions(Waiting(nif, hop[dgram]), {dgram})
    BY DEF Positions
  <2> QED BY <2>1 DEF Places, Occurrences
<1> QED BY <1>1, <1>2, Zenon DEF DatagramsAccounted, Accounted, Held

LEMMA Fields ==
    ASSUME NEW n \in Interfaces
    PROVE  /\ n.ethernet_address_ = Own /\ n.ip_address_ = OwnIP
           /\ n.arp_ip2eth_map_ \in Tables(AllIP, Eths)
           /\ n.arp_valid_time_map_ \in Tables(AllIP, Ages(MaxArpMapTime))
           /\ n.arpreq_survival_map_ \in Tables(AllIP, Ages(MaxArpReqTime))
           /\ n.wait_map \in Tables(AllIP, Seq(Datagram))
           /\ n.out_que_ \in Seq(OutFrames)
BY DEF Interfaces

LEMMA PutFacts ==
    ASSUME NEW K, NEW V, NEW map \in Tables(K, V), NEW key \in K,
           NEW value \in V
    PROVE  /\ Put(map, key, value) \in Tables(K, V)
           /\ DOMAIN Put(map, key, value) = DOMAIN map \cup {key}
           /\ Put(map, key, value)[key] = value
           /\ \A k \in DOMAIN map \ {key} : Put(map, key, value)[k] = map[k]
<1>1. DOMAIN map \cup {key} \in SUBSET K
  BY TableFacts
<1>2. Put(map, key, value) \in [DOMAIN map \cup {key} -> V]
  BY TableFacts DEF Put
<1>3. Put(map, key, value) \in Tables(K, V)
  BY <1>1, <1>2, MakeTable
<1> QED BY <1>3 DEF Put

LEMMA PutZero ==
    ASSUME NEW K, NEW limit \in Nat \ {0},
           NEW map \in Tables(K, Ages(limit)), NEW key \in K
    PROVE  Put(map, key, 0) \in Tables(K, Ages(limit))
<1> DEFINE V   == Ages(limit)
           age == 0
<1>1. age \in V
  BY DEF Ages
<1> HIDE DEF V, age
<1>2. Put(map, key, age) \in Tables(K, V)
  BY <1>1, PutFacts DEF V
<1> QED BY <1>2 DEF V, age

LEMMA WaitingIs ==
    ASSUME NEW n \in Interfaces, NEW ip
    PROVE  Waiting(n, ip) \in Seq(Datagram)
<1>1. n.wait_map \in Tables(AllIP, Seq(Datagram))
  BY Fields
<1>2. <<>> \in Seq(Datagram)
  BY EmptySeq
<1> QED BY <1>1, <1>2, TableFacts DEF Waiting

LEMMA DataFrameIs ==
    ASSUME NEW n \in Interfaces, NEW ip \in DOMAIN n.arp_ip2eth_map_,
           NEW dgram \in Datagram
    PROVE  LET frame == DatagramFrame(n, dgram, ip)
           IN  /\ frame \in OutFrames /\ IsData(frame)
               /\ frame.payload = dgram /\ frame.dst = n.arp_ip2eth_map_[ip]
               /\ \A target : frame # RequestFor(n, target)
<1>1. n.arp_ip2eth_map_[ip] \in Eths /\ n.ethernet_address_ = Own
  BY Fields, TableFacts
<1> DEFINE frame == DatagramFrame(n, dgram, ip)
<1>2. /\ frame = Frame(n.arp_ip2eth_map_[ip], Own, "IPv4", dgram)
      /\ frame.type = "IPv4" /\ frame.payload = dgram
      /\ frame.dst = n.arp_ip2eth_map_[ip]
  BY <1>1 DEF DatagramFrame, Frame
<1>3. frame \in OutFrames
  BY <1>1, <1>2 DEF OutFrames, DataFrames
<1>4. \A target : RequestFor(n, target).type = "ARP"
  BY DEF RequestFor, Frame
<1>5. \A target : frame # RequestFor(n, target)
  BY <1>2, <1>4
<1> HIDE DEF frame
<1> QED BY <1>2, <1>3, <1>5 DEF IsData, frame

(* Requests and replies carry no datagram.                                   *)
LEMMA RequestIs ==
    ASSUME NEW n \in Interfaces, NEW ip \in AllIP
    PROVE  /\ RequestFor(n, ip) \in OutFrames /\ ~IsData(RequestFor(n, ip))
           /\ \A target : RequestFor(n, target) = RequestFor(n, ip)
                              => target = ip
<1>1. RequestFor(n, ip) =
          Frame(ETHERNET_BROADCAST, Own, "ARP",
                ARPMessage("REQUEST", Own, OwnIP, NoAddress, ip))
  BY Fields DEF RequestFor
<1>2. RequestFor(n, ip) \in OutFrames
  BY <1>1 DEF OutFrames, OtherFrames
<1>3. \A target :
         RequestFor(n, target).payload.target_ip_address = target
  BY DEF RequestFor, Frame, ARPMessage
<1>4. RequestFor(n, ip).type = "ARP"
  BY DEF RequestFor, Frame
<1> QED BY <1>2, <1>3, <1>4 DEF IsData

LEMMA ReplyIs ==
    ASSUME NEW n \in Interfaces, NEW msg, msg.sender_ip_address \in AllIP,
           msg.sender_ethernet_address \in Eths
    PROVE  /\ ReplyTo(n, msg) \in OutFrames /\ ~IsData(ReplyTo(n, msg))
           /\ \A target : ReplyTo(n, msg) # RequestFor(n, target)
<1>1. ReplyTo(n, msg) =
          Frame(msg.sender_ethernet_address, Own, "ARP",
                ARPMessage("REPLY", Own, OwnIP, msg.sender_ethernet_address,
                           msg.sender_ip_address))
  BY Fields DEF ReplyTo
<1>2. ReplyTo(n, msg) \in OutFrames
  BY <1>1 DEF OutFrames, OtherFrames
<1>3. ReplyTo(n, msg).payload.opcode = "REPLY" /\ ReplyTo(n, msg).type = "ARP"
  BY DEF ReplyTo, Frame, ARPMessage
<1>4. \A target : RequestFor(n, target).payload.opcode = "REQUEST"
  BY DEF RequestFor, Frame, ARPMessage
<1> QED BY <1>2, <1>3, <1>4 DEF IsData
---------------------------------------------------------------------------
(* What each handler does to a sound interface.                              *)
LEMMA OutFields ==
    ASSUME NEW n \in Interfaces, NEW queue \in Seq(OutFrames)
    PROVE  LET m == [n EXCEPT !.out_que_ = queue]
           IN  /\ m \in Interfaces /\ m.out_que_ = queue
               /\ m.arp_ip2eth_map_ = n.arp_ip2eth_map_
               /\ m.arp_valid_time_map_ = n.arp_valid_time_map_
               /\ m.arpreq_survival_map_ = n.arpreq_survival_map_
               /\ m.wait_map = n.wait_map
BY DEF Interfaces

LEMMA WaitFields ==
    ASSUME NEW n \in Interfaces, NEW wait \in Tables(AllIP, Seq(Datagram))
    PROVE  LET m == [n EXCEPT !.wait_map = wait]
           IN  /\ m \in Interfaces /\ m.wait_map = wait
               /\ m.arp_ip2eth_map_ = n.arp_ip2eth_map_
               /\ m.arp_valid_time_map_ = n.arp_valid_time_map_
               /\ m.arpreq_survival_map_ = n.arpreq_survival_map_
               /\ m.out_que_ = n.out_que_
BY DEF Interfaces

LEMMA Enqueued ==
    ASSUME NEW n \in Interfaces, NEW frame \in OutFrames
    PROVE  LET m == [n EXCEPT !.out_que_ = Append(@, frame)]
           IN  /\ m \in Interfaces
               /\ m.out_que_ = Append(n.out_que_, frame)
               /\ m.arp_ip2eth_map_ = n.arp_ip2eth_map_
               /\ m.arp_valid_time_map_ = n.arp_valid_time_map_
               /\ m.arpreq_survival_map_ = n.arpreq_survival_map_
               /\ m.wait_map = n.wait_map
               /\ \A ip : Waiting(m, ip) = Waiting(n, ip)
               /\ Last(m.out_que_) = frame
               /\ \A dgram :
                     Occurrences(m.out_que_, FramesWith(dgram)) =
                         Occurrences(n.out_que_, FramesWith(dgram))
                         + (IF IsData(frame) /\ frame.payload = dgram
                            THEN 1 ELSE 0)
<1> DEFINE queue == Append(n.out_que_, frame)
           m == [n EXCEPT !.out_que_ = queue]
<1>1. n.out_que_ \in Seq(OutFrames)
  BY Fields
<1>2. queue \in Seq(OutFrames) /\ Last(queue) = frame
  <2>1. queue \in Seq(OutFrames) /\ Len(queue) = Len(n.out_que_) + 1
        /\ queue[Len(n.out_que_) + 1] = frame
    BY <1>1, AppendProperties
  <2> QED BY <2>1 DEF Last
<1>3. \A dgram : Occurrences(queue, FramesWith(dgram)) =
                     Occurrences(n.out_que_, FramesWith(dgram))
                     + (IF frame \in FramesWith(dgram) THEN 1 ELSE 0)
  BY <1>1, OccurrencesAppended
<1>4. \A dgram : frame \in FramesWith(dgram)
                     <=> IsData(frame) /\ frame.payload = dgram
  BY DEF FramesWith
<1> HIDE DEF queue
<1>5. /\ m \in Interfaces /\ m.out_que_ = queue
      /\ m.arp_ip2eth_map_ = n.arp_ip2eth_map_
      /\ m.arp_valid_time_map_ = n.arp_valid_time_map_
      /\ m.arpreq_survival_map_ = n.arpreq_survival_map_
      /\ m.wait_map = n.wait_map
  BY <1>2, OutFields
<1> HIDE DEF m
<1>6. \A ip : Waiting(m, ip) = Waiting(n, ip)
  BY <1>5 DEF Waiting
<1> QED BY <1>2, <1>3, <1>4, <1>5, <1>6 DEF m, queue

LEMMA EnqueuedSound ==
    ASSUME NEW n \in Interfaces, NEW frame \in OutFrames, NEW hp, NEW cl,
           Sound(n, hp, cl), Grounded(frame, hp, cl)
    PROVE  Sound([n EXCEPT !.out_que_ = Append(@, frame)], hp, cl)
<1> DEFINE m == [n EXCEPT !.out_que_ = Append(@, frame)]
<1>1. /\ m.out_que_ = Append(n.out_que_, frame)
      /\ m.arp_ip2eth_map_ = n.arp_ip2eth_map_
      /\ m.arp_valid_time_map_ = n.arp_valid_time_map_
      /\ m.arpreq_survival_map_ = n.arpreq_survival_map_
      /\ \A ip : Waiting(m, ip) = Waiting(n, ip)
  BY Enqueued
<1> HIDE DEF m
<1>2. ASSUME NEW i \in DOMAIN m.out_que_ PROVE Grounded(m.out_que_[i], hp, cl)
  <2>1. /\ n.out_que_ \in Seq(OutFrames) /\ Len(n.out_que_) \in Nat
        /\ DOMAIN n.out_que_ = 1..Len(n.out_que_)
    BY Fields, LenProperties
  <2>2. i \in 1..(Len(n.out_que_) + 1)
    BY <1>1, <2>1, AppendProperties, LenProperties
  <2>3. m.out_que_[i] = IF i \in DOMAIN n.out_que_ THEN n.out_que_[i] ELSE frame
    BY <1>1, <2>1, <2>2, AppendProperties
  <2> QED BY <2>3 DEF Sound
<1>3. Sound(m, hp, cl)
  BY <1>1, <1>2 DEF Sound
<1> QED BY <1>3 DEF m

(* Learned() adds a mapping and leaves the queues alone.                     *)
LEMMA LearnedIs ==
    ASSUME NEW n \in Interfaces, NEW ip \in AllIP, NEW eth \in Eths,
           NEW hp, NEW cl, Sound(n, hp, cl), <<ip, eth>> \in cl
    PROVE  LET m == Learned(n, eth, ip)
           IN  /\ m \in Interfaces /\ Sound(m, hp, cl)
               /\ Knows(m, ip) /\ \A k : Knows(n, k) => Knows(m, k)
               /\ m.out_que_ = n.out_que_
               /\ m.arpreq_survival_map_ = n.arpreq_survival_map_
               /\ m.wait_map = n.wait_map
<1> DEFINE arp  == Put(n.arp_ip2eth_map_, ip, eth)
           ages == Put(n.arp_valid_time_map_, ip, 0)
           m    == [n EXCEPT !.arp_ip2eth_map_ = arp,
                             !.arp_valid_time_map_ = ages]
<1>1. CASE Knows(n, ip)
  BY <1>1 DEF Learned
<1>2. CASE ~Knows(n, ip)
  <2>1. MaxArpMapTime \in Nat \ {0}
    BY InterfaceAssumption
  <2>2. /\ arp \in Tables(AllIP, Eths)
        /\ DOMAIN arp = DOMAIN n.arp_ip2eth_map_ \cup {ip} /\ arp[ip] = eth
        /\ \A k \in DOMAIN n.arp_ip2eth_map_ \ {ip} :
              arp[k] = n.arp_ip2eth_map_[k]
    <3> DEFINE old == n.arp_ip2eth_map_
    <3>1. old \in Tables(AllIP, Eths)
      BY Fields
    <3> HIDE DEF old
    <3>2. /\ Put(old, ip, eth) \in Tables(AllIP, Eths)
          /\ DOMAIN Put(old, ip, eth) = DOMAIN old \cup {ip}
          /\ Put(old, ip, eth)[ip] = eth
          /\ \A k \in DOMAIN old \ {ip} : Put(old, ip, eth)[k] = old[k]
      BY <3>1, PutFacts
    <3> QED BY <3>2 DEF old
  <2>3. n.arp_valid_time_map_ \in Tables(AllIP, Ages(MaxArpMapTime))
    BY Fields
  <2>4. /\ ages \in Tables(AllIP, Ages(MaxArpMapTime))
        /\ DOMAIN ages = DOMAIN n.arp_valid_time_map_ \cup {ip}
        /\ ages[ip] = 0
        /\ \A k \in DOMAIN n.arp_valid_time_map_ \ {ip} :
              ages[k] = n.arp_valid_time_map_[k]
    <3> DEFINE old == n.arp_valid_time_map_
    <3>1. old \in Tables(AllIP, Ages(MaxArpMapTime))
      BY <2>3
    <3> HIDE DEF old
    <3>2. /\ Put(old, ip, 0) \in Tables(AllIP, Ages(MaxArpMapTime))
          /\ DOMAIN Put(old, ip, 0) = DOMAIN old \cup {ip}
          /\ Put(old, ip, 0)[ip] = 0
          /\ \A k \in DOMAIN old \ {ip} : Put(old, ip, 0)[k] = old[k]
      <4>1. Put(old, ip, 0) \in Tables(AllIP, Ages(MaxArpMapTime))
        BY <2>1, <3>1, PutZero
      <4> QED BY <4>1 DEF Put
    <3> QED BY <3>2 DEF old
  <2> HIDE DEF arp, ages
  <2>5. /\ m \in Interfaces
        /\ m.arp_ip2eth_map_ = arp /\ m.arp_valid_time_map_ = ages
        /\ m.arpreq_survival_map_ = n.arpreq_survival_map_
        /\ m.wait_map = n.wait_map /\ m.out_que_ = n.out_que_
    BY <2>2, <2>4 DEF Interfaces
  <2>6. m = Learned(n, eth, ip)
    BY <1>2 DEF Learned, arp, ages
  <2> HIDE DEF m
  <2>7. \A k : Waiting(m, k) = Waiting(n, k)
    BY <2>5 DEF Waiting
  <2>8. ASSUME NEW k \in DOMAIN ages, k \in DOMAIN n.arpreq_survival_map_
        PROVE  ages[k] <= n.arpreq_survival_map_[k]
    <3>1. n.arpreq_survival_map_[k] \in Nat
      <4> DEFINE old == n.arpreq_survival_map_
                 V   == Ages(MaxArpReqTime)
      <4>1. old \in Tables(AllIP, V) /\ k \in DOMAIN old
        BY <2>8, Fields
      <4> HIDE DEF old, V
      <4>2. old[k] \in V
        BY <4>1, TableFacts
      <4> QED BY <4>2, InterfaceAssumption DEF old, V, Ages
    <3>2. CASE k = ip
      BY <2>4, <3>1, <3>2
    <3>3. CASE k # ip
      BY <2>4, <2>8, <3>3 DEF Sound
    <3> QED BY <3>2, <3>3
  <2>9. ASSUME NEW k \in DOMAIN arp PROVE <<k, arp[k]>> \in cl
    <3>1. CASE k = ip
      BY <2>2, <3>1
    <3>2. CASE k # ip
      BY <2>2, <3>2 DEF Sound
    <3> QED BY <3>1, <3>2
  <2>10. DOMAIN arp = DOMAIN ages
    BY <2>2, <2>4 DEF Sound
  <2>11. Sound(m, hp, cl)
    BY <2>5, <2>7, <2>8, <2>9, <2>10 DEF Sound
  <2> QED BY <2>2, <2>5, <2>6, <2>11 DEF Knows
<1> QED BY <1>1, <1>2

(* Flushed() turns what waited for a known hop into frames, one for one.     *)
LEMMA FlushedIs ==
    ASSUME NEW n \in Interfaces, NEW ip \in AllIP, Knows(n, ip),
           NEW hp, NEW cl, Sound(n, hp, cl)
    PROVE  LET m == Flushed(n, ip)
           IN  /\ m \in Interfaces /\ Sound(m, hp, cl)
               /\ m.arpreq_survival_map_ = n.arpreq_survival_map_
               /\ \A dgram \in DOMAIN hp : Held(m, hp, dgram) = Held(n, hp, dgram)
               /\ Len(m.out_que_) > Len(n.out_que_) =>
                     \A target : Last(m.out_que_) # RequestFor(n, target)
<1> DEFINE queue  == Waiting(n, ip)
           frames == [i \in DOMAIN queue |-> DatagramFrame(n, queue[i], ip)]
           out    == n.out_que_ \o frames
           rest   == Restrict(n.wait_map, DOMAIN n.wait_map \ {ip})
           m      == Flushed(n, ip)
<1>1. queue \in Seq(Datagram) /\ n.out_que_ \in Seq(OutFrames)
      /\ n.wait_map \in Tables(AllIP, Seq(Datagram))
  BY WaitingIs, Fields
<1>2. DOMAIN queue = 1..Len(queue) /\ Len(queue) \in Nat
      /\ \A i \in DOMAIN queue : queue[i] \in Datagram
  BY <1>1, LenProperties, ElementOfSeq
<1> HIDE DEF queue
<1>3. ASSUME NEW i \in DOMAIN queue
      PROVE  /\ frames[i] \in OutFrames /\ IsData(frames[i])
             /\ frames[i].payload = queue[i]
             /\ frames[i].dst = n.arp_ip2eth_map_[ip]
             /\ \A target : frames[i] # RequestFor(n, target)
  BY <1>2, DataFrameIs DEF Knows
<1>4. /\ frames \in Seq(OutFrames) /\ Len(frames) = Len(queue)
      /\ DOMAIN frames = DOMAIN queue
  <2>1. frames \in [1..Len(queue) -> OutFrames]
    BY <1>2, <1>3
  <2> QED BY <1>2, <2>1, SeqDef, LenProperties
<1> HIDE DEF frames
<1>5. /\ out \in Seq(OutFrames) /\ Len(out) = Len(n.out_que_) + Len(queue)
      /\ Len(n.out_que_) \in Nat
      /\ DOMAIN n.out_que_ = 1..Len(n.out_que_)
      /\ DOMAIN out = 1..(Len(n.out_que_) + Len(queue))
      /\ \A i \in 1..(Len(n.out_que_) + Len(queue)) :
            out[i] = IF i <= Len(n.out_que_) THEN n.out_que_[i]
                     ELSE frames[i - Len(n.out_que_)]
  <2>1. out \in Seq(OutFrames) /\ Len(out) = Len(n.out_que_) + Len(queue)
    <3> DEFINE q == n.out_que_
    <3>1. q \in Seq(OutFrames) /\ frames \in Seq(OutFrames)
      BY <1>1, <1>4
    <3> HIDE DEF q
    <3>2. q \o frames \in Seq(OutFrames)
          /\ Len(q \o frames) = Len(q) + Len(frames)
      BY <3>1, ConcatProperties
    <3> QED BY <1>4, <3>2 DEF q
  <2> QED BY <1>1, <1>4, <2>1, ConcatProperties, LenProperties
<1>6. \A dgram : Occurrences(out, FramesWith(dgram)) =
                     Occurrences(n.out_que_, FramesWith(dgram))
                     + Occurrences(frames, FramesWith(dgram))
  BY <1>1, <1>4, OccurrencesInBoth
<1>7. \A dgram : Occurrences(frames, FramesWith(dgram)) = Occurrences(queue, {dgram})
  <2>1. ASSUME NEW dgram
        PROVE  Positions(frames, FramesWith(dgram)) = Positions(queue, {dgram})
    BY <1>3, <1>4 DEF Positions, FramesWith
  <2> QED BY <2>1 DEF Occurrences
<1>8. /\ rest \in Tables(AllIP, Seq(Datagram))
      /\ DOMAIN rest = DOMAIN n.wait_map \ {ip}
      /\ \A k \in DOMAIN rest : rest[k] = n.wait_map[k]
  BY <1>1, RestrictFacts
<1> HIDE DEF rest, out
<1>9. /\ m \in Interfaces /\ m.out_que_ = out /\ m.wait_map = rest
      /\ m.arp_ip2eth_map_ = n.arp_ip2eth_map_
      /\ m.arp_valid_time_map_ = n.arp_valid_time_map_
      /\ m.arpreq_survival_map_ = n.arpreq_survival_map_
  <2>1. m = [n EXCEPT !.out_que_ = out, !.wait_map = rest]
    BY DEF Flushed, out, frames, queue, rest
  <2> HIDE DEF m
  <2> QED BY <1>5, <1>8, <2>1 DEF Interfaces
<1> HIDE DEF m
<1>10. /\ Waiting(m, ip) = <<>>
       /\ \A k : k # ip => Waiting(m, k) = Waiting(n, k)
  BY <1>8, <1>9 DEF Waiting
<1>11. ASSUME NEW dgram \in DOMAIN hp PROVE Held(m, hp, dgram) = Held(n, hp, dgram)
  <2>1. Occurrences(out, FramesWith(dgram)) =
            Occurrences(n.out_que_, FramesWith(dgram)) + Occurrences(queue, {dgram})
    BY <1>6, <1>7
  <2>2. CASE hp[dgram] = ip
    <3>1. Occurrences(Waiting(m, ip), {dgram}) = 0
      BY <1>10, OccurrencesInNone
    <3>2. Occurrences(n.out_que_, FramesWith(dgram)) \in Nat
          /\ Occurrences(queue, {dgram}) \in Nat
      BY <1>1, OccurrencesAre DEF queue
    <3> QED BY <1>9, <2>1, <2>2, <3>1, <3>2 DEF Held, queue
  <2>3. CASE hp[dgram] # ip
    <3>1. \A i \in DOMAIN queue : queue[i] \notin {dgram}
      BY <2>3 DEF Sound, queue
    <3>2. Occurrences(queue, {dgram}) = 0
      BY <1>1, <3>1, OccurrencesAre DEF queue
    <3>3. Occurrences(n.out_que_, FramesWith(dgram)) \in Nat
      BY <1>1, OccurrencesAre
    <3> QED BY <1>9, <1>10, <2>1, <2>3, <3>2, <3>3 DEF Held
  <2> QED BY <2>2, <2>3
<1>12. ASSUME NEW i \in DOMAIN frames PROVE Grounded(frames[i], hp, cl)
  <2>1. queue[i] \in DOMAIN hp /\ hp[queue[i]] = ip
    BY <1>4 DEF Sound, queue
  <2>2. <<ip, n.arp_ip2eth_map_[ip]>> \in cl
    BY DEF Sound, Knows
  <2> QED BY <1>3, <1>4, <2>1, <2>2 DEF Grounded
<1>13. Sound(m, hp, cl)
  <2>1. ASSUME NEW i \in DOMAIN out PROVE Grounded(out[i], hp, cl)
    <3>1. CASE i <= Len(n.out_que_)
      <4>1. i \in DOMAIN n.out_que_ /\ out[i] = n.out_que_[i]
        BY <1>5, <3>1
      <4> QED BY <4>1 DEF Sound
    <3>2. CASE ~(i <= Len(n.out_que_))
      <4>1. i - Len(n.out_que_) \in DOMAIN frames
            /\ out[i] = frames[i - Len(n.out_que_)]
        BY <1>2, <1>4, <1>5, <3>2
      <4> QED BY <1>12, <4>1
    <3> QED BY <3>1, <3>2
  <2>2. ASSUME NEW k \in AllIP, NEW i \in DOMAIN Waiting(m, k)
        PROVE  Waiting(m, k)[i] \in DOMAIN hp /\ hp[Waiting(m, k)[i]] = k
    <3>1. k # ip
      BY <1>10, <2>2, EmptySeq
    <3> QED BY <1>10, <2>2, <3>1 DEF Sound
  <2> QED BY <1>9, <2>1, <2>2 DEF Sound
<1>14. ASSUME Len(m.out_que_) > Len(n.out_que_), NEW target
       PROVE  Last(m.out_que_) # RequestFor(n, target)
  <2>1. Len(queue) > 0
    BY <1>2, <1>5, <1>9, <1>14
  <2>2. Last(out) = frames[Len(queue)] /\ Len(queue) \in DOMAIN queue
    <3>1. Len(n.out_que_) + Len(queue) \in 1..(Len(n.out_que_) + Len(queue))
          /\ ~(Len(n.out_que_) + Len(queue) <= Len(n.out_que_))
          /\ (Len(n.out_que_) + Len(queue)) - Len(n.out_que_) = Len(queue)
          /\ Len(queue) \in 1..Len(queue)
      BY <1>2, <1>5, <2>1
    <3> QED BY <1>2, <1>5, <3>1 DEF Last
  <2> QED BY <1>3, <1>9, <2>2
<1> QED BY <1>9, <1>11, <1>13, <1>14 DEF m

(* A request for target has joined the queue.                                *)
NewRequest(n, m, target) ==
    /\ Len(m.out_que_) > Len(n.out_que_)
    /\ Last(m.out_que_) = RequestFor(n, target)

(* Postpone() lets the datagram wait and asks when nobody did lately.        *)
LEMMA PostponeIs ==
    ASSUME NEW n \in Interfaces, NEW ip \in AllIP, ~Knows(n, ip),
           NEW hp, NEW cl, Sound(n, hp, cl),
           NEW dgram \in Datagram, dgram \in DOMAIN hp, hp[dgram] = ip
    PROVE  LET m == Postpone(n, dgram, ip)
           IN  /\ m \in Interfaces /\ Sound(m, hp, cl)
               /\ \A d \in DOMAIN hp :
                     Held(m, hp, d) = Held(n, hp, d)
                                      + (IF d = dgram THEN 1 ELSE 0)
               /\ m.arpreq_survival_map_ =
                     IF MustAsk(n, ip) THEN Put(n.arpreq_survival_map_, ip, 0)
                     ELSE n.arpreq_survival_map_
               /\ \A target : NewRequest(n, m, target)
                                 <=> target = ip /\ MustAsk(n, ip)
<1> DEFINE queue == Waiting(n, ip)
           wait  == Put(n.wait_map, ip, Append(queue, dgram))
           w     == [n EXCEPT !.wait_map = wait]
           m     == Postpone(n, dgram, ip)
<1>1. /\ queue \in Seq(Datagram) /\ Append(queue, dgram) \in Seq(Datagram)
      /\ Len(queue) \in Nat /\ DOMAIN queue = 1..Len(queue)
      /\ DOMAIN Append(queue, dgram) = 1..(Len(queue) + 1)
      /\ Append(queue, dgram)[Len(queue) + 1] = dgram
      /\ \A i \in 1..Len(queue) : Append(queue, dgram)[i] = queue[i]
  <2>1. queue \in Seq(Datagram)
    BY WaitingIs
  <2> HIDE DEF queue
  <2> QED BY <2>1, AppendProperties, LenProperties
<1>2. /\ wait \in Tables(AllIP, Seq(Datagram))
      /\ DOMAIN wait = DOMAIN n.wait_map \cup {ip}
      /\ wait[ip] = Append(queue, dgram)
      /\ \A k \in DOMAIN n.wait_map \ {ip} : wait[k] = n.wait_map[k]
  <2> DEFINE old  == n.wait_map
             more == Append(queue, dgram)
             V    == Seq(Datagram)
  <2>1. old \in Tables(AllIP, V) /\ more \in V
    BY <1>1, Fields
  <2> HIDE DEF old, more, V
  <2>2. /\ Put(old, ip, more) \in Tables(AllIP, V)
        /\ DOMAIN Put(old, ip, more) = DOMAIN old \cup {ip}
        /\ Put(old, ip, more)[ip] = more
        /\ \A k \in DOMAIN old \ {ip} : Put(old, ip, more)[k] = old[k]
    BY <2>1, PutFacts
  <2> QED BY <2>2 DEF old, more, V
<1> HIDE DEF wait
<1>3. /\ w \in Interfaces /\ w.wait_map = wait
      /\ w.arp_ip2eth_map_ = n.arp_ip2eth_map_
      /\ w.arp_valid_time_map_ = n.arp_valid_time_map_
      /\ w.arpreq_survival_map_ = n.arpreq_survival_map_
      /\ w.out_que_ = n.out_que_
  BY <1>2, WaitFields
<1>4. /\ MustAsk(n, ip) =>
            m = [w EXCEPT !.out_que_ = Append(@, RequestFor(n, ip)),
                          !.arpreq_survival_map_ = Put(@, ip, 0)]
      /\ ~MustAsk(n, ip) => m = w
  BY DEF Postpone, wait, queue
<1> HIDE DEF w, m
<1>5. /\ Waiting(w, ip) = Append(queue, dgram)
      /\ \A k : k # ip => Waiting(w, k) = Waiting(n, k)
  BY <1>2, <1>3 DEF Waiting
<1>6. Sound(w, hp, cl)
  <2>1. ASSUME NEW k \in AllIP, NEW i \in DOMAIN Waiting(w, k)
        PROVE  Waiting(w, k)[i] \in DOMAIN hp /\ hp[Waiting(w, k)[i]] = k
    <3>1. CASE k # ip
      BY <1>5, <2>1, <3>1 DEF Sound
    <3>2. CASE k = ip
      <4>1. i \in 1..Len(queue) \/ i = Len(queue) + 1
        BY <1>1, <1>5, <2>1, <3>2
      <4>2. CASE i \in 1..Len(queue)
        <5>1. queue[i] \in DOMAIN hp /\ hp[queue[i]] = ip
          BY <1>1, <4>2 DEF Sound, queue
        <5> QED BY <1>1, <1>5, <3>2, <4>2, <5>1
      <4>3. CASE i = Len(queue) + 1
        BY <1>1, <1>5, <3>2, <4>3
      <4> QED BY <4>1, <4>2, <4>3
    <3> QED BY <3>1, <3>2
  <2> QED BY <1>3, <2>1 DEF Sound
<1>7. ASSUME NEW d \in DOMAIN hp
      PROVE  Held(w, hp, d) = Held(n, hp, d) + (IF d = dgram THEN 1 ELSE 0)
  <2>1. Occurrences(n.out_que_, FramesWith(d)) \in Nat
    <3>1. n.out_que_ \in Seq(OutFrames)
      BY Fields
    <3> QED BY <3>1, OccurrencesAre
  <2>2. CASE hp[d] = ip
    <3>1. Occurrences(Append(queue, dgram), {d}) =
              Occurrences(queue, {d}) + (IF dgram \in {d} THEN 1 ELSE 0)
      BY <1>1, OccurrencesAppended
    <3>2. Occurrences(queue, {d}) \in Nat
      BY <1>1, OccurrencesAre
    <3> DEFINE x == Occurrences(n.out_que_, FramesWith(d))
               y == Occurrences(queue, {d})
               z == Occurrences(Append(queue, dgram), {d})
    <3>3. Held(w, hp, d) = x + z
      BY <1>3, <1>5, <2>2 DEF Held
    <3>4. Held(n, hp, d) = x + y
      BY <2>2 DEF Held, queue
    <3>5. z = y + (IF d = dgram THEN 1 ELSE 0)
      BY <3>1
    <3>6. x \in Nat /\ y \in Nat
      BY <2>1, <3>2
    <3> HIDE DEF x, y, z
    <3> QED BY <3>3, <3>4, <3>5, <3>6
  <2>3. CASE hp[d] # ip
    <3>1. d # dgram
      BY <2>3
    <3>2. Waiting(n, hp[d]) \in Seq(Datagram)
      BY WaitingIs
    <3>3. Occurrences(Waiting(n, hp[d]), {d}) \in Nat
      BY <3>2, OccurrencesAre
    <3> QED BY <1>3, <1>5, <2>1, <2>3, <3>1, <3>3 DEF Held
  <2> QED BY <2>2, <2>3
<1>8. n.out_que_ \in Seq(OutFrames) /\ Len(n.out_que_) \in Nat
  BY Fields, LenProperties
<1>9. CASE ~MustAsk(n, ip)
  <2>1. \A target : ~NewRequest(n, m, target)
    BY <1>3, <1>4, <1>8, <1>9 DEF NewRequest
  <2> QED BY <1>3, <1>4, <1>6, <1>7, <1>9, <2>1 DEF m
<1>10. CASE MustAsk(n, ip)
  <2> DEFINE frame == RequestFor(n, ip)
             v     == [w EXCEPT !.out_que_ = Append(@, frame)]
             reqs  == Put(n.arpreq_survival_map_, ip, 0)
  <2>1. /\ frame \in OutFrames /\ ~IsData(frame)
        /\ \A target : RequestFor(n, target) = frame => target = ip
    BY RequestIs
  <2> HIDE DEF frame
  <2>2. /\ v \in Interfaces /\ Sound(v, hp, cl)
        /\ v.out_que_ = Append(w.out_que_, frame)
        /\ v.arp_ip2eth_map_ = w.arp_ip2eth_map_
        /\ v.arp_valid_time_map_ = w.arp_valid_time_map_
        /\ v.arpreq_survival_map_ = w.arpreq_survival_map_
        /\ v.wait_map = w.wait_map
        /\ \A k : Waiting(v, k) = Waiting(w, k)
        /\ Last(v.out_que_) = frame
        /\ \A d : Occurrences(v.out_que_, FramesWith(d)) =
                      Occurrences(w.out_que_, FramesWith(d)) + 0
    <3>1. Grounded(frame, hp, cl)
      BY <2>1 DEF Grounded
    <3>2. Sound(v, hp, cl)
      BY <1>3, <1>6, <2>1, <3>1, EnqueuedSound
    <3>3. /\ v \in Interfaces
          /\ v.out_que_ = Append(w.out_que_, frame)
          /\ v.arp_ip2eth_map_ = w.arp_ip2eth_map_
          /\ v.arp_valid_time_map_ = w.arp_valid_time_map_
          /\ v.arpreq_survival_map_ = w.arpreq_survival_map_
          /\ v.wait_map = w.wait_map
          /\ \A k : Waiting(v, k) = Waiting(w, k)
          /\ Last(v.out_que_) = frame
          /\ \A d : Occurrences(v.out_que_, FramesWith(d)) =
                        Occurrences(w.out_que_, FramesWith(d))
                        + (IF IsData(frame) /\ frame.payload = d THEN 1 ELSE 0)
      BY <1>3, <2>1, Enqueued
    <3> HIDE DEF v
    <3> QED BY <2>1, <3>2, <3>3
  <2>3. /\ reqs \in Tables(AllIP, Ages(MaxArpReqTime))
        /\ DOMAIN reqs = DOMAIN n.arpreq_survival_map_ \cup {ip}
        /\ \A k \in DOMAIN n.arpreq_survival_map_ \ {ip} :
              reqs[k] = n.arpreq_survival_map_[k]
    <3> DEFINE old == n.arpreq_survival_map_
    <3>1. old \in Tables(AllIP, Ages(MaxArpReqTime))
      BY Fields
    <3>2. MaxArpReqTime \in Nat \ {0}
      BY InterfaceAssumption
    <3> HIDE DEF old
    <3>3. /\ Put(old, ip, 0) \in Tables(AllIP, Ages(MaxArpReqTime))
          /\ DOMAIN Put(old, ip, 0) = DOMAIN old \cup {ip}
          /\ Put(old, ip, 0)[ip] = 0
          /\ \A k \in DOMAIN old \ {ip} : Put(old, ip, 0)[k] = old[k]
      <4>1. Put(old, ip, 0) \in Tables(AllIP, Ages(MaxArpReqTime))
        BY <3>1, <3>2, PutZero
      <4> QED BY <4>1 DEF Put
    <3> QED BY <3>3 DEF old
  <2>4. m = [v EXCEPT !.arpreq_survival_map_ = reqs]
    <3>1. m = [w EXCEPT !.out_que_ = Append(@, frame),
                        !.arpreq_survival_map_ = reqs]
      BY <1>3, <1>4, <1>10 DEF frame
    <3> HIDE DEF reqs
    <3> QED BY <1>3, <3>1 DEF Interfaces
  <2> HIDE DEF v, reqs
  <2>5. /\ m \in Interfaces /\ m.arpreq_survival_map_ = reqs
        /\ m.out_que_ = v.out_que_ /\ m.wait_map = v.wait_map
        /\ m.arp_ip2eth_map_ = v.arp_ip2eth_map_
        /\ m.arp_valid_time_map_ = v.arp_valid_time_map_
    BY <2>2, <2>3, <2>4 DEF Interfaces
  <2>6. \A k : Waiting(m, k) = Waiting(w, k)
    BY <2>2, <2>5 DEF Waiting
  <2>7. ip \notin DOMAIN n.arp_valid_time_map_
    BY DEF Sound, Knows
  <2>8. Sound(m, hp, cl)
    BY <1>3, <2>2, <2>3, <2>5, <2>6, <2>7 DEF Sound
  <2>9. \A target : NewRequest(n, m, target) <=> target = ip
    <3>1. Len(m.out_que_) = Len(n.out_que_) + 1
      BY <1>3, <1>8, <2>1, <2>2, <2>5, AppendProperties
    <3>2. Last(m.out_que_) = RequestFor(n, ip)
      BY <2>2, <2>5 DEF frame
    <3> QED BY <1>8, <2>1, <3>1, <3>2 DEF NewRequest, frame
  <2>10. ASSUME NEW d \in DOMAIN hp PROVE Held(m, hp, d) = Held(w, hp, d)
    <3>1. Occurrences(w.out_que_, FramesWith(d)) \in Nat
      BY <1>3, <1>8, OccurrencesAre
    <3> QED BY <2>2, <2>5, <2>6, <3>1 DEF Held
  <2> QED BY <1>7, <1>10, <2>5, <2>8, <2>9, <2>10 DEF m, reqs
<1> QED BY <1>9, <1>10

(* Sound stays so when the stack has sent more and the network claimed more. *)
LEMMA SoundGrows ==
    ASSUME NEW n \in Interfaces, NEW hp, NEW cl, Sound(n, hp, cl),
           NEW hp2, NEW cl2, cl \subseteq cl2, DOMAIN hp \subseteq DOMAIN hp2,
           \A d \in DOMAIN hp : hp2[d] = hp[d]
    PROVE  Sound(n, hp2, cl2)
<1>1. \A i \in DOMAIN n.out_que_ : Grounded(n.out_que_[i], hp2, cl2)
  BY DEF Sound, Grounded
<1> QED BY <1>1 DEF Sound

(* send_datagram() puts the datagram in one place, and asks only for its own *)
(* next hop, when no request for it is remembered.                           *)
LEMMA SendIs ==
    ASSUME NEW n \in Interfaces, NEW ip \in AllIP,
           NEW hp, NEW cl, Sound(n, hp, cl),
           NEW dgram \in Datagram, dgram \in DOMAIN hp, hp[dgram] = ip
    PROVE  LET m == send_datagram(n, dgram, ip)
           IN  /\ m \in Interfaces /\ Sound(m, hp, cl)
               /\ \A d \in DOMAIN hp :
                     Held(m, hp, d) = Held(n, hp, d)
                                      + (IF d = dgram THEN 1 ELSE 0)
               /\ \/ /\ m.arpreq_survival_map_ = n.arpreq_survival_map_
                     /\ \A target : ~NewRequest(n, m, target)
                  \/ /\ m.arpreq_survival_map_ =
                            Put(n.arpreq_survival_map_, ip, 0)
                     /\ ip \notin DOMAIN n.arpreq_survival_map_
                     /\ \A target : NewRequest(n, m, target) <=> target = ip
<1> DEFINE m == send_datagram(n, dgram, ip)
<1>1. CASE ~Knows(n, ip)
  <2>1. m = Postpone(n, dgram, ip)
    BY <1>1 DEF send_datagram
  <2> HIDE DEF m
  <2>2. /\ m \in Interfaces /\ Sound(m, hp, cl)
        /\ \A d \in DOMAIN hp :
              Held(m, hp, d) = Held(n, hp, d) + (IF d = dgram THEN 1 ELSE 0)
        /\ m.arpreq_survival_map_ =
              IF MustAsk(n, ip) THEN Put(n.arpreq_survival_map_, ip, 0)
              ELSE n.arpreq_survival_map_
        /\ \A target : NewRequest(n, m, target)
                          <=> target = ip /\ MustAsk(n, ip)
    BY <1>1, <2>1, PostponeIs
  <2>3. CASE MustAsk(n, ip)
    BY <2>2, <2>3 DEF MustAsk, m
  <2>4. CASE ~MustAsk(n, ip)
    BY <2>2, <2>4 DEF m
  <2> QED BY <2>3, <2>4
<1>2. CASE Knows(n, ip)
  <2> DEFINE frame == DatagramFrame(n, dgram, ip)
  <2>1. /\ frame \in OutFrames /\ IsData(frame)
        /\ frame.payload = dgram /\ frame.dst = n.arp_ip2eth_map_[ip]
        /\ \A target : frame # RequestFor(n, target)
    BY <1>2, DataFrameIs DEF Knows
  <2>2. m = [n EXCEPT !.out_que_ = Append(@, frame)]
    BY <1>2 DEF send_datagram
  <2> HIDE DEF frame, m
  <2>3. Grounded(frame, hp, cl)
    BY <1>2, <2>1 DEF Grounded, Sound, Knows
  <2>4. Sound(m, hp, cl)
    BY <2>1, <2>2, <2>3, EnqueuedSound
  <2>5. /\ m \in Interfaces
        /\ m.arpreq_survival_map_ = n.arpreq_survival_map_
        /\ \A k : Waiting(m, k) = Waiting(n, k)
        /\ Last(m.out_que_) = frame
        /\ \A d : Occurrences(m.out_que_, FramesWith(d)) =
                      Occurrences(n.out_que_, FramesWith(d))
                      + (IF IsData(frame) /\ frame.payload = d THEN 1 ELSE 0)
    BY <2>1, <2>2, Enqueued
  <2>6. \A target : ~NewRequest(n, m, target)
    BY <2>1, <2>5 DEF NewRequest
  <2>7. ASSUME NEW d \in DOMAIN hp
        PROVE  Held(m, hp, d) = Held(n, hp, d) + (IF d = dgram THEN 1 ELSE 0)
    <3>1. Occurrences(n.out_que_, FramesWith(d)) \in Nat
          /\ Occurrences(Waiting(n, hp[d]), {d}) \in Nat
      BY Fields, WaitingIs, OccurrencesAre
    <3>2. Occurrences(m.out_que_, FramesWith(d)) =
              Occurrences(n.out_que_, FramesWith(d)) + (IF d = dgram THEN 1 ELSE 0)
      BY <2>1, <2>5
    <3>3. Waiting(m, hp[d]) = Waiting(n, hp[d])
      BY <2>5
    <3> QED BY <3>1, <3>2, <3>3 DEF Held
  <2> QED BY <2>4, <2>5, <2>6, <2>7 DEF m
<1> QED BY <1>1, <1>2

(* What is in an interface's tables after ms have passed.                    *)
LEMMA AgedTable ==
    ASSUME NEW K, NEW limit \in Nat, NEW ages \in Tables(K, Ages(limit)),
           NEW ms \in Nat
    PROVE  Aged(ages, ms, limit) \in Tables(K, Ages(limit))
<1>1. StillYoung(ages, ms, limit) \in SUBSET K
  BY TableFacts DEF StillYoung
<1>2. \A ip \in StillYoung(ages, ms, limit) : ages[ip] + ms \in Ages(limit)
  <2> TAKE ip \in StillYoung(ages, ms, limit)
  <2>1. ages[ip] \in Ages(limit) /\ ages[ip] + ms < limit
    BY TableFacts DEF StillYoung
  <2> QED BY <2>1 DEF Ages
<1>3. Aged(ages, ms, limit) \in [StillYoung(ages, ms, limit) -> Ages(limit)]
  BY <1>2 DEF Aged
<1> QED BY <1>1, <1>3, MakeTable

(* Time takes old mappings and old requests away, and nothing else.          *)
LEMMA TickIs ==
    ASSUME NEW n \in Interfaces, NEW hp, NEW cl, Sound(n, hp, cl), NEW ms \in Nat
    PROVE  LET m == tick(n, ms)
           IN  /\ m \in Interfaces /\ Sound(m, hp, cl)
               /\ m.out_que_ = n.out_que_ /\ m.wait_map = n.wait_map
               /\ m.arpreq_survival_map_ =
                      Aged(n.arpreq_survival_map_, ms, MaxArpReqTime)
<1> DEFINE ages  == n.arp_valid_time_map_
           young == StillYoung(ages, ms, MaxArpMapTime)
           times == Aged(ages, ms, MaxArpMapTime)
           old   == n.arpreq_survival_map_
           reqs  == Aged(old, ms, MaxArpReqTime)
           arp   == Unexpired(n, ms)
           m     == tick(n, ms)
<1>1. /\ ages \in Tables(AllIP, Ages(MaxArpMapTime))
      /\ old \in Tables(AllIP, Ages(MaxArpReqTime))
      /\ n.arp_ip2eth_map_ \in Tables(AllIP, Eths)
      /\ MaxArpMapTime \in Nat /\ MaxArpReqTime \in Nat
  BY Fields, InterfaceAssumption
<1>2. /\ times \in Tables(AllIP, Ages(MaxArpMapTime))
      /\ DOMAIN times = young
      /\ \A k : k \in young <=> k \in DOMAIN ages /\ ages[k] + ms < MaxArpMapTime
      /\ \A k \in young : times[k] = ages[k] + ms
  <2>1. times \in Tables(AllIP, Ages(MaxArpMapTime))
    <3> HIDE DEF ages
    <3> QED BY <1>1, AgedTable
  <2> HIDE DEF ages
  <2> QED BY <2>1 DEF Aged, StillYoung
<1>3. /\ reqs \in Tables(AllIP, Ages(MaxArpReqTime))
      /\ \A k \in DOMAIN reqs : k \in DOMAIN old /\ reqs[k] = old[k] + ms
  <2>1. reqs \in Tables(AllIP, Ages(MaxArpReqTime))
    <3> HIDE DEF old
    <3> QED BY <1>1, AgedTable
  <2> HIDE DEF old
  <2> QED BY <2>1 DEF Aged, StillYoung
<1>4. young \in SUBSET DOMAIN n.arp_ip2eth_map_
      /\ arp = Restrict(n.arp_ip2eth_map_, young)
  <2>1. young \subseteq DOMAIN ages /\ DOMAIN n.arp_ip2eth_map_ = DOMAIN ages
    BY <1>2 DEF Sound
  <2>2. DOMAIN n.arp_ip2eth_map_ \ (DOMAIN ages \ young) = young
    BY <2>1
  <2> QED BY <2>1, <2>2 DEF Unexpired
<1>5. /\ arp \in Tables(AllIP, Eths) /\ DOMAIN arp = young
      /\ \A k \in young : arp[k] = n.arp_ip2eth_map_[k]
  BY <1>1, <1>4, RestrictFacts
<1>6. m = [n EXCEPT !.arp_ip2eth_map_ = arp, !.arp_valid_time_map_ = times,
                    !.arpreq_survival_map_ = reqs]
  BY DEF tick
<1> HIDE DEF arp, times, reqs, m, young
<1>7. /\ m \in Interfaces
      /\ m.arp_ip2eth_map_ = arp /\ m.arp_valid_time_map_ = times
      /\ m.arpreq_survival_map_ = reqs
      /\ m.out_que_ = n.out_que_ /\ m.wait_map = n.wait_map
  BY <1>2, <1>3, <1>5, <1>6 DEF Interfaces
<1> HIDE DEF ages, old
<1>8. ASSUME NEW k \in DOMAIN times, k \in DOMAIN reqs
      PROVE  times[k] <= reqs[k]
  <2>1. k \in DOMAIN ages /\ k \in DOMAIN old
    BY <1>2, <1>3, <1>8
  <2>2. ages[k] <= old[k]
    BY <2>1 DEF Sound, ages, old
  <2>3. ages[k] \in Ages(MaxArpMapTime) /\ old[k] \in Ages(MaxArpReqTime)
    BY <1>1, <2>1, TableFacts
  <2>4. times[k] = ages[k] + ms /\ reqs[k] = old[k] + ms
    BY <1>2, <1>3, <1>8
  <2> QED BY <1>1, <2>2, <2>3, <2>4 DEF Ages
<1>9. \A k : Waiting(m, k) = Waiting(n, k)
  BY <1>7 DEF Waiting
<1>10. \A k \in young : <<k, arp[k]>> \in cl
  BY <1>4, <1>5 DEF Sound
<1>11. Sound(m, hp, cl)
  BY <1>2, <1>5, <1>7, <1>8, <1>9, <1>10 DEF Sound
<1> QED BY <1>7, <1>11 DEF m, reqs, old

LEMMA TickTimes ==
    ASSUME NEW n \in Interfaces, NEW m, NEW ms \in Nat,
           NEW since, NEW since2,
           m.arpreq_survival_map_ =
               Aged(n.arpreq_survival_map_, ms, MaxArpReqTime),
           RequestTimes(n, since),
           \A ip \in AllIP : since2[ip] =
               IF since[ip] + ms < MaxArpReqTime THEN since[ip] + ms
               ELSE MaxArpReqTime
    PROVE  RequestTimes(m, since2)
<1> DEFINE old  == n.arpreq_survival_map_
           reqs == m.arpreq_survival_map_
<1>1. MaxArpReqTime \in Nat
  BY InterfaceAssumption
<1>2. /\ \A k : k \in DOMAIN reqs <=>
                   k \in DOMAIN old /\ old[k] + ms < MaxArpReqTime
      /\ \A k \in DOMAIN reqs : reqs[k] = old[k] + ms
  <2>1. reqs = Aged(old, ms, MaxArpReqTime)
    OBVIOUS
  <2> HIDE DEF old, reqs
  <2> QED BY <2>1 DEF Aged, StillYoung
<1> HIDE DEF old, reqs
<1>3. ASSUME NEW ip \in AllIP
      PROVE  since2[ip] = IF ip \in DOMAIN reqs THEN reqs[ip] ELSE MaxArpReqTime
  <2>1. CASE ip \in DOMAIN old
    <3>1. since[ip] = old[ip]
      BY <2>1 DEF RequestTimes, old
    <3> QED BY <1>2, <2>1, <3>1
  <2>2. CASE ip \notin DOMAIN old
    <3>1. since[ip] = MaxArpReqTime
      BY <2>2 DEF RequestTimes, old
    <3>2. ~(since[ip] + ms < MaxArpReqTime)
      BY <1>1, <3>1
    <3> QED BY <1>2, <2>2, <3>2
  <2> QED BY <2>1, <2>2
<1> QED BY <1>3 DEF RequestTimes, reqs

(* The frames that arrive carry ARP messages of others.                      *)
LEMMA FrameIs ==
    ASSUME NEW frame \in Frames
    PROVE  \/ ~IsRequest(frame) /\ ~IsReply(frame)
           \/ /\ frame.type = "ARP"
              /\ frame.payload.sender_ip_address \in AllIP
              /\ frame.payload.sender_ethernet_address \in Eths
              /\ IsReply(frame) =>
                    /\ frame.payload.target_ethernet_address = Own
                    /\ frame.payload.target_ip_address = OwnIP
<1>1. CASE frame \in {Frame(Own, NoAddress, "garbage", NoAddress)}
  BY <1>1 DEF Frame, IsRequest, IsReply
<1>2. CASE frame \in {Frame(dst, NoAddress, "ARP", msg) :
                         dst \in {Own, Other, ETHERNET_BROADCAST},
                         msg \in ARPMessages}
  <2>1. PICK dst \in {Own, Other, ETHERNET_BROADCAST}, msg \in ARPMessages :
           frame = Frame(dst, NoAddress, "ARP", msg)
    BY <1>2
  <2>2. frame.type = "ARP" /\ frame.payload = msg
    BY <2>1 DEF Frame
  <2>3. CASE msg \in {ARPMessage("REQUEST", eth, ip, NoAddress, target) :
                         eth \in PeerEth, ip \in PeerIP, target \in AllIP}
    BY <2>2, <2>3 DEF ARPMessage, IsReply, AllIP, Eths
  <2>4. CASE msg \in {ARPMessage("REPLY", eth, ip, Own, OwnIP) :
                         eth \in PeerEth, ip \in PeerIP}
    BY <2>2, <2>4 DEF ARPMessage, AllIP, Eths
  <2> QED BY <2>1, <2>3, <2>4 DEF ARPMessages
<1> QED BY <1>1, <1>2 DEF Frames

(* Nothing that is received moves a datagram, except from where it waits     *)
(* into a frame; and nothing that is received asks.                          *)
LEMMA ReceiveIs ==
    ASSUME NEW n \in Interfaces, NEW hp, NEW cl, Sound(n, hp, cl),
           NEW frame \in Frames
    PROVE  LET m == recv_frame(n, frame)
           IN  /\ m \in Interfaces /\ Sound(m, hp, cl \cup Claimed(frame))
               /\ m.arpreq_survival_map_ = n.arpreq_survival_map_
               /\ \A d \in DOMAIN hp : Held(m, hp, d) = Held(n, hp, d)
               /\ \A target : ~NewRequest(n, m, target)
<1> DEFINE m   == recv_frame(n, frame)
           cl2 == cl \cup Claimed(frame)
           msg == frame.payload
           ip  == msg.sender_ip_address
           eth == msg.sender_ethernet_address
<1>1. Sound(n, hp, cl2)
  BY SoundGrows
<1>2. /\ Len(n.out_que_) \in Nat
      /\ \A d \in DOMAIN hp : Occurrences(n.out_que_, FramesWith(d)) \in Nat
  BY Fields, LenProperties, OccurrencesAre
<1>3. ForMe(n, frame) => frame.dst # Other
  BY Fields, PeerAssumption DEF ForMe
<1>4. CASE ~(ForMe(n, frame) /\ (IsRequest(frame) \/ IsReply(frame)))
  <2>1. m = n
    BY <1>4 DEF recv_frame
  <2> HIDE DEF m
  <2>2. \A target : ~NewRequest(n, m, target)
    BY <1>2, <2>1 DEF NewRequest
  <2> QED BY <1>1, <2>1, <2>2 DEF m
<1>5. CASE ForMe(n, frame) /\ (IsRequest(frame) \/ IsReply(frame))
  <2> DEFINE a == Learned(n, eth, ip)
  <2>1. /\ frame.type = "ARP" /\ ip \in AllIP /\ eth \in Eths
        /\ IsReply(frame) => /\ msg.target_ethernet_address = Own
                             /\ msg.target_ip_address = OwnIP
    BY <1>5, FrameIs
  <2>2. <<ip, eth>> \in cl2
    BY <1>3, <1>5, <2>1 DEF Claimed
  <2>3. /\ a \in Interfaces /\ Sound(a, hp, cl2) /\ Knows(a, ip)
        /\ a.out_que_ = n.out_que_
        /\ a.arpreq_survival_map_ = n.arpreq_survival_map_
        /\ a.wait_map = n.wait_map
    <3> HIDE DEF ip, eth, cl2
    <3> QED BY <1>1, <2>1, <2>2, LearnedIs
  <2>4. CASE IsRequest(frame)
    <3>1. m = IF msg.target_ip_address = n.ip_address_
              THEN [a EXCEPT !.out_que_ = Append(@, ReplyTo(n, msg))] ELSE a
      BY <1>5, <2>4 DEF recv_frame, ReceiveRequest, IsRequest, IsReply
    <3> HIDE DEF m, a
    <3>2. CASE m = a
      <4>1. \A target : ~NewRequest(n, m, target)
        BY <1>2, <2>3, <3>2 DEF NewRequest
      <4>2. \A d \in DOMAIN hp : Held(m, hp, d) = Held(n, hp, d)
        BY <2>3, <3>2 DEF Held, Waiting
      <4> QED BY <2>3, <3>2, <4>1, <4>2 DEF m
    <3>3. CASE m # a
      <4> DEFINE reply == ReplyTo(n, msg)
      <4>1. m = [a EXCEPT !.out_que_ = Append(@, reply)]
        BY <3>1, <3>3
      <4>2. /\ reply \in OutFrames /\ ~IsData(reply)
            /\ \A target : reply # RequestFor(n, target)
        <5> HIDE DEF msg
        <5> QED BY <2>1, ReplyIs DEF ip, eth
      <4> HIDE DEF reply
      <4>3. /\ m \in Interfaces
            /\ m.arpreq_survival_map_ = a.arpreq_survival_map_
            /\ \A k : Waiting(m, k) = Waiting(a, k)
            /\ Last(m.out_que_) = reply
            /\ \A d : Occurrences(m.out_que_, FramesWith(d)) =
                          Occurrences(a.out_que_, FramesWith(d))
                          + (IF IsData(reply) /\ reply.payload = d
                             THEN 1 ELSE 0)
        <5> DEFINE v == [a EXCEPT !.out_que_ = Append(@, reply)]
        <5>1. a \in Interfaces /\ reply \in OutFrames /\ m = v
          BY <2>3, <4>1, <4>2
        <5>2. /\ v \in Interfaces
              /\ v.arpreq_survival_map_ = a.arpreq_survival_map_
              /\ \A k : Waiting(v, k) = Waiting(a, k)
              /\ Last(v.out_que_) = reply
              /\ \A d : Occurrences(v.out_que_, FramesWith(d)) =
                            Occurrences(a.out_que_, FramesWith(d))
                            + (IF IsData(reply) /\ reply.payload = d
                               THEN 1 ELSE 0)
          BY <5>1, Enqueued
        <5> HIDE DEF v
        <5> QED BY <5>1, <5>2
      <4>4. Sound(m, hp, cl2)
        <5>1. Grounded(reply, hp, cl2)
          BY <4>2 DEF Grounded
        <5> HIDE DEF cl2
        <5> QED BY <2>3, <4>1, <4>2, <5>1, EnqueuedSound
      <4>5. ASSUME NEW d \in DOMAIN hp PROVE Held(m, hp, d) = Held(n, hp, d)
        <5>1. Occurrences(m.out_que_, FramesWith(d)) =
                  Occurrences(n.out_que_, FramesWith(d))
          BY <1>2, <2>3, <4>2, <4>3
        <5>2. Waiting(m, hp[d]) = Waiting(n, hp[d])
          BY <2>3, <4>3 DEF Waiting
        <5> QED BY <5>1, <5>2 DEF Held
      <4>6. \A target : ~NewRequest(n, m, target)
        BY <4>2, <4>3 DEF NewRequest
      <4> QED BY <2>3, <4>3, <4>4, <4>5, <4>6 DEF m
    <3> QED BY <3>2, <3>3
  <2>5. CASE IsReply(frame)
    <3> DEFINE b == Learned(a, msg.target_ethernet_address, msg.target_ip_address)
    <3>1. m = Flushed(b, ip)
      BY <1>5, <2>5 DEF recv_frame, ReceiveReply, IsRequest, IsReply
    <3>2. b = Learned(a, Own, OwnIP)
      BY <2>1, <2>5
    <3>3. <<OwnIP, Own>> \in cl2 /\ OwnIP \in AllIP /\ Own \in Eths
      BY <1>3, <1>5, <2>1, <2>5 DEF Claimed, AllIP, Eths
    <3> HIDE DEF a, b, m, cl2
    <3>4. /\ b \in Interfaces /\ Sound(b, hp, cl2) /\ Knows(b, ip)
          /\ b.out_que_ = a.out_que_
          /\ b.arpreq_survival_map_ = a.arpreq_survival_map_
          /\ b.wait_map = a.wait_map
      BY <2>3, <3>2, <3>3, LearnedIs
    <3> HIDE DEF ip
    <3>5. /\ m \in Interfaces /\ Sound(m, hp, cl2)
          /\ m.arpreq_survival_map_ = b.arpreq_survival_map_
          /\ \A d \in DOMAIN hp : Held(m, hp, d) = Held(b, hp, d)
          /\ Len(m.out_que_) > Len(b.out_que_) =>
                \A target : Last(m.out_que_) # RequestFor(b, target)
      BY <2>1, <3>1, <3>4, FlushedIs
    <3>6. \A target : RequestFor(b, target) = RequestFor(n, target)
      BY <3>4, Fields DEF RequestFor
    <3>7. \A target : ~NewRequest(n, m, target)
      BY <2>3, <3>4, <3>5, <3>6 DEF NewRequest
    <3>8. \A d \in DOMAIN hp : Held(b, hp, d) = Held(n, hp, d)
      BY <2>3, <3>4 DEF Held, Waiting
    <3> QED BY <2>3, <3>4, <3>5, <3>7, <3>8 DEF m, cl2
  <2> QED BY <1>5, <2>4, <2>5
<1> QED BY <1>4, <1>5

(* maybe_send() takes the datagram of the first frame, if it carries one,    *)
(* from the queue of frames.                                                 *)
LEMMA LeaveIs ==
    ASSUME NEW n \in Interfaces, NEW hp, NEW cl, Sound(n, hp, cl), CanSend(n)
    PROVE  LET m == maybe_send(n)
           IN  /\ m \in Interfaces /\ Sound(m, hp, cl)
               /\ m.arpreq_survival_map_ = n.arpreq_survival_map_
               /\ \A d \in DOMAIN hp :
                     Held(n, hp, d) =
                         (IF IsData(NextFrame(n)) /\ NextFrame(n).payload = d
                          THEN 1 ELSE 0) + Held(m, hp, d)
               /\ IsData(NextFrame(n)) => NextFrame(n).payload \in DOMAIN hp
               /\ \A target : ~NewRequest(n, m, target)
<1> DEFINE queue == n.out_que_
           rest  == Tail(queue)
           first == Head(queue)
           m     == [n EXCEPT !.out_que_ = rest]
<1>1. queue \in Seq(OutFrames) /\ queue # <<>>
  BY Fields DEF CanSend
<1>2. /\ Len(queue) \in Nat /\ Len(queue) > 0 /\ DOMAIN queue = 1..Len(queue)
      /\ first \in OutFrames /\ first = queue[1]
      /\ rest \in Seq(OutFrames) /\ Len(rest) = Len(queue) - 1
      /\ DOMAIN rest = 1..Len(rest)
      /\ \A i \in 1..Len(rest) : rest[i] = queue[i + 1]
  <2> HIDE DEF queue
  <2>1. /\ first \in OutFrames /\ rest \in Seq(OutFrames)
        /\ Len(rest) = Len(queue) - 1 /\ first = queue[1]
        /\ \A i \in 1..Len(rest) : rest[i] = queue[i + 1]
    BY <1>1, HeadTailProperties, EmptySeq
  <2>2. Len(queue) \in Nat /\ Len(queue) # 0 /\ DOMAIN queue = 1..Len(queue)
    BY <1>1, LenProperties, EmptySeq
  <2>3. DOMAIN rest = 1..Len(rest)
    BY <2>1, LenProperties
  <2> QED BY <2>1, <2>2, <2>3
<1>3. \A V : Occurrences(queue, V) =
                 (IF first \in V THEN 1 ELSE 0) + Occurrences(rest, V)
  <2> HIDE DEF queue
  <2> QED BY <1>1, OccurrencesInTail
<1>4. \A d : first \in FramesWith(d) <=> IsData(first) /\ first.payload = d
  BY <1>2 DEF FramesWith
<1> HIDE DEF rest, first
<1>5. /\ m \in Interfaces /\ m.out_que_ = rest
      /\ m.arp_ip2eth_map_ = n.arp_ip2eth_map_
      /\ m.arp_valid_time_map_ = n.arp_valid_time_map_
      /\ m.arpreq_survival_map_ = n.arpreq_survival_map_
      /\ m.wait_map = n.wait_map
  BY <1>2, OutFields
<1> HIDE DEF m
<1>6. \A k : Waiting(m, k) = Waiting(n, k)
  BY <1>5 DEF Waiting
<1>7. \A i \in DOMAIN queue : Grounded(queue[i], hp, cl)
  BY DEF Sound
<1> HIDE DEF queue
<1>8. \A i \in DOMAIN rest : Grounded(rest[i], hp, cl)
  <2>1. \A i \in DOMAIN rest : i + 1 \in DOMAIN queue /\ rest[i] = queue[i + 1]
    BY <1>2
  <2> QED BY <1>7, <2>1
<1>9. Sound(m, hp, cl)
  BY <1>5, <1>6, <1>8 DEF Sound
<1>10. Grounded(first, hp, cl)
  BY <1>2, <1>7
<1>11. ASSUME NEW d \in DOMAIN hp
       PROVE  Held(n, hp, d) =
                  (IF IsData(first) /\ first.payload = d THEN 1 ELSE 0)
                  + Held(m, hp, d)
  <2> DEFINE x == Occurrences(queue, FramesWith(d))
             y == Occurrences(rest, FramesWith(d))
             z == Occurrences(Waiting(n, hp[d]), {d})
             k == IF IsData(first) /\ first.payload = d THEN 1 ELSE 0
  <2>1. x = k + y
    BY <1>3, <1>4
  <2>2. Held(n, hp, d) = x + z /\ Held(m, hp, d) = y + z
    BY <1>5, <1>6 DEF Held, queue
  <2>3. x \in Nat /\ y \in Nat /\ z \in Nat /\ k \in {0, 1}
    BY <1>1, <1>2, WaitingIs, OccurrencesAre
  <2> HIDE DEF x, y, z
  <2>4. x + z = k + (y + z)
    BY <2>1, <2>3
  <2> QED BY <2>2, <2>4
<1>12. \A target : ~NewRequest(n, m, target)
  BY <1>2, <1>5 DEF NewRequest, queue
<1>13. m = maybe_send(n) /\ first = NextFrame(n)
  BY DEF maybe_send, NextFrame, m, first, rest, queue
<1> QED BY <1>5, <1>9, <1>10, <1>11, <1>12, <1>13 DEF Grounded
---------------------------------------------------------------------------
LEMMA InitHolds == ASSUME Init PROVE IInv
<1>1. /\ EmptyMap \in [{} -> {}] /\ DOMAIN EmptyMap = {}
      /\ \A K, V : EmptyMap \in Tables(K, V)
  <2>1. EmptyMap \in [{} -> {}] /\ DOMAIN EmptyMap = {}
    BY DEF EmptyMap
  <2>2. \A V : EmptyMap \in [{} -> V]
    BY DEF EmptyMap
  <2> QED BY <2>1, <2>2, MakeTable
<1>2. /\ nif.ethernet_address_ = Own /\ nif.ip_address_ = OwnIP
      /\ nif.arp_ip2eth_map_ = EmptyMap /\ nif.arp_valid_time_map_ = EmptyMap
      /\ nif.arpreq_survival_map_ = EmptyMap /\ nif.wait_map = EmptyMap
      /\ nif.out_que_ = <<>>
  BY DEF Init, NewInterface
<1>3. <<>> \in Seq(OutFrames) /\ DOMAIN (<<>>) = {}
  BY EmptySeq
<1>4. nif \in Interfaces
  <2> DEFINE none == EmptyMap
             no   == <<>>
  <2>1. nif = [ethernet_address_     |-> Own,  ip_address_           |-> OwnIP,
               arp_ip2eth_map_       |-> none, arp_valid_time_map_   |-> none,
               arpreq_survival_map_  |-> none, wait_map              |-> none,
               out_que_              |-> no]
    BY DEF Init, NewInterface
  <2>2. (\A K, V : none \in Tables(K, V)) /\ no \in Seq(OutFrames)
    BY <1>1, <1>3
  <2> HIDE DEF none, no
  <2> QED BY <2>1, <2>2 DEF Interfaces
<1>5. \A ip : Waiting(nif, ip) = <<>>
  BY <1>1, <1>2 DEF Waiting
<1>6. Sound(nif, hop, claims)
  BY <1>1, <1>2, <1>3, <1>5 DEF Sound
<1>7. hop = EmptyMap /\ released = {}
      /\ sinceRequest = [ip \in AllIP |-> MaxArpReqTime]
  BY DEF Init
<1>8. hop \in Tables(Datagram, AllIP) /\ released \subseteq DOMAIN hop
      /\ Accounted(nif, hop, released)
  BY <1>1, <1>7 DEF Accounted
<1>9. MaxArpReqTime \in 0..MaxArpReqTime
  BY InterfaceAssumption
<1>10. sinceRequest \in [AllIP -> 0..MaxArpReqTime]
       /\ RequestTimes(nif, sinceRequest)
  BY <1>1, <1>2, <1>7, <1>9 DEF RequestTimes
<1> QED BY <1>4, <1>6, <1>8, <1>10 DEF IInv

(* A datagram that the stack has not sent yet is nowhere.                    *)
LEMMA NowhereBefore ==
    ASSUME NEW n \in Interfaces, NEW hp, NEW cl, Sound(n, hp, cl),
           NEW dgram, dgram \notin DOMAIN hp, NEW hp2, hp2[dgram] \in AllIP
    PROVE  Held(n, hp2, dgram) = 0
<1>1. n.out_que_ \in Seq(OutFrames) /\ Waiting(n, hp2[dgram]) \in Seq(Datagram)
  BY Fields, WaitingIs
<1>2. \A i \in DOMAIN n.out_que_ : n.out_que_[i] \notin FramesWith(dgram)
  BY DEF Sound, Grounded, FramesWith
<1>3. \A i \in DOMAIN Waiting(n, hp2[dgram]) :
         Waiting(n, hp2[dgram])[i] \notin {dgram}
  BY DEF Sound
<1>4. Occurrences(n.out_que_, FramesWith(dgram)) = 0
  BY <1>1, <1>2, OccurrencesAre
<1>5. Occurrences(Waiting(n, hp2[dgram]), {dgram}) = 0
  BY <1>1, <1>3, OccurrencesAre
<1> QED BY <1>4, <1>5 DEF Held

LEMMA SendKeeps ==
    ASSUME IInv, NEW dgram \in Datagram, NEW ip \in AllIP,
           StackSends(dgram, ip)
    PROVE  /\ IInv'
           /\ \A target \in AllIP : NewRequest(nif, nif', target) =>
                                        sinceRequest[target] = MaxArpReqTime
<1> DEFINE hp == Put(hop, dgram, ip)
           m  == send_datagram(nif, dgram, ip)
           reqs == nif.arpreq_survival_map_
<1>1. /\ nif \in Interfaces /\ hop \in Tables(Datagram, AllIP)
      /\ Sound(nif, hop, claims) /\ Accounted(nif, hop, released)
      /\ released \subseteq DOMAIN hop /\ RequestTimes(nif, sinceRequest)
      /\ sinceRequest \in [AllIP -> 0..MaxArpReqTime]
  BY DEF IInv
<1>2. /\ dgram \notin DOMAIN hop /\ nif' = m /\ hop' = hp
      /\ released' = released /\ claims' = claims
      /\ sinceRequest' = IF Asks(ip) THEN [sinceRequest EXCEPT ![ip] = 0]
                         ELSE sinceRequest
  BY DEF StackSends
<1>3. /\ hp \in Tables(Datagram, AllIP) /\ DOMAIN hp = DOMAIN hop \cup {dgram}
      /\ hp[dgram] = ip /\ \A d \in DOMAIN hop : hp[d] = hop[d]
  BY <1>1, <1>2, PutFacts
<1> HIDE DEF hp
<1>4. Sound(nif, hp, claims)
  BY <1>1, <1>3, SoundGrows
<1>5. /\ m \in Interfaces /\ Sound(m, hp, claims)
      /\ \A d \in DOMAIN hp :
            Held(m, hp, d) = Held(nif, hp, d) + (IF d = dgram THEN 1 ELSE 0)
      /\ \/ /\ m.arpreq_survival_map_ = reqs
            /\ \A target : ~NewRequest(nif, m, target)
         \/ /\ m.arpreq_survival_map_ = Put(reqs, ip, 0)
            /\ ip \notin DOMAIN reqs
            /\ \A target : NewRequest(nif, m, target) <=> target = ip
  BY <1>1, <1>3, <1>4, SendIs
<1> HIDE DEF m
<1>6. ASSUME NEW d \in DOMAIN hp
      PROVE  Held(m, hp, d) + (IF d \in released THEN 1 ELSE 0) = 1
  <2>1. CASE d = dgram
    <3>1. Held(nif, hp, d) = 0
      BY <1>1, <1>2, <1>3, <2>1, NowhereBefore
    <3> QED BY <1>1, <1>2, <1>5, <2>1, <3>1
  <2>2. CASE d # dgram
    <3>1. Held(nif, hp, d) = Held(nif, hop, d)
      BY <1>3, <2>2 DEF Held
    <3>2. Held(nif, hop, d) + (IF d \in released THEN 1 ELSE 0) = 1
      BY <1>1, <1>3, <2>2 DEF Accounted
    <3>3. Held(nif, hop, d) \in Nat
      BY <1>1, Fields, WaitingIs, OccurrencesAre DEF Held
    <3> QED BY <1>5, <2>2, <3>1, <3>2, <3>3
  <2> QED BY <2>1, <2>2
<1>7. Asks(ip) <=> NewRequest(nif, m, ip)
  BY <1>2 DEF Asks, NewRequest
<1>8. /\ sinceRequest' \in [AllIP -> 0..MaxArpReqTime]
      /\ RequestTimes(m, sinceRequest')
  <2>1. CASE /\ m.arpreq_survival_map_ = reqs
             /\ \A target : ~NewRequest(nif, m, target)
    BY <1>1, <1>2, <1>7, <2>1 DEF RequestTimes
  <2>2. CASE /\ m.arpreq_survival_map_ = Put(reqs, ip, 0)
             /\ \A target : NewRequest(nif, m, target) <=> target = ip
    <3>1. sinceRequest' = [sinceRequest EXCEPT ![ip] = 0]
      BY <1>2, <1>7, <2>2
    <3>2. /\ sinceRequest' \in [AllIP -> 0..MaxArpReqTime]
          /\ sinceRequest'[ip] = 0
          /\ \A k \in AllIP \ {ip} : sinceRequest'[k] = sinceRequest[k]
      <4>1. 0 \in 0..MaxArpReqTime
        BY InterfaceAssumption
      <4> QED BY <1>1, <3>1, <4>1
    <3>3. /\ DOMAIN Put(reqs, ip, 0) = DOMAIN reqs \cup {ip}
          /\ Put(reqs, ip, 0)[ip] = 0
          /\ \A k \in DOMAIN reqs \ {ip} : Put(reqs, ip, 0)[k] = reqs[k]
      BY DEF Put
    <3>4. ASSUME NEW k \in AllIP
          PROVE  sinceRequest'[k] = IF k \in DOMAIN m.arpreq_survival_map_
                                    THEN m.arpreq_survival_map_[k]
                                    ELSE MaxArpReqTime
      <4>1. CASE k = ip
        BY <2>2, <3>2, <3>3, <4>1
      <4>2. CASE k # ip
        BY <1>1, <2>2, <3>2, <3>3, <4>2 DEF RequestTimes
      <4> QED BY <4>1, <4>2
    <3> QED BY <3>2, <3>4 DEF RequestTimes
  <2> QED BY <1>5, <2>1, <2>2
<1>9. ASSUME NEW target \in AllIP, NewRequest(nif, m, target)
      PROVE  sinceRequest[target] = MaxArpReqTime
  BY <1>1, <1>5, <1>9 DEF RequestTimes
<1>10. Accounted(m, hp, released)
  BY <1>6 DEF Accounted
<1>11. released \subseteq DOMAIN hp
  BY <1>1, <1>3
<1> QED BY <1>2, <1>3, <1>5, <1>8, <1>9, <1>10, <1>11 DEF IInv

LEMMA ReceiveKeeps ==
    ASSUME IInv, NEW frame \in Frames, FrameArrives(frame)
    PROVE  /\ IInv'
           /\ \A target : ~NewRequest(nif, nif', target)
<1> DEFINE m   == recv_frame(nif, frame)
           cl2 == claims \cup Claimed(frame)
<1>1. /\ nif' = m /\ claims' = cl2
      /\ hop' = hop /\ released' = released /\ sinceRequest' = sinceRequest
  BY DEF FrameArrives
<1>2. /\ m \in Interfaces /\ Sound(m, hop, cl2)
      /\ m.arpreq_survival_map_ = nif.arpreq_survival_map_
      /\ \A d \in DOMAIN hop : Held(m, hop, d) = Held(nif, hop, d)
      /\ \A target : ~NewRequest(nif, m, target)
  BY ReceiveIs DEF IInv
<1> HIDE DEF m, cl2
<1>3. Accounted(m, hop, released) /\ RequestTimes(m, sinceRequest)
  BY <1>2 DEF IInv, Accounted, RequestTimes
<1> QED BY <1>1, <1>2, <1>3 DEF IInv

LEMMA TimeKeeps ==
    ASSUME IInv, NEW ms \in 1..2, TimePasses(ms)
    PROVE  /\ IInv'
           /\ \A target : ~NewRequest(nif, nif', target)
<1> DEFINE m == tick(nif, ms)
<1>1. /\ nif' = m /\ claims' = claims /\ hop' = hop /\ released' = released
      /\ sinceRequest' = [ip \in AllIP |->
             IF sinceRequest[ip] + ms < MaxArpReqTime
             THEN sinceRequest[ip] + ms ELSE MaxArpReqTime]
      /\ ms \in Nat
  BY DEF TimePasses
<1>2. /\ m \in Interfaces /\ Sound(m, hop, claims)
      /\ m.out_que_ = nif.out_que_ /\ m.wait_map = nif.wait_map
      /\ m.arpreq_survival_map_ =
             Aged(nif.arpreq_survival_map_, ms, MaxArpReqTime)
  BY <1>1, TickIs DEF IInv
<1> HIDE DEF m
<1>3. RequestTimes(m, sinceRequest')
  BY <1>1, <1>2, TickTimes DEF IInv
<1>4. \A d : Held(m, hop, d) = Held(nif, hop, d)
  BY <1>2 DEF Held, Waiting
<1>5. Accounted(m, hop, released)
  BY <1>4 DEF IInv, Accounted
<1>6. sinceRequest' \in [AllIP -> 0..MaxArpReqTime]
  <2>1. \A ip \in AllIP : sinceRequest[ip] \in 0..MaxArpReqTime
    BY DEF IInv
  <2>2. MaxArpReqTime \in Nat
    BY InterfaceAssumption
  <2>3. ASSUME NEW ip \in AllIP
        PROVE  (IF sinceRequest[ip] + ms < MaxArpReqTime
                THEN sinceRequest[ip] + ms ELSE MaxArpReqTime)
                   \in 0..MaxArpReqTime
    BY <1>1, <2>1, <2>2
  <2> QED BY <1>1, <2>3
<1>7. \A target : ~NewRequest(nif, m, target)
  <2>1. Len(nif.out_que_) \in Nat
    BY Fields, LenProperties DEF IInv
  <2> QED BY <1>2, <2>1 DEF NewRequest
<1> QED BY <1>1, <1>2, <1>3, <1>5, <1>6, <1>7 DEF IInv

LEMMA LeaveKeeps ==
    ASSUME IInv, FrameLeaves
    PROVE  /\ IInv'
           /\ \A target : ~NewRequest(nif, nif', target)
<1> DEFINE m     == maybe_send(nif)
           first == NextFrame(nif)
<1>1. /\ nif' = m /\ claims' = claims /\ hop' = hop
      /\ sinceRequest' = sinceRequest
      /\ released' = IF IsData(first) THEN released \cup {first.payload}
                     ELSE released
      /\ CanSend(nif)
  BY DEF FrameLeaves
<1>2. /\ m \in Interfaces /\ Sound(m, hop, claims)
      /\ m.arpreq_survival_map_ = nif.arpreq_survival_map_
      /\ \A d \in DOMAIN hop :
            Held(nif, hop, d) = (IF IsData(first) /\ first.payload = d
                                 THEN 1 ELSE 0) + Held(m, hop, d)
      /\ IsData(first) => first.payload \in DOMAIN hop
      /\ \A target : ~NewRequest(nif, m, target)
  BY <1>1, LeaveIs DEF IInv
<1> HIDE DEF m, first
<1>3. ASSUME NEW d \in DOMAIN hop
      PROVE  Held(m, hop, d) + (IF d \in released' THEN 1 ELSE 0) = 1
  <2>1. /\ Held(nif, hop, d) + (IF d \in released THEN 1 ELSE 0) = 1
        /\ Held(m, hop, d) \in Nat
    <3>1. m.out_que_ \in Seq(OutFrames) /\ Waiting(m, hop[d]) \in Seq(Datagram)
      BY <1>2, Fields, WaitingIs
    <3> QED BY <3>1, OccurrencesAre DEF IInv, Accounted, Held
  <2>2. CASE IsData(first) /\ first.payload = d
    BY <1>1, <1>2, <2>1, <2>2
  <2>3. CASE ~(IsData(first) /\ first.payload = d)
    BY <1>1, <1>2, <2>1, <2>3
  <2> QED BY <2>2, <2>3
<1>4. Accounted(m, hop, released')
  BY <1>3 DEF Accounted
<1>5. released' \subseteq DOMAIN hop
  BY <1>1, <1>2 DEF IInv
<1>6. RequestTimes(m, sinceRequest)
  BY <1>2 DEF IInv, RequestTimes
<1> QED BY <1>1, <1>2, <1>4, <1>5, <1>6 DEF IInv

LEMMA NextKeeps ==
    ASSUME IInv, [Next]_vars
    PROVE  /\ IInv'
           /\ \A target \in AllIP : NewRequest(nif, nif', target) =>
                                        sinceRequest[target] = MaxArpReqTime
<1>1. CASE \E dgram \in Datagram, ip \in AllIP : StackSends(dgram, ip)
  BY <1>1, SendKeeps
<1>2. CASE \E frame \in Frames : FrameArrives(frame)
  BY <1>2, ReceiveKeeps
<1>3. CASE \E ms \in 1..2 : TimePasses(ms)
  BY <1>3, TimeKeeps
<1>4. CASE FrameLeaves
  BY <1>4, LeaveKeeps
<1>5. CASE UNCHANGED vars
  <2>1. IInv'
    BY <1>5 DEF vars, IInv
  <2>2. Len(nif.out_que_) \in Nat /\ nif' = nif
    BY <1>5, Fields, LenProperties DEF vars, IInv
  <2> QED BY <2>1, <2>2 DEF NewRequest
<1> QED BY <1>1, <1>2, <1>3, <1>4, <1>5 DEF Next
---------------------------------------------------------------------------
LEMMA Inductive == Spec => []IInv
<1>1. Init => IInv
  BY InitHolds
<1>2. IInv /\ [Next]_vars => IInv'
  BY NextKeeps
<1> QED BY <1>1, <1>2, PTL DEF Spec

(* Every datagram the stack sent is in the queue of frames, or waits for its *)
(* own next hop, or was handed out, once: whatever replies come when.        *)
THEOREM NoneLostNoneTwice == Spec => []DatagramsAccounted
<1>1. IInv => DatagramsAccounted
  BY AccountIs, Fields DEF IInv
<1> QED BY <1>1, Inductive, PTL

(* A datagram's frame goes to an address that claimed the next hop.          *)
THEOREM FollowClaims == Spec => []FramesFollowClaims
<1>1. IInv => FramesFollowClaims
  BY DEF IInv, Sound, Grounded, FramesFollowClaims
<1> QED BY <1>1, Inductive, PTL

(* The two tables of mappings have the same keys, and no mapping outlives    *)
(* the entry that keeps its next hop from being asked for again.             *)
THEOREM Askable == Spec => []ExpiredMeansAskable
<1>1. IInv => ExpiredMeansAskable
  BY DEF IInv, Sound, ExpiredMeansAskable
<1> QED BY <1>1, Inductive, PTL

(* An address is asked for at most once in MaxArpReqTime.                    *)
THEOREM Spaced == Spec => RequestsSpaced
<1>1. IInv /\ [Next]_vars
          => [\A ip \in AllIP : Asks(ip) => sinceRequest[ip] >= MaxArpReqTime]_vars
  <2> SUFFICES ASSUME IInv, [Next]_vars, NEW ip \in AllIP, Asks(ip)
               PROVE  sinceRequest[ip] >= MaxArpReqTime
    OBVIOUS
  <2>1. NewRequest(nif, nif', ip)
    BY DEF Asks, NewRequest
  <2>2. sinceRequest[ip] = MaxArpReqTime /\ MaxArpReqTime \in Nat
    BY <2>1, NextKeeps, InterfaceAssumption
  <2> QED BY <2>2
<1> QED BY <1>1, Inductive, PTL DEF Spec, RequestsSpaced
============================================================================
