--------------------------- MODULE FramesOnWire ---------------------------
(* A datagram or an ARP message from the host that builds it to the host     *)
(* that parses it: serialize() nests it in a frame, devices hand the bytes   *)
(* on in other chunks, the wire may damage them, and a host that received a  *)
(* datagram may send it on in a frame of its own.                            *)
(* The owners of an interface call serialize() and parse() as                *)
(* NetworkInterface::send_datagram() and recv_frame() do.                    *)
EXTENDS Headers

CONSTANTS Datagrams,      \* bound: datagrams built, checksum not yet set
          ARPMessages,    \* bound: ARP messages built
          SplitPoints,    \* bound: where a device may cut what it read
          EmptyPieces,    \* may a device hand over empty chunks?
          MaxHops,        \* bound: frames a message travels in
          MaxFaults       \* bound: damages to one message

VARIABLES sent,           \* what was built, for the properties
          wire,           \* chunks of the frame under way
          got,            \* what the receiver made of it
          hops, faults

frameVars == <<sent, wire, got, hops, faults>>

Nothing == [kind |-> "nothing"]

FramesInit ==
    /\ sent = Nothing /\ got = Nothing
    /\ wire = <<>>
    /\ hops = 0 /\ faults = 0

(* Addresses of the segment: the frames of a hop go from one to the next.    *)
Station(n) == <<2, 0, 0, 0, 0, n>>

Emit(type, payload) ==
    /\ hops < MaxHops
    /\ hops' = hops + 1
    /\ wire' = FrameToChunks(Frame(Station(hops + 1), Station(hops), type,
                                   payload))
---------------------------------------------------------------------------
SendDatagram(dgram) ==
    LET summed == [dgram EXCEPT !.header = WithChecksum(@)]
    IN  /\ sent = Nothing
        /\ sent' = [kind |-> "IPv4", header |-> summed.header,
                    payload |-> Joined(summed.payload)]
        /\ Emit(TYPE_IPv4, DatagramToChunks(summed))
        /\ UNCHANGED <<got, faults>>

SendARP(msg) ==
    /\ sent = Nothing
    /\ supported(msg)
    /\ sent' = [kind |-> "ARP", message |-> msg]
    /\ Emit(TYPE_ARP, ARPToChunks(msg))
    /\ UNCHANGED <<got, faults>>

(* A device writes a frame as one string of bytes, and may hand over what it *)
(* read in two pieces, with an empty one between them if EmptyPieces.        *)
Rechunk(chunks) ==
    /\ wire # <<>>
    /\ wire' = chunks
    /\ UNCHANGED <<sent, got, hops, faults>>

DeviceJoins == Rechunk(<<Joined(wire)>>)

DeviceSplits(n, between) ==
    LET bytes == Joined(wire)
    IN  /\ n < Len(bytes)
        /\ Rechunk(<<SubSeq(bytes, 1, n)>> \o between
                   \o <<SubSeq(bytes, n + 1, Len(bytes))>>)

Between == IF EmptyPieces THEN {<<>>, <<<<>>>>} ELSE {<<>>}

(* Damage on the wire.                                                       *)
Damage(bytes) ==
    /\ faults < MaxFaults
    /\ faults' = faults + 1
    /\ wire' = <<bytes>>
    /\ UNCHANGED <<sent, got, hops>>

FlipBit(byte, bit) ==
    IF (byte \div bit) % 2 = 1 THEN byte - bit ELSE byte + bit

WireFlips(i, bit) ==
    /\ Len(wire) = 1
    /\ Damage([wire[1] EXCEPT ![i] = FlipBit(@, bit)])

WireCutsOff(n) ==
    /\ Len(wire) = 1
    /\ Damage(SubSeq(wire[1], 1, n))

(* Hardware pads a short frame.                                              *)
WirePads ==
    /\ Len(wire) = 1
    /\ Damage(Append(wire[1], 0))

(* What recv_frame() makes of a frame: parse() of the payload of a frame     *)
(* whose type it knows.                                                      *)
AsDatagram(dgram) ==
    [kind |-> "IPv4", outcome |-> dgram.outcome, header |-> dgram.header,
     payload |-> dgram.payload]

AsARP(arp) ==
    [kind |-> "ARP", outcome |-> arp.outcome, message |-> arp.message]

ParsedPayload(frame) ==
    CASE frame.outcome # "ok" -> [kind |-> "garbled"]
      [] frame.header.type = TYPE_IPv4 ->
            AsDatagram(ChunksToDatagram(frame.payload))
      [] frame.header.type = TYPE_ARP -> AsARP(ChunksToARP(frame.payload))
      [] OTHER -> [kind |-> "unknown"]

Parsed(chunks) == ParsedPayload(ChunksToFrame(chunks))

Receive ==
    /\ wire # <<>>
    /\ got' = Parsed(wire)
    /\ wire' = <<>>
    /\ UNCHANGED <<sent, hops, faults>>

Forward ==
    /\ got.kind = "IPv4" /\ got.outcome = "ok"
    /\ Emit(TYPE_IPv4, DatagramToChunks([header  |-> got.header,
                                         payload |-> got.payload]))
    /\ got' = Nothing
    /\ UNCHANGED <<sent, faults>>

Bits == {1, 2, 4, 8, 16, 32, 64, 128}

FramesNext ==
    \/ \E dgram \in Datagrams : SendDatagram(dgram)
    \/ \E msg \in ARPMessages : SendARP(msg)
    \/ DeviceJoins
    \/ \E n \in SplitPoints, between \in Between : DeviceSplits(n, between)
    \/ \E i \in DOMAIN Joined(wire), bit \in Bits : WireFlips(i, bit)
    \/ \E n \in DOMAIN Joined(wire) : WireCutsOff(n)
    \/ WirePads
    \/ Receive
    \/ Forward

FramesSpec == FramesInit /\ [][FramesNext]_frameVars
---------------------------------------------------------------------------
(* What is not damaged arrives: whatever chunks its bytes came in and        *)
(* however often it was nested and sent on, the receiver gets the header and *)
(* the bytes of the payload that the first host put in.                      *)
FramesArriveWhole ==
    (got # Nothing /\ faults = 0) =>
        /\ got.kind = sent.kind /\ got.outcome = "ok"
        /\ got.kind = "IPv4" => /\ got.header = sent.header
                                /\ Joined(got.payload) = sent.payload
        /\ got.kind = "ARP" => got.message = sent.message

(* A header that was damaged on one of its ways is not accepted: the IPv4    *)
(* header of a datagram that parse() takes is the one that was sent, and so  *)
(* is the kind of an ARP message.                                            *)
ARPKind(msg) ==
    <<msg.hardware_type, msg.protocol_type, msg.hardware_address_size,
      msg.protocol_address_size, msg.opcode>>

AcceptedHeaderIsTrue ==
    (got.kind \in {"IPv4", "ARP"} /\ got.kind = sent.kind
     /\ got.outcome = "ok") =>
        /\ got.kind = "IPv4" => got.header = sent.header
        /\ got.kind = "ARP"  => ARPKind(got.message) = ARPKind(sent.message)
============================================================================
