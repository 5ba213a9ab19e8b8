------------------------- MODULE ReceiverWithPeer -------------------------
(* A TCPReceiver facing a peer that sends one stream: SYN has sequence       *)
(* number 0, the bytes 1 to StreamLen, FIN the number after them.  Segments  *)
(* are any intervals of that sequence space, in any order, repeated and      *)
(* overlapping.                                                              *)
EXTENDS TCPReceiver, PeerStream

CONSTANTS PeerISNs,         \* initial sequence numbers the peer may choose
          SynCarriesData    \* may a segment hold SYN and payload?

ASSUME PeerAssumption == PeerISNs \subseteq Wrap32

VARIABLES peerISN,
          got               \* history: sequence numbers received so far

vars == <<receiverVars, peerISN, got>>

Init ==
    /\ ReceiverInit
    /\ peerISN \in PeerISNs
    /\ got = {}

FinNo == StreamLen + 1

(* The segment that holds the sequence numbers lo to hi.                     *)
SegmentOf(lo, hi) ==
    Segment(Wrap(lo, peerISN), lo = 0,
            Bytes(Larger(lo, 1), Smaller(hi, StreamLen) - Larger(lo, 1) + 1),
            hi = FinNo)

(* The peer keeps to the window when it sends its last segment, and no       *)
(* segment lives longer than half a lap of sequence numbers.                 *)
PeerMaySend(lo, hi) ==
    LET msg == SegmentOf(lo, hi)
        expected == re.byte_ready_
    IN  /\ Len(msg.payload) <= MaxLen
        /\ msg.SYN => SynCarriesData \/ msg.payload = <<>>
        /\ msg.FIN => hi <= expected + AvailableCapacity(inbound)
        /\ expected - lo < Base \div 2 /\ lo - expected < Base \div 2

Deliver(lo, hi) ==
    /\ PeerMaySend(lo, hi)
    /\ receive(SegmentOf(lo, hi))
    /\ got' = IF SYN_flag \/ lo = 0 THEN got \cup lo..hi ELSE got
    /\ UNCHANGED peerISN

(* A bare acknowledgement of the peer: a segment that uses no number.        *)
DeliverEmpty(lo) ==
    /\ PeerMaySend(lo, lo - 1) /\ lo > 0
    /\ receive(Segment(Wrap(lo, peerISN), FALSE, <<>>, FALSE))
    /\ UNCHANGED <<peerISN, got>>

ReadBytes(n) == ReadInbound(n) /\ UNCHANGED <<peerISN, got>>

Next ==
    \/ \E lo \in 0..FinNo, hi \in 0..FinNo : lo <= hi /\ Deliver(lo, hi)
    \/ \E lo \in 1..(FinNo + 1) : DeliverEmpty(lo)
    \/ \E n \in 1..InboundCapacity : ReadBytes(n)

Spec == Init /\ [][Next]_vars
---------------------------------------------------------------------------
AckNumber == BytesPushed(inbound) + Bit(SYN_flag) + Bit(FIN_flag)

(* The TCPReceiver inserts payloads "at the correct stream index"            *)
(* (tcp_receiver.hh:17-18): whatever order, overlap or wrap of the sequence  *)
(* number, the reader gets the bytes of the peer's stream in order.          *)
InboundIntact ==
    inbound.queue = [i \in 1..Len(inbound.queue) |-> inbound.popped + i]

(* The ackno is cumulative: it acknowledges only numbers that arrived, all   *)
(* of them below it, the FIN among them only when every byte arrived.  What  *)
(* it announces is what the reassembler waits for next.                      *)
AckIsCumulative ==
    SYN_flag => /\ send.ackno = Wrap(AckNumber, peerISN)
                /\ re.byte_ready_ = AckNumber
                /\ 0 .. AckNumber - 1 \subseteq got
                /\ FIN_flag => AckNumber = FinNo + 1

(* Room once advertised is never taken back: the right edge of the window    *)
(* and the acknowledged number never move backwards, so a peer may act on    *)
(* the freshest acknowledgement it has seen.                                 *)
WindowNeverShrinks ==
    [][/\ AckNumber' >= AckNumber
       /\ AckNumber' + Window' >= AckNumber + Window]_vars
============================================================================
