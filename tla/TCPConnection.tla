--------------------------- MODULE TCPConnection ---------------------------
(* One direction of a TCP connection: a TCPSender and the application that   *)
(* writes to it, a TCPReceiver and the application that reads from it, and   *)
(* between them a network that reorders, loses and duplicates messages.      *)
(* The owner of a TCPSender calls push(), maybe_send(), receive() and tick() *)
(* in whatever order events come (src/tests/sender_test_harness.hh); the     *)
(* owner of a TCPReceiver answers a segment with TCPReceiver::send().        *)
(* The byte with sequence number i is the number i.                          *)
EXTENDS StreamFifo, WrappingIntegers, TCPMessages, Bags

CONSTANTS initial_RTO_ms, MAX_PAYLOAD_SIZE, OutboundCapacity,
          InboundCapacity, MaxWindow,
          StreamLen,        \* bound: bytes the application writes
          MaxResend,        \* bound: consecutive retransmissions
          MaxReady,         \* bound: segments waiting in out_Readyqueue
          MaxInNetwork,     \* bound: messages under way in one direction
          MaxLost,          \* bound: messages the network loses
          MaxDuplicated,    \* bound: messages the network duplicates
          MaxFaults,        \* bound: losses and duplications together
          ISNs,             \* bound: initial sequence numbers looked at
          WindowUpdates     \* may the receiver send unasked?

ASSUME ConnectionAssumption ==
    /\ initial_RTO_ms \in Nat \ {0} /\ MAX_PAYLOAD_SIZE \in Nat \ {0}
    /\ OutboundCapacity \in Nat \ {0} /\ InboundCapacity \in Nat \ {0}
    /\ MaxWindow \in Nat /\ MaxResend \in Nat /\ MaxReady \in Nat

(* The network may keep a message for as long as it likes, so that no number *)
(* of the stream may be half a lap from any other: a message outlives fewer  *)
(* than 2^31 numbers.  A window field has 16 bits.                           *)
ASSUME LapAssumption ==
    /\ StreamLen \in Nat /\ StreamLen + 2 < Base \div 2
    /\ Larger(MaxWindow, 2) < Base \div 2

VARIABLES isn_, Now_RTO_, Num_Resend, Seqno, num_in_flight, window_size_,
          status_, timer_, out_Noackqueue, out_Readyqueue, outbound,
          ISN, SYN_flag, FIN_flag, checkpoint, re, inbound,
          segments,         \* bag of segments under way
          acks,             \* bag of acknowledgements under way
          lost, duplicated  \* messages lost and duplicated so far

Sender   == INSTANCE TCPSender
Receiver == INSTANCE TCPReceiver

senderVars   == <<isn_, Now_RTO_, Num_Resend, Seqno, num_in_flight,
                  window_size_, status_, timer_, out_Noackqueue,
                  out_Readyqueue, outbound>>
receiverVars == <<ISN, SYN_flag, FIN_flag, checkpoint, re, inbound>>
networkVars  == <<segments, acks, lost, duplicated>>
vars         == <<senderVars, receiverVars, networkVars>>

Init ==
    /\ Sender!SenderInit
    /\ isn_ \in ISNs
    /\ Receiver!ReceiverInit
    /\ segments = EmptyBag /\ acks = EmptyBag
    /\ lost = 0 /\ duplicated = 0

Room(net) == BagCardinality(net) < MaxInNetwork
One(msg)  == SetToBag({msg})
---------------------------------------------------------------------------
(* The sending host.                                                         *)
AppWrites(n) ==
    /\ BytesPushed(outbound) + n <= StreamLen
    /\ n <= AvailableCapacity(outbound)
    /\ Sender!WriteOutbound([i \in 1..n |-> BytesPushed(outbound) + i])
    /\ UNCHANGED <<receiverVars, networkVars>>

AppCloses ==
    /\ Sender!CloseOutbound
    /\ UNCHANGED <<receiverVars, networkVars>>

OwnerPushes ==
    /\ Sender!push
    /\ UNCHANGED <<receiverVars, networkVars>>

OwnerSends ==
    /\ Room(segments)
    /\ Sender!maybe_send
    /\ segments' = segments (+) One(Head(out_Readyqueue))
    /\ UNCHANGED <<receiverVars, acks, lost, duplicated>>

TimePasses ==
    /\ Sender!tick(initial_RTO_ms)
    /\ UNCHANGED <<receiverVars, networkVars>>

AckArrives ==
    \E msg \in BagToSet(acks) :
        /\ acks' = acks (-) One(msg)
        /\ \/ Sender!receive(msg)
           \/ ~Sender!Acceptable(msg.ackno) /\ UNCHANGED senderVars
        /\ UNCHANGED <<receiverVars, segments, lost, duplicated>>
---------------------------------------------------------------------------
(* The receiving host.                                                       *)
SegmentArrives ==
    \E msg \in BagToSet(segments) :
        /\ Room(acks)
        /\ segments' = segments (-) One(msg)
        /\ Receiver!receive(msg)
        /\ acks' = acks (+) One(Receiver!send')
        /\ UNCHANGED <<senderVars, lost, duplicated>>

ReceiverUpdatesWindow ==
    /\ WindowUpdates /\ SYN_flag
    /\ Room(acks)
    /\ acks' = acks (+) One(Receiver!send)
    /\ UNCHANGED <<senderVars, receiverVars, segments, lost, duplicated>>

AppReads ==
    /\ Receiver!ReadInbound(1)
    /\ UNCHANGED <<senderVars, networkVars>>
---------------------------------------------------------------------------
(* The network.                                                              *)
Lose ==
    /\ lost < MaxLost /\ lost + duplicated < MaxFaults
    /\ lost' = lost + 1
    /\ \/ \E msg \in BagToSet(segments) :
             segments' = segments (-) One(msg) /\ UNCHANGED acks
       \/ \E msg \in BagToSet(acks) :
             acks' = acks (-) One(msg) /\ UNCHANGED segments
    /\ UNCHANGED <<senderVars, receiverVars, duplicated>>

Duplicate ==
    /\ duplicated < MaxDuplicated /\ lost + duplicated < MaxFaults
    /\ duplicated' = duplicated + 1
    /\ \/ \E msg \in BagToSet(segments) :
             segments' = segments (+) One(msg) /\ UNCHANGED acks
       \/ \E msg \in BagToSet(acks) :
             acks' = acks (+) One(msg) /\ UNCHANGED segments
    /\ UNCHANGED <<senderVars, receiverVars, lost>>
---------------------------------------------------------------------------
HostsNext ==
    \/ \E n \in 1..2 : AppWrites(n)
    \/ AppCloses
    \/ OwnerPushes
    \/ OwnerSends
    \/ TimePasses
    \/ AckArrives
    \/ SegmentArrives
    \/ ReceiverUpdatesWindow
    \/ AppReads

Next == HostsNext \/ Lose \/ Duplicate

Spec == Init /\ [][Next]_vars

(* The owner of the sender keeps calling push(), maybe_send() and tick(); the*)
(* receiving application keeps reading; a message that is not lost arrives.  *)
(* The writing application writes and closes when it likes, and the network  *)
(* loses and duplicates when it likes.                                       *)
Fairness ==
    /\ WF_vars(OwnerPushes)
    /\ WF_vars(OwnerSends)
    /\ WF_vars(TimePasses)
    /\ WF_vars(AckArrives)
    /\ WF_vars(SegmentArrives)
    /\ WF_vars(AppReads)

FairSpec == Spec /\ Fairness
---------------------------------------------------------------------------
AckNumber == BytesPushed(inbound) + Bit(SYN_flag) + Bit(FIN_flag)
LeftEdge  == Seqno - num_in_flight

(* The two ends never contradict one another: the sender has given up only   *)
(* what the receiver has acknowledged, and the receiver has acknowledged     *)
(* only what was sent; no stale or duplicated message can be mistaken for    *)
(* news at either end.                                                       *)
EndsAgree ==
    /\ LeftEdge <= AckNumber /\ AckNumber <= Seqno
    /\ \A msg \in BagToSet(acks) : msg.ackno # NoAckno =>
          Sender!AbsoluteNo(msg.ackno) <= AckNumber

(* Whatever acknowledgements get lost, late or out of order, the sender uses *)
(* at most one number beyond what the receiver has room for: the probe of a  *)
(* closed window.                                                            *)
SentFitsRoom ==
    Seqno <= AckNumber + Larger(AvailableCapacity(inbound), 1)

(* A segment that ends the stream and carries its last bytes fits the room   *)
(* the receiver has when it arrives, early or late, the first time or again: *)
(* what the Reassembler needs of its caller so as not to close the stream    *)
(* before its end.                                                           *)
EndFitsWindow ==
    \A msg \in BagToSet(segments) :
        msg.FIN /\ msg.payload # <<>> /\ SYN_flag /\ ~FIN_flag =>
            Sender!AbsoluteNo(msg.seqno) + Len(msg.payload)
                <= AckNumber + AvailableCapacity(inbound)

(* A sender that considers itself finished can forget the stream: the        *)
(* receiver has all of it, and its end.                                      *)
FinishedMeansDelivered ==
    status_ = "FINISH" =>
        /\ FIN_flag
        /\ BytesPushed(inbound) = BytesPushed(outbound)

(* The connection implements a reliable stream.                              *)
Reliable == INSTANCE ReliableStream WITH
    Byte        <- 1..StreamLen,
    written     <- [i \in 1..BytesPushed(outbound) |-> i],
    writeClosed <- outbound.closed,
    arrived     <- [i \in 1..BytesPopped(inbound) |-> i] \o inbound.queue,
    ended       <- inbound.closed

ImplementsReliableStream == Reliable!Spec

(* Every byte the application wrote is eventually read at the other end, and *)
(* a closed stream is eventually finished at both.                           *)
AllBytesArrive ==
    \A n \in 1..StreamLen :
        BytesPushed(outbound) >= n ~> BytesPopped(inbound) >= n

CloseCompletes ==
    outbound.closed ~> status_ = "FINISH" /\ IsFinished(inbound)
============================================================================
