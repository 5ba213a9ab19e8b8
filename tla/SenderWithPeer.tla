-------------------------- MODULE SenderWithPeer --------------------------
(* A TCPSender between an application that writes one stream and a peer that *)
(* may acknowledge anything, repeat itself, answer late and change its mind  *)
(* about the window.  The byte with sequence number i is the number i.       *)
EXTENDS TCPSender

CONSTANTS StreamLen,        \* bound: bytes the application writes
          MaxWindow,        \* bound: largest window a peer offers
          MaxTick,          \* bound: largest argument of tick()
          ISNs              \* bound: initial sequence numbers looked at

(* A window field has 16 bits and a stream less than 2^63 bytes; half a lap  *)
(* of sequence numbers is 2^31.  A SYN with a FIN is sent without a window.  *)
ASSUME PeerAssumption ==
    /\ StreamLen \in Nat /\ StreamLen + 2 < Word \div 2
    /\ MaxWindow \in Nat /\ Larger(MaxWindow, 2) < Base \div 2
    /\ MaxTick \in Nat

VARIABLES edge              \* history: furthest right edge a believed
                            \* acknowledgement announced

vars == <<senderVars, edge>>

Init ==
    /\ SenderInit
    /\ isn_ \in ISNs
    /\ edge = 2             \* a SYN, and a FIN if the stream is empty

AppWrite(n) ==
    /\ BytesPushed(outbound) + n <= StreamLen
    /\ WriteOutbound([i \in 1..n |-> BytesPushed(outbound) + i])
    /\ UNCHANGED edge

AppClose == CloseOutbound /\ UNCHANGED edge

OwnerPush == push /\ UNCHANGED edge

OwnerSends == maybe_send /\ UNCHANGED edge

PeerAcks(raw, window) ==
    /\ receive(Ack(raw, window))
    /\ edge' = Larger(edge, AbsoluteNo(raw) + Larger(window, 1))

TimePassing(ms) == tick(ms) /\ UNCHANGED edge

Next ==
    \/ \E n \in 1..2 : AppWrite(n)
    \/ AppClose
    \/ OwnerPush
    \/ OwnerSends
    \/ \E raw \in Wrap32, window \in 0..MaxWindow : PeerAcks(raw, window)
    \/ \E ms \in 1..MaxTick : TimePassing(ms)

Spec == Init /\ [][Next]_vars
---------------------------------------------------------------------------
LeftEdge == Seqno - num_in_flight

(* The initial interval doubled k times.                                     *)
Backoff[k \in Nat] == IF k = 0 THEN initial_RTO_ms ELSE 2 * Backoff[k - 1]

(* The timer runs exactly while something is outstanding: tick() takes the   *)
(* front of out_Noackqueue without looking whether there is one, and what is *)
(* outstanding with no timer running is never sent again.  Its interval is   *)
(* the initial one doubled once for each consecutive retransmission, probes  *)
(* of a zero window not counted, and both start over together.               *)
TimerRunsIffOutstanding ==
    /\ timer_.open <=> out_Noackqueue # <<>>
    /\ Now_RTO_ = Backoff[Num_Resend]

(* The outstanding segments are consecutive and end where the next one will  *)
(* start, and num_in_flight counts them: no number is lost between two       *)
(* segments or counted twice, whatever was acknowledged in part, late or     *)
(* beyond what was sent.                                                     *)
OutstandingIsContiguous ==
    /\ num_in_flight = SequenceNumbers(out_Noackqueue)
    /\ \A i \in DOMAIN out_Noackqueue :
          AbsoluteNo(out_Noackqueue[i].seqno) =
              LeftEdge + SequenceNumbers(SubSeq(out_Noackqueue, 1, i - 1))

(* Every segment that waits to be sent, the first time or again, carries the *)
(* bytes that belong at its sequence number, and no more than the maximum.   *)
CarriesItsBytes(msg) ==
    /\ Len(msg.payload) <= MAX_PAYLOAD_SIZE
    /\ SequenceLength(msg) > 0
    /\ msg.SYN => msg.seqno = isn_ /\ msg.payload = <<>>
    /\ \A i \in DOMAIN msg.payload :
          Wrap(msg.payload[i], isn_) = Plus(msg.seqno, i - 1)

SegmentsCarryTheirBytes ==
    \A msgs \in {out_Noackqueue, out_Readyqueue} :
        \A i \in DOMAIN msgs : CarriesItsBytes(msgs[i])

(* The next sequence number accounts for the SYN, each byte taken from the   *)
(* stream and the FIN, and the FIN is sent once, after the last byte.        *)
SynSent == status_ # "CLOSED"
FinSent == status_ \in {"FIN_WAIT", "FINISH"}

StreamAccounted ==
    /\ Seqno = Bit(SynSent) + BytesPopped(outbound) + Bit(FinSent)
    /\ FinSent => IsFinished(outbound)
    /\ \A i \in DOMAIN out_Noackqueue : out_Noackqueue[i].FIN =>
          FinSent /\ i = Len(out_Noackqueue)

(* The sender never uses a number beyond the furthest right edge it was ever *)
(* offered, a zero window counting as one.                                   *)
WithinAdvertisedWindow == Seqno <= edge

(* A sender that considers itself finished has nothing outstanding and no    *)
(* timer running, and an established one has had its SYN acknowledged.       *)
StatusMatchesOutstanding ==
    /\ status_ = "FINISH" => out_Noackqueue = <<>> /\ ~timer_.open
    /\ status_ = "FIN_WAIT" => out_Noackqueue # <<>>
    /\ status_ = "ESTABLISHED" =>
          \A i \in DOMAIN out_Noackqueue : ~out_Noackqueue[i].SYN

(* What has been acknowledged stays acknowledged and the connection's state  *)
(* only moves forward, however acknowledgements are repeated or reordered.   *)
Rank == [CLOSED |-> 0, SYN_SENT |-> 1, ESTABLISHED |-> 2, FIN_WAIT |-> 3,
         FINISH |-> 4]
NeverBackwards ==
    [][/\ LeftEdge' >= LeftEdge
       /\ Seqno' >= Seqno
       /\ Rank[status_'] >= Rank[status_]]_vars

(* While the same segment is the oldest outstanding one, only sending it     *)
(* again gives the timer more time: neither new data nor acknowledgements    *)
(* that acknowledge nothing new put off its retransmission.  What it gets is *)
(* the interval due: doubled once more after a retransmission into an open   *)
(* window, the same again after a probe of a closed one.                     *)
DeadlineNotPostponed ==
    [][/\ out_Noackqueue # <<>> /\ out_Noackqueue' # <<>>
       /\ Head(out_Noackqueue') = Head(out_Noackqueue)
       /\ timer_'.left > timer_.left
       => /\ out_Readyqueue' = <<Head(out_Noackqueue)>> \o out_Readyqueue
          /\ timer_'.left = Backoff[Num_Resend + Bit(window_size_ # 0)]]_vars
============================================================================
