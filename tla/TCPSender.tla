----------------------------- MODULE TCPSender -----------------------------
(* src/src/tcp_sender.cc: cuts the outbound stream into segments that fit    *)
(* the peer's window, keeps those not yet acknowledged, and sends the oldest *)
(* of them again when the retransmission timer runs out.                     *)
(* Variables keep the names of the members of class TCPSender.  checkpoint   *)
(* equals Seqno at all times (push_msg assigns both).  Of the timer only the *)
(* time left until it runs out matters: start_time_ + clock_time_ -          *)
(* Now_time_.                                                                *)
EXTENDS StreamFifo, WrappingIntegers, TCPMessages, FiniteSets

CONSTANTS initial_RTO_ms,       \* initial_RTO_ms_
          MAX_PAYLOAD_SIZE,     \* TCPConfig::MAX_PAYLOAD_SIZE
          OutboundCapacity,     \* capacity of the outbound stream
          MaxResend,            \* bound: consecutive retransmissions
          MaxReady              \* bound: segments waiting in out_Readyqueue

ASSUME SenderAssumption ==
    /\ initial_RTO_ms \in Nat \ {0}
    /\ MAX_PAYLOAD_SIZE \in Nat \ {0}
    /\ OutboundCapacity \in Nat \ {0}
    /\ MaxResend \in Nat /\ MaxReady \in Nat

VARIABLES isn_, Now_RTO_, Num_Resend, Seqno, num_in_flight, window_size_,
          status_,
          timer_,           \* is it open, and how much time is left?
          out_Noackqueue,   \* sent, not acknowledged
          out_Readyqueue,   \* to be handed out by maybe_send()
          outbound          \* the stream the application writes to

senderVars == <<isn_, Now_RTO_, Num_Resend, Seqno, num_in_flight, window_size_,
                status_, timer_, out_Noackqueue, out_Readyqueue, outbound>>

Status == {"CLOSED", "SYN_SENT", "ESTABLISHED", "FIN_WAIT", "FINISH"}

ClosedTimer == [open |-> FALSE, left |-> 0]
StartedTimer(clocktime) == [open |-> TRUE, left |-> clocktime]

SenderInit ==
    /\ isn_ \in Wrap32
    /\ Now_RTO_ = initial_RTO_ms
    /\ Num_Resend = 0
    /\ Seqno = 0
    /\ num_in_flight = 0
    /\ window_size_ = 1
    /\ status_ = "CLOSED"
    /\ timer_ = ClosedTimer
    /\ out_Noackqueue = <<>>
    /\ out_Readyqueue = <<>>
    /\ outbound = NewStream(OutboundCapacity)

(* How many sequence numbers the segments of a queue use together.           *)
SequenceNumbers(msgs) ==
    Cardinality(UNION {{i} \X (1..SequenceLength(msgs[i])) : i \in DOMAIN msgs})

(* Mutant: only the SYN starts the timer.                                    *)
StartsTimerSynOnly(msgs) == msgs # <<>> /\ msgs[1].SYN
StartsTimer(msgs) == msgs # <<>> /\ ~timer_.open

(* push_msg() for each segment in turn: count it, queue it twice, and make   *)
(* sure the timer runs.                                                      *)
push_msgs(msgs) ==
    /\ num_in_flight' = num_in_flight + SequenceNumbers(msgs)
    /\ Seqno' = Seqno + SequenceNumbers(msgs)
    /\ out_Noackqueue' = out_Noackqueue \o msgs
    /\ out_Readyqueue' = out_Readyqueue \o msgs
    /\ timer_' = IF StartsTimer(msgs) THEN StartedTimer(Now_RTO_) ELSE timer_

(* Mutant: the FIN goes with the SYN although bytes are still buffered.      *)
FinWithSynWhenClosed == IsClosed(outbound)
FinWithSyn == IsFinished(outbound)

StatusAfterSyn == IF FinWithSyn THEN "FIN_WAIT" ELSE "SYN_SENT"

(* push() in state CLOSED: the SYN goes first, with the FIN when the stream  *)
(* has already ended.                                                        *)
PushSyn ==
    /\ status_ = "CLOSED"
    /\ push_msgs(<<Segment(Wrap(Seqno, isn_), TRUE, <<>>, FinWithSyn)>>)
    /\ status_' = StatusAfterSyn
    /\ UNCHANGED <<isn_, Now_RTO_, Num_Resend, window_size_, outbound>>

(* Mutant: what is in flight is not taken off the window.                    *)
AbleSendWholeWindow == IF window_size_ = 0 THEN 1 ELSE window_size_
(* Mutant: a zero window is not probed.                                      *)
AbleSendNoProbe == window_size_ - num_in_flight
(* How many sequence numbers push() may use; a zero window counts as one.    *)
AbleSend == IF window_size_ = 0 THEN 1 ELSE window_size_ - num_in_flight

(* Does the FIN follow the first n bytes of the stream in this call?         *)
FinFits(n) == IsFinished(Pop(outbound, n)) /\ AbleSend > n

SegmentCount(n) ==
    IF n = 0 THEN Bit(FinFits(0))
    ELSE (n + MAX_PAYLOAD_SIZE - 1) \div MAX_PAYLOAD_SIZE

(* The payloads of one call start a whole number of full payloads apart.     *)
(* Mutant: all segments of one call get the same seqno.                      *)
SegmentNoSame(i) == Seqno
SegmentNo(i) == Seqno + (i - 1) * MAX_PAYLOAD_SIZE

(* Mutant: each segment carries everything that is left.                     *)
PayloadEndUnbounded(i, n) == n
PayloadEnd(i, n) == Smaller(i * MAX_PAYLOAD_SIZE, n)

(* The loop of push(): full segments, then what remains, the last one with   *)
(* the FIN if it fits; a FIN alone when there is nothing else to send.       *)
NewSegments(n) ==
    [i \in 1..SegmentCount(n) |->
        Segment(Wrap(SegmentNo(i), isn_), FALSE,
                SubSeq(outbound.queue, (i - 1) * MAX_PAYLOAD_SIZE + 1,
                       PayloadEnd(i, n)),
                i = SegmentCount(n) /\ FinFits(n))]

PushData ==
    LET n == Smaller(AbleSend, BytesBuffered(outbound)) IN
    /\ status_ = "ESTABLISHED"
    /\ num_in_flight <= window_size_
    /\ push_msgs(NewSegments(n))
    /\ outbound' = Pop(outbound, n)
    /\ status_' = IF FinFits(n) THEN "FIN_WAIT" ELSE status_
    /\ UNCHANGED <<isn_, Now_RTO_, Num_Resend, window_size_>>

(* In the other states, or with the window overdrawn, push() does nothing.   *)
push == PushSyn \/ PushData

maybe_send ==
    /\ out_Readyqueue # <<>>
    /\ out_Readyqueue' = Tail(out_Readyqueue)
    /\ UNCHANGED <<isn_, Now_RTO_, Num_Resend, Seqno, num_in_flight,
                   window_size_, status_, timer_, out_Noackqueue, outbound>>

send_empty_message == Segment(Wrap(Seqno, isn_), FALSE, <<>>, FALSE)

AbsoluteNo(raw) == Unwrap(raw, isn_, Seqno)
EndNo(msg) == AbsoluteNo(msg.seqno) + SequenceLength(msg)

(* Mutant: an acknowledgement of something never sent is believed.           *)
AcceptableAnything(ackno) ==
    ackno # NoAckno /\ AbsoluteNo(ackno) >= Seqno - num_in_flight

(* receive() looks at a message only if its ackno lies between the oldest    *)
(* outstanding number and the next one to be sent.                           *)
Acceptable(ackno) ==
    /\ ackno # NoAckno
    /\ AbsoluteNo(ackno) <= Seqno
    /\ AbsoluteNo(ackno) >= Seqno - num_in_flight

(* The number of segments the loop of receive() takes off the queue: those   *)
(* at its front that are acknowledged as a whole.                            *)
AckedCount(ack) ==
    CHOOSE k \in 0 .. Len(out_Noackqueue) :
        /\ \A i \in 1..k : EndNo(out_Noackqueue[i]) <= ack
        /\ k < Len(out_Noackqueue) => EndNo(out_Noackqueue[k + 1]) > ack

(* Mutant: any acknowledgement of the SYN alone establishes the connection.  *)
StatusAfterRepeatedAck(msg) ==
    IF msg.ackno = Wrap(1, isn_) THEN "ESTABLISHED"
    ELSE IF status_ = "FIN_WAIT" /\ AbsoluteNo(msg.ackno) = Seqno THEN "FINISH"
    ELSE status_

(* Mutant: everything acknowledged is taken for everything sent.             *)
StatusFinishedEarly(msg) ==
    IF status_ = "SYN_SENT" /\ msg.ackno = Wrap(1, isn_) THEN "ESTABLISHED"
    ELSE IF status_ \in {"ESTABLISHED", "FIN_WAIT"}
            /\ AbsoluteNo(msg.ackno) = Seqno THEN "FINISH"
    ELSE status_

StatusAfterAck(msg) ==
    IF status_ = "SYN_SENT" /\ msg.ackno = Wrap(1, isn_) THEN "ESTABLISHED"
    ELSE IF status_ = "FIN_WAIT" /\ AbsoluteNo(msg.ackno) = Seqno THEN "FINISH"
    ELSE status_

(* Mutant: an emptied queue leaves the timer running.                        *)
TimerAfterAckKeepsRunning(rest) == StartedTimer(initial_RTO_ms)
TimerAfterAck(rest) ==
    IF rest = <<>> THEN ClosedTimer ELSE StartedTimer(initial_RTO_ms)

(* Mutant: an acknowledgement that acknowledges nothing new counts.          *)
UsefulAlways(count) == TRUE
(* UsefulFlag: did the message acknowledge a whole segment?                  *)
Useful(count) == count > 0

receive(msg) ==
    LET count == AckedCount(AbsoluteNo(msg.ackno))
        acked == SubSeq(out_Noackqueue, 1, count)
        rest  == SubSeq(out_Noackqueue, count + 1, Len(out_Noackqueue))
    IN  /\ Acceptable(msg.ackno)
        /\ status_' = StatusAfterAck(msg)
        /\ window_size_' = msg.window_size
        /\ num_in_flight' = num_in_flight - SequenceNumbers(acked)
        /\ out_Noackqueue' = rest
        /\ IF Useful(count)
           THEN /\ Now_RTO_' = initial_RTO_ms
                /\ Num_Resend' = 0
                /\ timer_' = TimerAfterAck(rest)
           ELSE UNCHANGED <<Now_RTO_, Num_Resend, timer_>>
        /\ UNCHANGED <<isn_, Seqno, out_Readyqueue, outbound>>

(* CheckOvertime() once ms more have passed.                                 *)
Overtime(ms) == timer_.open /\ timer_.left <= ms

TimePasses(ms) ==
    /\ timer_.open /\ ~Overtime(ms)
    /\ timer_' = [timer_ EXCEPT !.left = @ - ms]
    /\ UNCHANGED <<isn_, Now_RTO_, Num_Resend, Seqno, num_in_flight,
                   window_size_, status_, out_Noackqueue, out_Readyqueue,
                   outbound>>

NextRTO == IF window_size_ # 0 THEN 2 * Now_RTO_ ELSE Now_RTO_

(* The timer ran out: the oldest outstanding segment goes to the front of    *)
(* the queue, the interval doubles unless the window is zero, and the timer  *)
(* starts again.                                                             *)
Retransmit(ms) ==
    /\ Overtime(ms)
    /\ window_size_ # 0 => Num_Resend < MaxResend
    /\ Len(out_Readyqueue) < MaxReady
    /\ out_Readyqueue' = <<Head(out_Noackqueue)>> \o out_Readyqueue
    /\ Now_RTO_' = NextRTO
    /\ Num_Resend' = IF window_size_ # 0 THEN Num_Resend + 1 ELSE Num_Resend
    /\ timer_' = StartedTimer(NextRTO)
    /\ UNCHANGED <<isn_, Seqno, num_in_flight, window_size_, status_,
                   out_Noackqueue, outbound>>

(* With the timer closed, time passing changes nothing that matters.         *)
tick(ms) == TimePasses(ms) \/ Retransmit(ms)

(* The application's side of the outbound stream.                            *)
WriteOutbound(data) ==
    /\ ~IsClosed(outbound)
    /\ outbound' = Push(outbound, data)
    /\ UNCHANGED <<isn_, Now_RTO_, Num_Resend, Seqno, num_in_flight,
                   window_size_, status_, timer_, out_Noackqueue,
                   out_Readyqueue>>

CloseOutbound ==
    /\ ~IsClosed(outbound)
    /\ outbound' = Close(outbound)
    /\ UNCHANGED <<isn_, Now_RTO_, Num_Resend, Seqno, num_in_flight,
                   window_size_, status_, timer_, out_Noackqueue,
                   out_Readyqueue>>
============================================================================
