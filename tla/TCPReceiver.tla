---------------------------- MODULE TCPReceiver ----------------------------
(* src/src/tcp_receiver.cc: turns segments into insertions into the          *)
(* Reassembler, and the state of the inbound stream into an ackno and a      *)
(* window.                                                                   *)
EXTENDS Reassembly, WrappingIntegers, TCPMessages

CONSTANTS InboundCapacity,  \* capacity of the inbound stream
          MaxWindow         \* UINT16_MAX

ASSUME ReceiverAssumption == InboundCapacity \in Nat \ {0} /\ MaxWindow \in Nat

VARIABLES ISN, SYN_flag, FIN_flag, checkpoint,  \* members of TCPReceiver
          re,                                   \* the Reassembler
          inbound                               \* the inbound stream

receiverVars == <<ISN, SYN_flag, FIN_flag, checkpoint, re, inbound>>

ReceiverInit ==
    /\ ISN = 0
    /\ SYN_flag = FALSE
    /\ FIN_flag = FALSE
    /\ checkpoint = 0
    /\ re = NewReassembler
    /\ inbound = NewStream(InboundCapacity)

(* Without a SYN so far, only a segment with SYN is looked at; the first one *)
(* fixes the ISN.                                                            *)
IgnoredBeforeSyn(message) ==
    /\ ~SYN_flag /\ ~message.SYN
    /\ UNCHANGED receiverVars

Accept(message) ==
    LET isn     == IF SYN_flag THEN ISN ELSE message.seqno
        after   == Insert(re, inbound, Unwrap(message.seqno, isn, checkpoint),
                          message.payload, message.FIN)
        withSyn == IF SYN_flag THEN after.re ELSE SkipOne(after.re)
        lastNow == IsClosed(after.output) /\ ~FIN_flag
    IN  /\ SYN_flag \/ message.SYN
        /\ ISN' = isn
        /\ SYN_flag' = TRUE
        /\ FIN_flag' = (FIN_flag \/ lastNow)
        /\ re' = IF lastNow THEN SkipOne(withSyn) ELSE withSyn
        /\ inbound' = after.output
        /\ checkpoint' = BytesPushed(after.output)

receive(message) == IgnoredBeforeSyn(message) \/ Accept(message)

(* Mutant: bytes that wait in the reassembler are acknowledged too.          *)
AcknoOfPending ==
    Plus(Plus(Wrap(BytesPushed(inbound) + re.byte_pend_, ISN), Bit(SYN_flag)),
         Bit(FIN_flag))
(* Mutant: the FIN is not counted.                                           *)
AcknoWithoutFin ==
    Plus(Wrap(BytesPushed(inbound), ISN), Bit(SYN_flag))

Ackno ==
    Plus(Plus(Wrap(BytesPushed(inbound), ISN), Bit(SYN_flag)), Bit(FIN_flag))

(* Mutant: bytes that wait in the reassembler are taken off the window.      *)
WindowMinusPending ==
    Smaller(AvailableCapacity(inbound) - re.byte_pend_, MaxWindow)
Window == Smaller(AvailableCapacity(inbound), MaxWindow)

(* TCPReceiver::send: the message it has for the peer's sender.              *)
send == Ack(IF SYN_flag THEN Ackno ELSE NoAckno, Window)

(* The application reads from the inbound stream.                            *)
ReadInbound(n) ==
    /\ inbound.queue # <<>>
    /\ inbound' = Pop(inbound, n)
    /\ UNCHANGED <<ISN, SYN_flag, FIN_flag, checkpoint, re>>
============================================================================
