---------------------------- MODULE TCPMessages ----------------------------
(* The two messages TCP endpoints exchange: src/util/tcp_sender_message.hh   *)
(* and src/util/tcp_receiver_message.hh.                                     *)
EXTENDS Integers, Sequences

Bit(flag) == IF flag THEN 1 ELSE 0

(* TCPSenderMessage: the seqno of the first byte, SYN, payload and FIN.      *)
Segment(seqno, SYN, payload, FIN) ==
    [seqno |-> seqno, SYN |-> SYN, payload |-> payload, FIN |-> FIN]

(* "How many sequence numbers does this segment use?"                        *)
SequenceLength(msg) == Bit(msg.SYN) + Len(msg.payload) + Bit(msg.FIN)

(* TCPReceiverMessage: an optional ackno, and a window.                      *)
NoAckno == -1
Ack(ackno, window_size) == [ackno |-> ackno, window_size |-> window_size]
============================================================================
