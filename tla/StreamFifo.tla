---------------------------- MODULE StreamFifo ----------------------------
(* What a ByteStream promises its users (src/src/byte_stream.hh): a bounded  *)
(* first-in first-out queue of bytes with a running count of what went in    *)
(* and what came out, a closed mark and an error mark.  Components that own  *)
(* or borrow a stream (Reassembler, TCPReceiver, TCPSender) use these        *)
(* operators; module ByteStream shows that the doubled ring buffer of the    *)
(* code implements them.                                                     *)
EXTENDS Naturals, Sequences

Smaller(a, b) == IF a <= b THEN a ELSE b
Larger(a, b)  == IF a >= b THEN a ELSE b

NewStream(capacity) ==
    [capacity |-> capacity, queue |-> <<>>, popped |-> 0,
     closed |-> FALSE, error |-> FALSE]

BytesBuffered(s)     == Len(s.queue)
BytesPopped(s)       == s.popped
BytesPushed(s)       == s.popped + Len(s.queue)
AvailableCapacity(s) == s.capacity - Len(s.queue)
IsClosed(s)          == s.closed
IsFinished(s)        == s.closed /\ s.queue = <<>>

(* Accept as much of data as fits and drop the rest.                         *)
Push(s, data) ==
    [s EXCEPT !.queue =
        @ \o SubSeq(data, 1, Smaller(Len(data), AvailableCapacity(s)))]

(* Remove the first n bytes, or all of them when there are fewer.            *)
Pop(s, n) ==
    LET k == Smaller(n, Len(s.queue)) IN
    [s EXCEPT !.queue = SubSeq(@, k + 1, Len(@)), !.popped = @ + k]

Close(s)    == [s EXCEPT !.closed = TRUE]
SetError(s) == [s EXCEPT !.error = TRUE]
============================================================================
