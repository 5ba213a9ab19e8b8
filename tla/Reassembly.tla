---------------------------- MODULE Reassembly ----------------------------
(* src/src/reassembler.cc as operators: what Reassembler::insert does to a   *)
(* reassembler and to the stream it writes to.                               *)
(* A reassembler is a record of its three members.  Blocks_, a map from the  *)
(* first index of a block to the block, is the set of its blocks; end_index  *)
(* and length of a Block_Node are End(b) and Len(b.data).                    *)
(* Indices are absolute sequence numbers: the TCPReceiver makes byte_ready_  *)
(* skip one number for the SYN and one for the FIN.                          *)
EXTENDS Integers, Sequences, SequencesExt, FiniteSets, StreamFifo

NewReassembler == [Blocks_ |-> {}, byte_ready_ |-> 0, byte_pend_ |-> 0]

Block(begin, data, islast) == [begin |-> begin, data |-> data, islast |-> islast]
End(b) == b.begin + Len(b.data)

(* Sequence numbers held in the blocks.                                      *)
Stored(re) == UNION {b.begin .. End(b) - 1 : b \in re.Blocks_}

(* Block_Node::operator== ignores the bytes.                                 *)
SameBlock(b1, b2) ==
    b1.begin = b2.begin /\ End(b1) = End(b2) /\ b1.islast = b2.islast

Covers(b1, b2) == b1.begin <= b2.begin /\ End(b1) >= End(b2)

(* Mutant: the end mark of the absorbed block is lost.                       *)
EndMarkOfFirst(b1, b2) == b1.islast
EndMark(b1, b2) == b1.islast \/ b2.islast

(* The block that holds the bytes of b1 and of the overlapping b2.           *)
merge_block(b1, b2) ==
    LET islast == EndMark(b1, b2)
        left   == IF b2.begin <= b1.begin THEN b2 ELSE b1
        right  == IF b2.begin <= b1.begin THEN b1 ELSE b2
    IN  IF Covers(b1, b2) THEN Block(b1.begin, b1.data, islast)
        ELSE IF Covers(b2, b1) THEN Block(b2.begin, b2.data, islast)
        ELSE Block(left.begin,
                   left.data \o SubSeq(right.data, End(left) - right.begin + 1,
                                       Len(right.data)),
                   islast)

(* First sequence number beyond the stream's available capacity.             *)
Edge(re, output) == re.byte_ready_ + AvailableCapacity(output)

ClippedEnd(re, output, end) == Smaller(end, Edge(re, output))

(* Mutant: the bytes already written are skipped but not cut off.            *)
WithoutFirstUncut(data, n) == SubSeq(data, 1, Len(data) - n)
WithoutFirst(data, n) == SubSeq(data, n + 1, Len(data))

(* The part of a substring that lies within the window: the bytes beyond the *)
(* available capacity are cut off, then those already written.  The end mark *)
(* stays, whatever is cut off.                                               *)
Clipped(re, output, first_index, data, is_last_substring) ==
    LET to   == ClippedEnd(re, output, first_index + Len(data))
        from == Larger(first_index, re.byte_ready_)
    IN  Block(from,
              WithoutFirst(SubSeq(data, 1, to - first_index), from - first_index),
              is_last_substring)

(* Blocks by their first index, in which Blocks_ keeps them.                 *)
InOrder(blocks) ==
    [k \in 1..Cardinality(blocks) |->
        CHOOSE b \in blocks :
            Cardinality({c \in blocks : c.begin < b.begin}) = k - 1]

ReachesPast(b, now) == End(b) > now.begin

(* The blocks insert() merges into the new one, in the order it does: the    *)
(* nearest block on the left if it reaches past the beginning of the new     *)
(* one, then each block that begins inside it.                               *)
Overlapping(re, now) ==
    LET left   == {b \in re.Blocks_ : b.begin < now.begin}
        before == {b \in left : /\ \A c \in left : c.begin <= b.begin
                                /\ ReachesPast(b, now)}
        after  == {b \in re.Blocks_ : now.begin <= b.begin
                                      /\ b.begin < End(now)}
    IN  InOrder(before \cup after)

PendingIn(blocks) == FoldLeft(LAMBDA n, b : n + Len(b.data), 0, blocks)

(* update_output(): write the block that starts at byte_ready_.              *)
WriteBlock(state, b) ==
    LET pushed == Push(state.output, b.data) IN
    [re |-> [Blocks_     |-> state.re.Blocks_ \ {b},
             byte_ready_ |-> state.re.byte_ready_ + Len(b.data),
             byte_pend_  |-> state.re.byte_pend_ - Len(b.data)],
     output |-> IF b.islast THEN Close(pushed) ELSE pushed]

WriteIfNext(state, b) ==
    IF b.begin = state.re.byte_ready_ /\ ~state.output.closed
    THEN WriteBlock(state, b) ELSE state

(* Mutant: only the block that starts at byte_ready_ now is written, not the *)
(* one that starts where it ends.                                            *)
FlushOnce(re, output) ==
    FoldLeft(WriteIfNext, [re |-> re, output |-> output],
             InOrder({b \in re.Blocks_ : b.begin = re.byte_ready_}))

(* While a block starts at byte_ready_ and the stream is open, write it.     *)
(* byte_ready_ only grows, so one pass over the blocks in order does.        *)
Flush(re, output) ==
    FoldLeft(WriteIfNext, [re |-> re, output |-> output], InOrder(re.Blocks_))

(* Mutant: the bytes of the absorbed blocks stay in the count.               *)
PendingAfterTwice(re, absorbed, merged) == re.byte_pend_ + Len(merged.data)
PendingAfter(re, absorbed, merged) ==
    re.byte_pend_ - PendingIn(absorbed) + Len(merged.data)

(* Put the merged block in the place of those it absorbed.                   *)
Store(re, now) ==
    LET absorbed == Overlapping(re, now)
        merged   == FoldLeft(merge_block, now, absorbed)
        rest     == {b \in re.Blocks_ \ ToSet(absorbed) : b.begin # merged.begin}
    IN  [re EXCEPT !.Blocks_ = rest \cup {merged},
                   !.byte_pend_ = PendingAfter(re, absorbed, merged)]

(* Reassembler::insert: the reassembler and the stream after it.             *)
Insert(re, output, first_index, data, is_last_substring) ==
    LET now == Clipped(re, output, first_index, data, is_last_substring)
        unchanged == [re |-> re, output |-> output]
    IN  IF \/ first_index >= Edge(re, output)
           \/ first_index + Len(data) < re.byte_ready_
        THEN unchanged
        ELSE IF now.data = <<>> /\ ~is_last_substring
        THEN unchanged
        ELSE IF \E b \in re.Blocks_ : SameBlock(b, now)
        THEN unchanged
        ELSE Flush(Store(re, now), output)

(* insert_SYN() and insert_FIN()                                             *)
SkipOne(re) == [re EXCEPT !.byte_ready_ = @ + 1]
============================================================================
