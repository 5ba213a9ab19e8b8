-------------------------- MODULE ReassemblerSpec --------------------------
(* What the Reassembler promises (src/src/reassembler.hh:10-29), without     *)
(* blocks: it knows a set of the bytes of a stream, keeps each byte that     *)
(* fits within the available capacity when it arrives, has written exactly   *)
(* the bytes before the first unknown one, and closes the stream with the    *)
(* last byte.  The byte at index i is the number i.                          *)
EXTENDS Integers, FiniteSets, StreamFifo

CONSTANTS StreamLen, Capacity

VARIABLES known,      \* indices of the bytes learned so far
          endKnown,   \* has the end of the stream been learned?
          output      \* the stream the reader reads

vars == <<known, endKnown, output>>

FirstUnknown(K) == CHOOSE i \in 0..StreamLen :
                       i \notin K /\ \A j \in 0..(i - 1) : j \in K

Written(K, e, popped) ==
    [capacity |-> Capacity,
     queue    |-> [i \in 1..(FirstUnknown(K) - popped) |-> popped + i - 1],
     popped   |-> popped,
     closed   |-> e /\ FirstUnknown(K) = StreamLen,
     error    |-> FALSE]

Init ==
    /\ known = {}
    /\ endKnown = FALSE
    /\ output = Written({}, FALSE, 0)

Learn(first, len, last) ==
    LET edge == output.popped + Capacity IN
    /\ known' = known \cup {i \in first..(first + len - 1) : i < edge}
    /\ endKnown' = (endKnown \/ (last /\ first < edge))
    /\ output' = Written(known', endKnown', output.popped)

ReadBytes(n) ==
    /\ output' = Written(known, endKnown, output.popped
                            + Smaller(n, Len(output.queue)))
    /\ UNCHANGED <<known, endKnown>>

Next ==
    \/ \E first \in 0..StreamLen, len \in 0..StreamLen, last \in BOOLEAN :
          /\ first + len <= StreamLen
          /\ last => first + len = StreamLen
          /\ Learn(first, len, last)
    \/ \E n \in 1..Capacity : ReadBytes(n)

Spec == Init /\ [][Next]_vars
============================================================================
