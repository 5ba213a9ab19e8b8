---------------------------- MODULE Reassembler ----------------------------
(* The Reassembler with the stream it writes to, a reader and a caller that  *)
(* hands it substrings of one stream in any order, any number of times and   *)
(* with any overlap (src/src/reassembler.cc; operators in Reassembly).       *)
EXTENDS Reassembly, PeerStream

CONSTANTS Capacity,     \* capacity of the output stream
          EndFitsWindow \* does the caller offer the last substring only when
                        \* it fits the available capacity?

ASSUME ReassemblerAssumption == Capacity \in Nat \ {0}

VARIABLES held,     \* the Reassembler's members
          output    \* the stream it writes to

callerVars == <<held, output>>

CallerInit ==
    /\ held = NewReassembler
    /\ output = NewStream(Capacity)

insert(first_index, len, is_last_substring) ==
    LET after == Insert(held, output, first_index, Bytes(first_index, len),
                        is_last_substring)
    IN  /\ first_index + len <= StreamLen
        /\ is_last_substring =>
              /\ first_index + len = StreamLen
              /\ EndFitsWindow => StreamLen <= Edge(held, output)
        /\ held' = after.re
        /\ output' = after.output

ReaderPops(n) ==
    /\ output' = Pop(output, n)
    /\ UNCHANGED held

CallerNext ==
    \/ \E first_index \in 0..StreamLen, len \in 0..MaxLen, last \in BOOLEAN :
          insert(first_index, len, last)
    \/ \E n \in 1..Capacity : ReaderPops(n)

CallerSpec == CallerInit /\ [][CallerNext]_callerVars
---------------------------------------------------------------------------
(* Blocks never overlap, and each lies within the window and begins beyond   *)
(* the next byte to write: merging one neighbour on the left and a run on    *)
(* the right is enough, none that could be written is left behind, and none  *)
(* lies across the next byte, where insert(), which looks blocks up by their *)
(* first index, would never find it again.                                   *)
BlocksWellPlaced ==
    \A b \in held.Blocks_ :
        /\ \A c \in held.Blocks_ \ {b} : End(b) <= c.begin \/ End(c) <= b.begin
        /\ End(b) <= Edge(held, output)
        /\ ~output.closed => held.byte_ready_ < b.begin

(* bytes_pending() is the number of bytes held in the blocks, whatever was   *)
(* merged, clipped or offered twice.                                         *)
PendingIsStored == held.byte_pend_ = Cardinality(Stored(held))

(* "The Reassembler should close the stream after writing the last byte"     *)
(* (reassembler.hh:28): a closed stream holds the whole of it.               *)
ClosedOnlyWhenComplete == output.closed => BytesPushed(output) = StreamLen

(* Every byte that fitted when it arrived is kept, exactly the bytes before  *)
(* the first gap have been written, each at its place, and the stream closes *)
(* with its last byte.                                                       *)
Abstract == INSTANCE ReassemblerSpec WITH
    known    <- 0 .. (held.byte_ready_ - 1) \cup Stored(held),
    endKnown <- output.closed \/ \E b \in held.Blocks_ : b.islast

ImplementsReassembly == Abstract!Spec
============================================================================
