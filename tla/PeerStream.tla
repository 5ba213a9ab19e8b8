----------------------------- MODULE PeerStream -----------------------------
(* The stream that the caller of a Reassembler and the peer of a TCPReceiver *)
(* cut into pieces.  Each byte is its own number, so that a misplaced byte   *)
(* shows.                                                                    *)
EXTENDS Integers, Sequences

CONSTANTS StreamLen,    \* bytes in the stream
          MaxLen        \* bound: longest piece

ASSUME StreamAssumption == StreamLen \in Nat /\ MaxLen \in Nat

(* The bytes from number first on.                                           *)
Bytes(first, len) == [i \in 1..len |-> first + i - 1]
============================================================================
