--------------------------- MODULE ReliableStream ---------------------------
(* What a TCP connection promises to the application at either end: one      *)
(* stream of bytes.  The writer appends and closes; at the other end bytes   *)
(* become readable in order, none lost, altered or made up, and the end      *)
(* becomes visible only behind the last byte.                                *)
EXTENDS Naturals, Sequences, SequencesExt

CONSTANTS Byte

VARIABLES written, writeClosed, arrived, ended

vars == <<written, writeClosed, arrived, ended>>

Init ==
    /\ written = <<>> /\ writeClosed = FALSE
    /\ arrived = <<>> /\ ended = FALSE

Write ==
    /\ ~writeClosed
    /\ written' \in Seq(Byte)
    /\ IsStrictPrefix(written, written')
    /\ UNCHANGED <<writeClosed, arrived, ended>>

CloseWriting ==
    /\ writeClosed' = TRUE
    /\ UNCHANGED <<written, arrived, ended>>

Arrive ==
    /\ IsPrefix(arrived, arrived')
    /\ IsPrefix(arrived', written)
    /\ ended' \in BOOLEAN
    /\ ended => ended'
    /\ ended' => writeClosed /\ arrived' = written
    /\ UNCHANGED <<written, writeClosed>>

Next == Write \/ CloseWriting \/ Arrive

Spec == Init /\ [][Next]_vars
============================================================================
