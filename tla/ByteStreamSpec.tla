-------------------------- MODULE ByteStreamSpec --------------------------
(* The abstract specification of a ByteStream: one stream on which a writer  *)
(* pushes, closes and flags errors while a reader pops.                      *)
EXTENDS StreamFifo

CONSTANTS Byte,         \* the byte values the writer uses
          Capacity,     \* the capacity the stream is built with
          MaxPush       \* longest string one push or one pop is asked for

VARIABLE stream

Init == stream = NewStream(Capacity)

Strings == UNION {[1..n -> Byte] : n \in 0..MaxPush}

Next ==
    \/ \E data \in Strings : stream' = Push(stream, data)
    \/ \E n \in 0..MaxPush : stream' = Pop(stream, n)
    \/ stream' = Close(stream)
    \/ stream' = SetError(stream)

Spec == Init /\ [][Next]_stream
============================================================================
