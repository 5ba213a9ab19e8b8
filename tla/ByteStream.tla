---------------------------- MODULE ByteStream ----------------------------
(* src/src/byte_stream.cc: the flow-controlled byte stream.  The bytes live  *)
(* in a vector of twice the capacity; every byte is stored at                *)
(* write_count_ % capacity_ and again capacity_ further on, so that peek()   *)
(* can return everything that is buffered as one contiguous view.            *)
(* Variables keep the names of the members of class ByteStream; accepted and *)
(* delivered are history variables: the bytes the writer got rid of and the  *)
(* bytes the reader took, in order.                                          *)
EXTENDS Integers, Sequences, StreamFifo

CONSTANTS Byte,             \* byte values
          NoByte,           \* the zero a fresh vector is filled with
          Capacity,         \* capacity_
          MaxPush,          \* bound: longest string of one push or pop
          MaxTotal,         \* bound: bytes accepted in one behaviour
          WriterStopsAtClose \* does the writer stop writing once it closed?

ASSUME CapacityAssumption == Capacity \in Nat \ {0}
ASSUME BoundAssumption == MaxPush \in Nat /\ MaxTotal \in Nat

VARIABLES Buffer_, size_, isclose_, iserror_, write_count_, read_count_,
          accepted, delivered

streamVars == <<Buffer_, size_, isclose_, iserror_, write_count_, read_count_,
          accepted, delivered>>

Slots == 0 .. 2 * Capacity - 1

StreamInit ==
    /\ Buffer_ = [i \in Slots |-> NoByte]
    /\ size_ = 0
    /\ isclose_ = FALSE
    /\ iserror_ = FALSE
    /\ write_count_ = 0
    /\ read_count_ = 0
    /\ accepted = <<>>
    /\ delivered = <<>>

available_capacity == Capacity - size_

(* Mutant: an empty buffer is taken for the end of the stream.               *)
is_finished_when_empty == isclose_ \/ size_ = 0
is_finished == isclose_ /\ size_ = 0

(* The view of size_ bytes that starts at read_count_ % capacity_.           *)
Peek == [i \in 1..size_ |-> Buffer_[(read_count_ % Capacity) + i - 1]]

(* Mutant: the second copy of each byte is forgotten.                        *)
SlotInFirstHalf(i) == i
(* The slot of the first half that holds the same byte as slot i.            *)
Slot(i) == i % Capacity

(* The vector after the first n bytes of data were copied in, each of them   *)
(* to both halves.                                                           *)
Copied(data, n) ==
    LET Pos(i) == {p \in 0..(n - 1) :
                      (write_count_ + p) % Capacity = Slot(i)}
    IN  [i \in Slots |-> IF Pos(i) = {} THEN Buffer_[i]
                         ELSE data[(CHOOSE p \in Pos(i) : TRUE) + 1]]

WriterPush(data) ==
    LET n == Smaller(Len(data), available_capacity) IN
    /\ WriterStopsAtClose => ~isclose_
    /\ write_count_ + n <= MaxTotal
    /\ Buffer_' = Copied(data, n)
    /\ size_' = size_ + n
    /\ write_count_' = write_count_ + n
    /\ accepted' = accepted \o SubSeq(data, 1, n)
    /\ UNCHANGED <<isclose_, iserror_, read_count_, delivered>>

able_pop_len(len) == Smaller(len, size_)

ReaderPop(len) ==
    LET n == able_pop_len(len) IN
    /\ read_count_' = read_count_ + n
    /\ size_' = size_ - n
    /\ delivered' = delivered \o SubSeq(Peek, 1, n)
    /\ UNCHANGED <<Buffer_, isclose_, iserror_, write_count_, accepted>>

(* The read() helper: while something is buffered and fewer than len bytes   *)
(* were taken, take a view and pop it.  A view holds everything buffered, so *)
(* the loop runs once.                                                       *)
Read(len) ==
    LET out == SubSeq(Peek, 1, Smaller(len, Len(Peek))) IN
    /\ size_ > 0 /\ len > 0
    /\ read_count_' = read_count_ + Len(out)
    /\ size_' = size_ - Len(out)
    /\ delivered' = delivered \o out
    /\ UNCHANGED <<Buffer_, isclose_, iserror_, write_count_, accepted>>

WriterClose ==
    /\ isclose_' = TRUE
    /\ UNCHANGED <<Buffer_, size_, iserror_, write_count_, read_count_,
                   accepted, delivered>>

WriterSetError ==
    /\ iserror_' = TRUE
    /\ UNCHANGED <<Buffer_, size_, isclose_, write_count_, read_count_,
                   accepted, delivered>>

Strings == UNION {[1..n -> Byte] : n \in 0..MaxPush}

StreamNext ==
    \/ \E data \in Strings : WriterPush(data)
    \/ \E len \in 0..MaxPush : ReaderPop(len) \/ Read(len)
    \/ WriterClose
    \/ WriterSetError

StreamSpec == StreamInit /\ [][StreamNext]_streamVars
---------------------------------------------------------------------------
(* Every variable stays in its range; in particular the counts agree with    *)
(* the number of buffered bytes and a stream never holds more than its       *)
(* capacity.                                                                 *)
TypeOK ==
    /\ Buffer_ \in [Slots -> Byte \cup {NoByte}]
    /\ size_ \in 0..Capacity
    /\ isclose_ \in BOOLEAN
    /\ iserror_ \in BOOLEAN
    /\ write_count_ \in Nat
    /\ read_count_ \in Nat
    /\ write_count_ = read_count_ + size_
    /\ accepted \in Seq(Byte)
    /\ delivered \in Seq(Byte)
    /\ Len(accepted) = write_count_
    /\ Len(delivered) = read_count_

(* What the reader took followed by what it can peek at is exactly what the  *)
(* writer handed over: no push overwrites a byte that is still buffered, and *)
(* the view never runs into stale bytes where the ring wraps around.         *)
StreamIntact == delivered \o Peek = accepted

(* Once a reader has been told that the stream is finished, it stays so: a   *)
(* consumer that saw is_finished() may stop reading.                         *)
FinishedIsFinal == [][is_finished => is_finished']_streamVars

(* The ring buffer implements the first-in first-out queue.                  *)
Abstract == INSTANCE ByteStreamSpec WITH
    stream <- [capacity |-> Capacity, queue |-> Peek, popped |-> read_count_,
               closed |-> isclose_, error |-> iserror_]

ImplementsFifo == Abstract!Spec
============================================================================
