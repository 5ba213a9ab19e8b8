-------------------------- MODULE ConnectionProofs --------------------------
(* Proofs about a connection of a TCPSender and a TCPReceiver                *)
(* (src/src/tcp_sender.cc, tcp_receiver.cc) for every stream, capacity,      *)
(* window and timeout and a network that loses, repeats and reorders what it *)
(* likes.  Each end keeps its own invariant; what ties them together is what *)
(* every message under way says, however old it is: a segment is a cut of    *)
(* the stream, and an acknowledgement was true of the receiver once.  Before *)
(* that, the ring buffer in which either stream lives (byte_stream.cc), the  *)
(* numbers it is sent under (wrapping_integers.cc), and what can be said of  *)
(* messages and streams without regard to the ends.                          *)
EXTENDS TCPConnection, ByteStream, MCWrappingIntegers, WrappingProofs

(* Either stream of a connection lives in the doubled ring buffer of         *)
(* src/src/byte_stream.cc.  What makes StreamIntact inductive, for every     *)
(* capacity and alphabet, is where each byte lies: the k-th byte of the      *)
(* stream, as long as it is buffered, is in slot k % capacity_ of both       *)
(* halves of the vector.                                                     *)

(* The reader got the bytes in the order in which they were accepted.        *)
DeliveredInOrder == \A k \in 1..read_count_ : delivered[k] = accepted[k]

(* Every buffered byte is in its slot of the first half and of the second.   *)
StoredTwice ==
    \A k \in read_count_ .. (write_count_ - 1) :
        /\ Buffer_[k % Capacity] = accepted[k + 1]
        /\ Buffer_[(k % Capacity) + Capacity] = accepted[k + 1]

RingInv == TypeOK /\ DeliveredInOrder /\ StoredTwice

(* What peek() shows: the accepted bytes that the reader has not taken.      *)
PeekIsRest ==
    /\ Peek \in Seq(Byte)
    /\ Len(Peek) = size_
    /\ \A i \in 1..size_ : Peek[i] = accepted[read_count_ + i]

USE CapacityAssumption

(* The view of peek() is the part of the accepted bytes that the reader has  *)
(* not taken, although it may run past the end of the first half.            *)
LEMMA PeekIsAccepted == TypeOK /\ StoredTwice => PeekIsRest
<1> SUFFICES ASSUME TypeOK, StoredTwice PROVE PeekIsRest
  OBVIOUS
<1>1. \A i \in 1..size_ :
         Buffer_[(read_count_ % Capacity) + i - 1] = accepted[read_count_ + i]
  <2>1. SUFFICES ASSUME NEW i \in 1..size_
                 PROVE  Buffer_[(read_count_ % Capacity) + i - 1]
                            = accepted[read_count_ + i]
    OBVIOUS
  <2> DEFINE m == read_count_ % Capacity
             k == read_count_ + (i - 1)
  <2>2. /\ read_count_ \in Int /\ i - 1 \in 0..(Capacity - 1)
        /\ k \in read_count_ .. (write_count_ - 1)
    BY DEF TypeOK
  <2>3. m \in 0..(Capacity - 1)
    BY <2>2, DivisionAlgorithm, ZenonT(30)
  <2>4. k % Capacity = IF m + (i - 1) < Capacity THEN m + (i - 1)
                                                 ELSE m + (i - 1) - Capacity
    BY <2>2, RemainderOfSum, ZenonT(30)
  <2>5. /\ Buffer_[k % Capacity] = accepted[k + 1]
        /\ Buffer_[(k % Capacity) + Capacity] = accepted[k + 1]
    BY <2>2 DEF StoredTwice
  <2>6. k + 1 = read_count_ + i
    BY <2>2
  <2> HIDE DEF m, k
  <2>7. CASE m + (i - 1) < Capacity
    <3>1. k % Capacity = m + i - 1
      BY <2>3, <2>4, <2>7
    <3> QED BY <3>1, <2>5, <2>6 DEF m
  <2>8. CASE ~(m + (i - 1) < Capacity)
    <3>1. (k % Capacity) + Capacity = m + i - 1
      BY <2>3, <2>4, <2>8
    <3> QED BY <3>1, <2>5, <2>6 DEF m
  <2> QED BY <2>7, <2>8
<1>2. \A i \in 1..size_ : accepted[read_count_ + i] \in Byte
  BY DEF TypeOK
<1>3. Peek \in [1..size_ -> Byte]
  BY <1>1, <1>2 DEF Peek
<1>4. size_ \in Nat
  BY DEF TypeOK
<1> QED BY <1>1, <1>3, <1>4 DEF Peek, PeekIsRest

(* What a push leaves in a slot: the byte of data that belongs there, or     *)
(* what was there before when none does.  At most capacity_ bytes are        *)
(* copied, so no two of them belong to the same slot.                        *)
LEMMA CopiedSlot ==
    ASSUME write_count_ \in Nat, NEW data \in Seq(Byte),
           NEW n \in 0..Len(data), n <= Capacity, NEW i \in Slots
    PROVE  /\ \A p \in 0..(n - 1) :
                 (write_count_ + p) % Capacity = i % Capacity
                    => Copied(data, n)[i] = data[p + 1]
           /\ (\A p \in 0..(n - 1) :
                 (write_count_ + p) % Capacity # i % Capacity)
                    => Copied(data, n)[i] = Buffer_[i]
<1> DEFINE Pos == {p \in 0..(n - 1) :
                      (write_count_ + p) % Capacity = i % Capacity}
<1>1. Copied(data, n)[i] = IF Pos = {} THEN Buffer_[i]
                           ELSE data[(CHOOSE p \in Pos : TRUE) + 1]
  BY DEF Copied, Slot
<1>2. \A p, q \in Pos : ~(p < q)
  <2>1. SUFFICES ASSUME NEW p \in Pos, NEW q \in Pos, p < q PROVE FALSE
    OBVIOUS
  <2>2. /\ write_count_ + p \in Int /\ q - p \in 1..(Capacity - 1)
        /\ write_count_ + q = (write_count_ + p) + (q - p)
    BY <2>1
  <2>3. ((write_count_ + p) + (q - p)) % Capacity
            # (write_count_ + p) % Capacity
    BY <2>2, RemaindersDiffer, ZenonT(30)
  <2> QED BY <2>2, <2>3
<1>3. \A p, q \in Pos : p = q
  BY <1>2
<1>4. ASSUME NEW p \in Pos PROVE (CHOOSE q \in Pos : TRUE) = p
  <2>1. (CHOOSE q \in Pos : TRUE) \in Pos
    BY <1>4
  <2> QED BY <2>1, <1>3
<1>5. ASSUME NEW p \in 0..(n - 1),
             (write_count_ + p) % Capacity = i % Capacity
      PROVE  Copied(data, n)[i] = data[p + 1]
  <2>1. p \in Pos
    BY <1>5
  <2>2. Pos # {} /\ (CHOOSE q \in Pos : TRUE) = p
    BY <2>1, <1>4
  <2> HIDE DEF Pos
  <2> QED BY <2>2, <1>1
<1>6. ASSUME \A p \in 0..(n - 1) :
                (write_count_ + p) % Capacity # i % Capacity
      PROVE  Copied(data, n)[i] = Buffer_[i]
  <2>1. Pos = {}
    BY <1>6
  <2> HIDE DEF Pos
  <2> QED BY <2>1, <1>1
<1> QED BY <1>5, <1>6

(* An element of the second of two joined sequences.                         *)
LEMMA Appended ==
    ASSUME NEW S, NEW s \in Seq(S), NEW t \in Seq(S), NEW j \in 1..Len(t)
    PROVE  (s \o t)[Len(s) + j] = t[j]
OBVIOUS

(* The length of a sequence to which a part of another one is appended.      *)
LEMMA AppendPartLength ==
    ASSUME NEW S, NEW s \in Seq(S), NEW d \in Seq(S), NEW n \in 0..Len(d)
    PROVE  Len(s \o SubSeq(d, 1, n)) = Len(s) + n
OBVIOUS

(* A sequence to which the first n elements of another one are appended.     *)
LEMMA AppendPart ==
    ASSUME NEW S, NEW s \in Seq(S), NEW d \in Seq(S), NEW n \in 0..Len(d),
           NEW longer, longer = s \o SubSeq(d, 1, n)
    PROVE  /\ longer \in Seq(S)
           /\ Len(longer) = Len(s) + n
           /\ \A k \in 1..Len(s) : longer[k] = s[k]
           /\ \A p \in 1..n : longer[Len(s) + p] = d[p]
<1> DEFINE part == SubSeq(d, 1, n)
<1>1. part \in Seq(S) /\ Len(part) = n /\ \A p \in 1..n : part[p] = d[p]
  OBVIOUS
<1>2. longer = s \o part
  OBVIOUS
<1> HIDE DEF part
<1> QED BY <1>1, <1>2

(* Initially nothing is stored and nothing was accepted.                     *)
LEMMA RingStarts == StreamInit => RingInv
<1> SUFFICES ASSUME StreamInit PROVE RingInv
  OBVIOUS
<1>1. TypeOK
  <2>1. Buffer_ \in [Slots -> Byte \cup {NoByte}]
    BY DEF StreamInit
  <2>2. /\ size_ \in 0..Capacity
        /\ write_count_ = read_count_ + size_
        /\ write_count_ \in Nat /\ read_count_ \in Nat
    BY DEF StreamInit
  <2>3. /\ accepted \in Seq(Byte) /\ delivered \in Seq(Byte)
        /\ Len(accepted) = write_count_ /\ Len(delivered) = read_count_
    BY DEF StreamInit
  <2> QED BY <2>1, <2>2, <2>3 DEF StreamInit, TypeOK
<1>2. DeliveredInOrder
  BY DEF StreamInit, DeliveredInOrder
<1>3. StoredTwice
  BY DEF StreamInit, StoredTwice
<1> QED BY <1>1, <1>2, <1>3 DEF RingInv

(* The strings of the actions are sequences of bytes.                        *)
LEMMA StringsAreSequences == \A data \in Strings : data \in Seq(Byte)
BY BoundAssumption DEF Strings

(* How much of a string a push takes.                                        *)
LEMMA PushedLength ==
    ASSUME TypeOK, NEW data \in Seq(Byte)
    PROVE  LET n == Smaller(Len(data), available_capacity)
           IN  n \in 0..Len(data) /\ n \in Nat /\ size_ + n <= Capacity
BY DEF TypeOK, Smaller, available_capacity

(* A push takes only what fits, appends it to the accepted bytes and puts    *)
(* each new byte into slots that no buffered byte occupies.                  *)
LEMMA PushKeepsInv ==
    ASSUME RingInv, NEW data \in Strings, WriterPush(data)
    PROVE  RingInv'
<1> DEFINE n == Smaller(Len(data), available_capacity)
           w == write_count_
<1> USE DEF RingInv
<1>1. data \in Seq(Byte)
  BY StringsAreSequences
<1>2. n \in 0..Len(data) /\ n \in Nat /\ size_ + n <= Capacity
  BY <1>1, PushedLength
<1>3. /\ Buffer_' = Copied(data, n)
      /\ size_' = size_ + n
      /\ write_count_' = w + n
      /\ accepted' = accepted \o SubSeq(data, 1, n)
      /\ UNCHANGED <<isclose_, iserror_, read_count_, delivered>>
  BY DEF WriterPush
<1> HIDE DEF n
<1>4. /\ accepted' \in Seq(Byte)
      /\ Len(accepted') = w + n
      /\ \A k \in 1..w : accepted'[k] = accepted[k]
      /\ \A p \in 0..(n - 1) : accepted'[w + p + 1] = data[p + 1]
  <2>1. accepted \in Seq(Byte) /\ Len(accepted) = w /\ w \in Nat
    BY DEF TypeOK
  <2>2. accepted' \in Seq(Byte)
    BY <2>1, <1>1, <1>2, <1>3, AppendPart
  <2>4. Len(accepted') = Len(accepted) + n
    <3>1. Len(accepted \o SubSeq(data, 1, n)) = Len(accepted) + n
      BY <2>1, <1>1, <1>2, AppendPartLength, ZenonT(30)
    <3> QED BY <3>1, <1>3, ZenonT(30)
  <2>5. \A k \in 1..Len(accepted) : accepted'[k] = accepted[k]
    BY <2>1, <1>1, <1>2, <1>3, AppendPart
  <2>6. \A p \in 1..n : accepted'[Len(accepted) + p] = data[p]
    BY <2>1, <1>1, <1>2, <1>3, AppendPart, SMTT(30)
  <2>3. ASSUME NEW p \in 0..(n - 1)
        PROVE  accepted'[w + p + 1] = data[p + 1]
    <3>1. p + 1 \in 1..n /\ w + (p + 1) = w + p + 1
      BY <1>2, <2>1
    <3> QED BY <3>1, <2>1, <2>6
  <2> QED BY <2>1, <2>2, <2>3, <2>4, <2>5
<1>5. n <= Capacity /\ w \in Nat
  BY <1>2 DEF TypeOK
<1>6. \A i \in Slots :
         Copied(data, n)[i] \in Byte \cup {NoByte}
  <2>1. SUFFICES ASSUME NEW i \in Slots
                 PROVE  Copied(data, n)[i] \in Byte \cup {NoByte}
    OBVIOUS
  <2>2. Buffer_[i] \in Byte \cup {NoByte}
    BY DEF TypeOK
  <2>3. \A p \in 0..(n - 1) : data[p + 1] \in Byte
    BY <1>1, <1>2
  <2>4. ASSUME NEW p \in 0..(n - 1),
               (write_count_ + p) % Capacity = i % Capacity
        PROVE  Copied(data, n)[i] = data[p + 1]
    BY <2>4, <1>1, <1>2, <1>5, CopiedSlot, ZenonT(30)
  <2>5. ASSUME \A p \in 0..(n - 1) :
                  (write_count_ + p) % Capacity # i % Capacity
        PROVE  Copied(data, n)[i] = Buffer_[i]
    BY <2>5, <1>1, <1>2, <1>5, CopiedSlot, ZenonT(30)
  <2> QED BY <2>2, <2>3, <2>4, <2>5, ZenonT(30)
<1>7. Copied(data, n) \in [Slots -> Byte \cup {NoByte}]
  <2>1. Copied(data, n) = [i \in Slots |-> Copied(data, n)[i]]
    BY DEF Copied
  <2> QED BY <2>1, <1>6
<1>8. TypeOK'
  BY <1>2, <1>3, <1>4, <1>7 DEF TypeOK, Slots
<1>9. DeliveredInOrder'
  <2>1. \A k \in 1..read_count_ : k \in 1..w
    BY DEF TypeOK
  <2> QED BY <2>1, <1>3, <1>4 DEF DeliveredInOrder
<1>10. StoredTwice'
  <2>1. SUFFICES ASSUME NEW k \in read_count_ .. (w + n - 1),
                        NEW i \in Slots, i % Capacity = k % Capacity,
                        k < w => Buffer_[i] = accepted[k + 1]
                 PROVE  Copied(data, n)[i] = accepted'[k + 1]
    <3>1. SUFFICES ASSUME NEW k \in read_count_ .. (w + n - 1)
                   PROVE  /\ Copied(data, n)[k % Capacity] = accepted'[k + 1]
                          /\ Copied(data, n)[(k % Capacity) + Capacity]
                                = accepted'[k + 1]
      <4>1. /\ Buffer_' = Copied(data, n) /\ read_count_' = read_count_
            /\ write_count_' - 1 = w + n - 1
        BY <1>2, <1>3, <1>5
      <4> QED BY <4>1 DEF StoredTwice
    <3> DEFINE m == k % Capacity
    <3>2. k \in Int
      BY DEF TypeOK
    <3>3. m \in 0..(Capacity - 1)
      BY <3>2, DivisionAlgorithm, ZenonT(30)
    <3>4. m % Capacity = m /\ (m + Capacity) % Capacity = m
      BY <3>3, RemainderOfSlot, ZenonT(30)
    <3>5. m \in Slots /\ m + Capacity \in Slots
      BY <3>3 DEF Slots
    <3>6. k < w => /\ Buffer_[m] = accepted[k + 1]
                   /\ Buffer_[m + Capacity] = accepted[k + 1]
      <4>1. k < w => k \in read_count_ .. (write_count_ - 1)
        BY <3>2, <1>5 DEF TypeOK
      <4> QED BY <4>1 DEF StoredTwice
    <3> QED BY <2>1, <3>4, <3>5, <3>6
  <2>2. CASE k < w
    <3>1. ASSUME NEW p \in 0..(n - 1) 
          PROVE  (w + p) % Capacity # i % Capacity
      <4>1. /\ k \in Int /\ w + p - k \in 1..(Capacity - 1)
            /\ w + p = k + (w + p - k)
        BY <1>2, <2>2 DEF TypeOK
      <4>2. (k + (w + p - k)) % Capacity # k % Capacity
        BY <4>1, RemaindersDiffer, ZenonT(30)
      <4> QED BY <4>1, <4>2, <2>1
    <3>2. Copied(data, n)[i] = Buffer_[i]
      BY <3>1, <1>1, <1>2, <1>5, CopiedSlot, ZenonT(30)
    <3>3. k + 1 \in 1..w
      BY <2>2 DEF TypeOK
    <3> QED BY <3>2, <3>3, <2>1, <2>2, <1>4
  <2>3. CASE ~(k < w)
    <3>1. /\ k - w \in 0..(n - 1)
          /\ w + (k - w) = k
      BY <2>3, <1>2 DEF TypeOK
    <3>2. (w + (k - w)) % Capacity = i % Capacity
      BY <3>1, <2>1
    <3>3. Copied(data, n)[i] = data[(k - w) + 1]
      BY <3>1, <3>2, <1>1, <1>2, <1>5, CopiedSlot, ZenonT(30)
    <3>4. accepted'[w + (k - w) + 1] = data[(k - w) + 1]
      BY <3>1, <1>4
    <3> QED BY <3>1, <3>3, <3>4
  <2> QED BY <2>2, <2>3
<1> QED BY <1>8, <1>9, <1>10

(* Taking the first n bytes of the view hands the reader the bytes that come *)
(* next in the stream and leaves the others where they are.                  *)
LEMMA TakeKeepsInv ==
    ASSUME RingInv, NEW n \in 0..size_,
           read_count_' = read_count_ + n,
           size_' = size_ - n,
           delivered' = delivered \o SubSeq(Peek, 1, n),
           UNCHANGED <<Buffer_, isclose_, iserror_, write_count_, accepted>>
    PROVE  RingInv'
<1> USE DEF RingInv
<1>1. /\ Peek \in Seq(Byte)
      /\ Len(Peek) = size_
      /\ \A i \in 1..size_ : Peek[i] = accepted[read_count_ + i]
  BY PeekIsAccepted DEF PeekIsRest
<1>2. /\ delivered' \in Seq(Byte)
      /\ Len(delivered') = read_count_ + n
      /\ \A k \in 1..read_count_ : delivered'[k] = delivered[k]
      /\ \A i \in 1..n : delivered'[read_count_ + i] = Peek[i]
  <2>1. /\ delivered \in Seq(Byte) /\ Len(delivered) = read_count_
        /\ n \in 0..Len(Peek) /\ n \in Nat
    BY <1>1 DEF TypeOK
  <2>2. delivered' \in Seq(Byte)
    BY <2>1, <1>1, AppendPart
  <2>4. Len(delivered') = Len(delivered) + n
    <3>1. Len(delivered \o SubSeq(Peek, 1, n)) = Len(delivered) + n
      BY <2>1, <1>1, AppendPartLength, ZenonT(30)
    <3> QED BY <3>1, ZenonT(30)
  <2>5. \A k \in 1..Len(delivered) : delivered'[k] = delivered[k]
    BY <2>1, <1>1, AppendPart
  <2>6. \A p \in 1..n : delivered'[Len(delivered) + p] = Peek[p]
    BY <2>1, <1>1, AppendPart, SMTT(30)
  <2> QED BY <2>1, <2>2, <2>4, <2>5, <2>6
<1>3. TypeOK'
  BY <1>2 DEF TypeOK, Slots
<1>4. DeliveredInOrder'
  <2>1. SUFFICES ASSUME NEW k \in 1..(read_count_ + n)
                 PROVE  delivered'[k] = accepted[k]
    BY DEF DeliveredInOrder
  <2>2. CASE k <= read_count_
    BY <2>2, <1>2 DEF DeliveredInOrder, TypeOK
  <2>3. CASE ~(k <= read_count_)
    <3> DEFINE i == k - read_count_
    <3>1. i \in 1..n /\ i \in 1..size_ /\ read_count_ + i = k
      BY <2>3 DEF TypeOK
    <3> HIDE DEF i
    <3>2. delivered'[read_count_ + i] = Peek[i]
      BY <3>1, <1>2
    <3>3. Peek[i] = accepted[read_count_ + i]
      BY <3>1, <1>1
    <3> QED BY <3>1, <3>2, <3>3
  <2> QED BY <2>2, <2>3
<1>5. StoredTwice'
  <2>1. \A k \in (read_count_ + n) .. (write_count_ - 1) :
           k \in read_count_ .. (write_count_ - 1)
    BY DEF TypeOK
  <2> QED BY <2>1 DEF StoredTwice
<1> QED BY <1>3, <1>4, <1>5

(* Popping and reading both take the first bytes of the view.                *)
LEMMA PopTakes ==
    ASSUME TypeOK, NEW len \in 0..MaxPush, ReaderPop(len)
    PROVE  able_pop_len(len) \in 0..size_ /\ able_pop_len(len) <= len
BY BoundAssumption DEF TypeOK, ReaderPop, able_pop_len, Smaller

LEMMA ReadTakes ==
    ASSUME TypeOK, StoredTwice, NEW len \in 0..MaxPush, Read(len)
    PROVE  LET n == Smaller(len, size_)
           IN  /\ n \in 0..size_
               /\ read_count_' = read_count_ + n
               /\ size_' = size_ - n
               /\ delivered' = delivered \o SubSeq(Peek, 1, n)
               /\ UNCHANGED <<Buffer_, isclose_, iserror_, write_count_,
                              accepted>>
<1> DEFINE n == Smaller(len, size_)
<1>1. Peek \in Seq(Byte) /\ Len(Peek) = size_
  BY PeekIsAccepted DEF PeekIsRest
<1>2. n \in 0..size_
  BY BoundAssumption DEF TypeOK, Smaller
<1>3. n = Smaller(len, Len(Peek))
  BY <1>1
<1> HIDE DEF n
<1>4. Len(SubSeq(Peek, 1, n)) = n
  BY <1>1, <1>2
<1>5. /\ read_count_' = read_count_ + Len(SubSeq(Peek, 1, n))
      /\ size_' = size_ - Len(SubSeq(Peek, 1, n))
      /\ delivered' = delivered \o SubSeq(Peek, 1, n)
      /\ UNCHANGED <<Buffer_, isclose_, iserror_, write_count_, accepted>>
  BY <1>3, Zenon DEF Read
<1> QED BY <1>2, <1>4, <1>5 DEF n

(* Every step keeps the invariant.                                           *)
LEMMA RingKeeps == RingInv /\ [StreamNext]_streamVars => RingInv'
<1> SUFFICES ASSUME RingInv, [StreamNext]_streamVars PROVE RingInv'
  OBVIOUS
<1>1. ASSUME NEW data \in Strings, WriterPush(data) PROVE RingInv'
  BY <1>1, PushKeepsInv
<1>2. ASSUME NEW len \in 0..MaxPush, ReaderPop(len) PROVE RingInv'
  <2>1. able_pop_len(len) \in 0..size_
    BY <1>2, PopTakes DEF RingInv
  <2> QED BY <1>2, <2>1, TakeKeepsInv DEF ReaderPop
<1>3. ASSUME NEW len \in 0..MaxPush, Read(len) PROVE RingInv'
  BY <1>3, ReadTakes, TakeKeepsInv DEF RingInv
<1>4. CASE WriterClose
  BY <1>4 DEF WriterClose, RingInv, TypeOK, DeliveredInOrder, StoredTwice, Slots
<1>5. CASE WriterSetError
  BY <1>5 DEF WriterSetError, RingInv, TypeOK, DeliveredInOrder, StoredTwice, Slots
<1>6. CASE UNCHANGED streamVars
  BY <1>6 DEF streamVars, RingInv, TypeOK, DeliveredInOrder, StoredTwice, Slots
<1> QED BY <1>1, <1>2, <1>3, <1>4, <1>5, <1>6 DEF StreamNext

LEMMA RingInvariance == StreamSpec => []RingInv
BY RingStarts, RingKeeps, PTL DEF StreamSpec

(* The counts of the stream agree with the bytes it holds, and it never      *)
(* holds more than capacity_ of them, whatever is pushed and popped.         *)
THEOREM StreamTypeCorrect == StreamSpec => []TypeOK
<1>1. RingInv => TypeOK
  BY DEF RingInv
<1> QED BY <1>1, RingInvariance, PTL

(* Where every byte lies implies that the reader misses and mangles none.    *)
LEMMA RingIsIntact == RingInv => StreamIntact
<1> SUFFICES ASSUME RingInv PROVE delivered \o Peek = accepted
  BY DEF StreamIntact
<1> USE DEF RingInv
<1>1. /\ Peek \in Seq(Byte)
      /\ Len(Peek) = size_
      /\ \A i \in 1..size_ : Peek[i] = accepted[read_count_ + i]
  BY PeekIsAccepted DEF PeekIsRest
<1>2. /\ delivered \in Seq(Byte) /\ Len(delivered) = read_count_
      /\ accepted \in Seq(Byte) /\ Len(accepted) = read_count_ + size_
      /\ read_count_ \in Nat /\ size_ \in Nat
  BY DEF TypeOK
<1>3. \A k \in 1..read_count_ : delivered[k] = accepted[k]
  BY DEF DeliveredInOrder
<1>4. delivered \o Peek \in Seq(Byte)
  BY <1>1, <1>2
<1>5. Len(delivered \o Peek) = Len(accepted)
  BY <1>1, <1>2
<1>6. ASSUME NEW k \in 1..Len(accepted)
      PROVE  (delivered \o Peek)[k] = accepted[k]
  <2>1. CASE k <= read_count_
    BY <2>1, <1>1, <1>2, <1>3
  <2>2. CASE ~(k <= read_count_)
    <3>1. k - read_count_ \in 1..size_ /\ read_count_ + (k - read_count_) = k
      BY <2>2, <1>2
    <3>2. \A i \in 1..Len(Peek) :
             (delivered \o Peek)[Len(delivered) + i] = Peek[i]
      BY <1>1, <1>2
    <3>3. (delivered \o Peek)[k] = Peek[k - read_count_]
      BY <3>1, <3>2, <1>1, <1>2
    <3> QED BY <3>1, <3>3, <1>1
  <2> QED BY <2>1, <2>2
<1>7. \A s, t \in Seq(Byte) :
         Len(s) = Len(t) /\ (\A k \in 1..Len(t) : s[k] = t[k]) => s = t
  OBVIOUS
<1> QED BY <1>2, <1>4, <1>5, <1>6, <1>7, ZenonT(30)

(* The reader gets exactly the bytes the writer handed over, in order and    *)
(* unharmed by the wrap-around of the ring, for every capacity.              *)
THEOREM StreamStaysIntact == StreamSpec => []StreamIntact
BY RingIsIntact, RingInvariance, PTL

(* A stream that was finished stays finished if its writer, as the           *)
(* components of this repository do, stops writing once it closed it.        *)
THEOREM FinishedStaysFinished ==
    WriterStopsAtClose => (StreamSpec => FinishedIsFinal)
<1> SUFFICES ASSUME WriterStopsAtClose PROVE StreamSpec => FinishedIsFinal
  OBVIOUS
<1>1. RingInv /\ [StreamNext]_streamVars => [is_finished => is_finished']_streamVars
  <2> SUFFICES ASSUME RingInv, StreamNext, is_finished PROVE is_finished'
    BY DEF streamVars
  <2>1. ASSUME NEW data \in Strings, WriterPush(data) PROVE FALSE
    BY <2>1 DEF WriterPush, is_finished
  <2>2. ASSUME NEW len \in 0..MaxPush, ReaderPop(len) PROVE is_finished'
    <3>1. able_pop_len(len) = 0
      BY <2>2, PopTakes DEF RingInv, is_finished
    <3> QED BY <3>1, <2>2 DEF ReaderPop, is_finished
  <2>3. ASSUME NEW len \in 0..MaxPush, Read(len) PROVE FALSE
    BY <2>3 DEF Read, is_finished
  <2>4. CASE WriterClose
    BY <2>4 DEF WriterClose, is_finished
  <2>5. CASE WriterSetError
    BY <2>5 DEF WriterSetError, is_finished
  <2> QED BY <2>1, <2>2, <2>3, <2>4, <2>5 DEF StreamNext
<1> QED BY <1>1, RingInvariance, PTL DEF StreamSpec, FinishedIsFinal
-----------------------------------------------------------------------------
(* The refinement: the view of peek() is the queue.                          *)
RingAsQueue == [capacity |-> Capacity, queue |-> Peek, popped |-> read_count_,
        closed |-> isclose_, error |-> iserror_]

(* The view after a push: what was there, then what was taken of data.       *)
LEMMA PeekAfterPush ==
    ASSUME RingInv, RingInv', NEW data \in Strings, WriterPush(data)
    PROVE  Peek' = Peek \o SubSeq(data, 1, Smaller(Len(data),
                                                   Capacity - size_))
<1> DEFINE n == Smaller(Len(data), available_capacity)
           part == SubSeq(data, 1, n)
<1> USE DEF RingInv
<1>1. data \in Seq(Byte)
  BY StringsAreSequences
<1>2. n \in 0..Len(data) /\ n \in Nat /\ size_ + n <= Capacity
  BY <1>1, PushedLength
<1>3. /\ size_' = size_ + n
      /\ accepted' = accepted \o part
      /\ read_count_' = read_count_
  BY DEF WriterPush
<1> HIDE DEF n
<1>4. /\ Peek \in Seq(Byte) /\ Len(Peek) = size_
      /\ \A i \in 1..size_ : Peek[i] = accepted[read_count_ + i]
  BY PeekIsAccepted DEF PeekIsRest
<1>5. /\ Peek' \in Seq(Byte) /\ Len(Peek') = size_'
      /\ \A i \in 1..size_' : Peek'[i] = accepted'[read_count_' + i]
  <2>1. PeekIsRest'
    BY PeekIsAccepted, PTL DEF RingInv
  <2> QED BY <2>1 DEF PeekIsRest
<1>6. /\ part \in Seq(Byte) /\ Len(part) = n
  BY <1>1, <1>2
<1> HIDE DEF part
<1>7. /\ accepted \in Seq(Byte) /\ Len(accepted) = read_count_ + size_
      /\ read_count_ \in Nat /\ size_ \in Nat
  BY DEF TypeOK
<1>8. Peek \o part \in Seq(Byte) /\ Len(Peek \o part) = size_ + n
  BY <1>4, <1>6
<1>9. ASSUME NEW i \in 1..(size_ + n)
      PROVE  Peek'[i] = (Peek \o part)[i]
  <2>1. Peek'[i] = (accepted \o part)[read_count_ + i]
    BY <1>3, <1>5
  <2>2. CASE i <= size_
    <3>1. (accepted \o part)[read_count_ + i] = accepted[read_count_ + i]
      BY <2>2, <1>6, <1>7
    <3>2. (Peek \o part)[i] = Peek[i]
      BY <2>2, <1>4, <1>6
    <3>3. i \in 1..size_
      BY <2>2
    <3> QED BY <2>1, <3>1, <3>2, <3>3, <1>4
  <2>3. CASE ~(i <= size_)
    <3> DEFINE j == i - size_
    <3>1. j \in 1..n /\ j \in Nat /\ i = Len(Peek) + j
          /\ read_count_ + i = Len(accepted) + j
      BY <2>3, <1>2, <1>4, <1>7
    <3> HIDE DEF j
    <3>2. (accepted \o part)[Len(accepted) + j] = part[j]
      BY <3>1, <1>6, <1>7, Appended
    <3>3. (Peek \o part)[Len(Peek) + j] = part[j]
      BY <3>1, <1>4, <1>6, Appended
    <3> QED BY <2>1, <3>1, <3>2, <3>3
  <2> QED BY <2>2, <2>3
<1>10. \A s, t \in Seq(Byte) :
         Len(s) = Len(t) /\ (\A k \in 1..Len(t) : s[k] = t[k]) => s = t
  OBVIOUS
<1>11. Peek' = Peek \o part
  <2>1. Len(Peek') = Len(Peek \o part)
    BY <1>3, <1>5, <1>8
  <2>2. \A k \in 1..Len(Peek \o part) : Peek'[k] = (Peek \o part)[k]
    BY <1>8, <1>9
  <2> QED BY <2>1, <2>2, <1>5, <1>8, <1>10, ZenonT(30)
<1> QED BY <1>11 DEF part, n, available_capacity

(* The view after the reader took n bytes: what was behind them.             *)
LEMMA PeekAfterTake ==
    ASSUME RingInv, RingInv', NEW n \in 0..size_,
           read_count_' = read_count_ + n,
           size_' = size_ - n,
           accepted' = accepted
    PROVE  Peek' = SubSeq(Peek, n + 1, Len(Peek))
<1> USE DEF RingInv
<1>1. /\ Peek \in Seq(Byte) /\ Len(Peek) = size_
      /\ \A i \in 1..size_ : Peek[i] = accepted[read_count_ + i]
  BY PeekIsAccepted DEF PeekIsRest
<1>2. /\ Peek' \in Seq(Byte) /\ Len(Peek') = size_'
      /\ \A i \in 1..size_' : Peek'[i] = accepted'[read_count_' + i]
  <2>1. PeekIsRest'
    BY PeekIsAccepted, PTL DEF RingInv
  <2> QED BY <2>1 DEF PeekIsRest
<1>3. size_ \in Nat /\ read_count_ \in Nat
  BY DEF TypeOK
<1> DEFINE rest == SubSeq(Peek, n + 1, Len(Peek))
<1>4. /\ rest \in Seq(Byte) /\ Len(rest) = size_ - n
      /\ \A i \in 1..(size_ - n) : rest[i] = Peek[n + i]
  BY <1>1, <1>3
<1> HIDE DEF rest
<1>5. ASSUME NEW i \in 1..(size_ - n) PROVE Peek'[i] = rest[i]
  <2>1. n + i \in 1..size_ /\ read_count_ + (n + i) = read_count_' + i
    BY <1>3
  <2> QED BY <2>1, <1>1, <1>2, <1>4
<1>6. \A s, t \in Seq(Byte) :
         Len(s) = Len(t) /\ (\A k \in 1..Len(t) : s[k] = t[k]) => s = t
  OBVIOUS
<1>7. Len(Peek') = Len(rest) /\ \A k \in 1..Len(rest) : Peek'[k] = rest[k]
  BY <1>2, <1>4, <1>5
<1>8. Peek' = rest
  BY <1>2, <1>4, <1>6, <1>7, ZenonT(30)
<1> QED BY <1>8 DEF rest

(* Replacing two fields is replacing one after the other.                    *)
LEMMA TwoFields ==
    ASSUME NEW s, NEW t, NEW u
    PROVE  [s EXCEPT !.queue = t, !.popped = u]
              = [[s EXCEPT !.queue = t] EXCEPT !.popped = u]
OBVIOUS

(* A fresh ring buffer is an empty queue.                                    *)
LEMMA RingStartImplements == StreamInit => Abstract!Init
<1> SUFFICES ASSUME StreamInit PROVE Abstract!Init
  OBVIOUS
<1>1. PeekIsRest /\ size_ = 0
  BY RingStarts, PeekIsAccepted DEF RingInv, StreamInit
<1>2. Peek = <<>>
  BY <1>1 DEF PeekIsRest
<1> QED BY <1>2 DEF StreamInit, Abstract!Init, Abstract!NewStream

(* Every step of the ring buffer is the step of the same name of the queue;  *)
(* read() is a pop of what the view holds.                                   *)
LEMMA RingStepImplements ==
    RingInv /\ RingInv' /\ [StreamNext]_streamVars => [Abstract!Next]_RingAsQueue
<1> SUFFICES ASSUME RingInv, RingInv', [StreamNext]_streamVars
             PROVE  Abstract!Next \/ RingAsQueue' = RingAsQueue
  BY DEF RingAsQueue
<1> USE DEF RingInv
<1>1. PeekIsRest
  BY PeekIsAccepted
<1>2. ASSUME NEW n \in 0..size_, NEW len \in 0..MaxPush,
             n = Abstract!Smaller(len, Len(Peek)),
             read_count_' = read_count_ + n, size_' = size_ - n,
             UNCHANGED <<isclose_, iserror_, accepted>>
      PROVE  RingAsQueue' = Abstract!Pop(RingAsQueue, len)
  <2>1. Peek' = SubSeq(Peek, n + 1, Len(Peek))
    BY <1>2, PeekAfterTake
  <2>2. RingAsQueue' = [RingAsQueue EXCEPT !.queue = Peek', !.popped = read_count_']
    <3>1. RingAsQueue' = [capacity |-> Capacity, queue |-> Peek',
                  popped |-> read_count_', closed |-> isclose_,
                  error |-> iserror_]
      BY <1>2 DEF RingAsQueue
    <3> DEFINE shorter == [capacity |-> Capacity, queue |-> Peek',
                           popped |-> read_count_, closed |-> isclose_,
                           error |-> iserror_]
    <3>2. [RingAsQueue EXCEPT !.queue = Peek'] = shorter
      BY DEF RingAsQueue
    <3>3. [shorter EXCEPT !.popped = read_count_'] =
              [capacity |-> Capacity, queue |-> Peek',
               popped |-> read_count_', closed |-> isclose_,
               error |-> iserror_]
      OBVIOUS
    <3> HIDE DEF shorter
    <3> QED BY <3>1, <3>2, <3>3, TwoFields, Zenon
  <2>3. /\ RingAsQueue.queue = Peek /\ RingAsQueue.popped = read_count_
    BY DEF RingAsQueue
  <2> QED BY <2>1, <2>2, <2>3, <1>2, ZenonT(30) DEF Abstract!Pop
<1>3. ASSUME NEW data \in Strings, WriterPush(data)
      PROVE  Abstract!Next
  <2>1. Peek' = Peek \o SubSeq(data, 1, Smaller(Len(data), Capacity - size_))
    BY <1>3, PeekAfterPush
  <2>2. Len(Peek) = size_
    BY <1>1 DEF PeekIsRest
  <2>3. RingAsQueue' = [RingAsQueue EXCEPT !.queue = Peek']
    <3>1. UNCHANGED <<isclose_, iserror_, read_count_>>
      BY <1>3 DEF WriterPush
    <3> QED BY <3>1 DEF RingAsQueue
  <2>4. RingAsQueue' = Abstract!Push(RingAsQueue, data)
    <3>1. RingAsQueue.queue = Peek /\ RingAsQueue.capacity = Capacity
      BY DEF RingAsQueue
    <3> QED BY <3>1, <2>1, <2>2, <2>3, ZenonT(30)
        DEF Abstract!Push, Abstract!AvailableCapacity, Abstract!Smaller,
            Smaller
  <2>5. data \in Abstract!Strings
    BY DEF Strings, Abstract!Strings
  <2> QED BY <2>4, <2>5 DEF Abstract!Next, RingAsQueue
<1>4. ASSUME NEW len \in 0..MaxPush, ReaderPop(len)
      PROVE  Abstract!Next
  <2>1. able_pop_len(len) \in 0..size_
    BY <1>4, PopTakes
  <2>2. able_pop_len(len) = Abstract!Smaller(len, Len(Peek))
    BY <1>1 DEF able_pop_len, Smaller, Abstract!Smaller, PeekIsRest
  <2>3. RingAsQueue' = Abstract!Pop(RingAsQueue, len)
    BY <2>1, <2>2, <1>4, <1>2 DEF ReaderPop
  <2> QED BY <2>3 DEF Abstract!Next, RingAsQueue
<1>5. ASSUME NEW len \in 0..MaxPush, Read(len)
      PROVE  Abstract!Next
  <2> DEFINE n == Smaller(len, size_)
  <2>1. /\ n \in 0..size_
        /\ read_count_' = read_count_ + n
        /\ size_' = size_ - n
        /\ UNCHANGED <<isclose_, iserror_, accepted>>
    BY <1>5, ReadTakes
  <2>2. n = Abstract!Smaller(len, Len(Peek))
    BY <1>1 DEF Smaller, Abstract!Smaller, PeekIsRest
  <2>3. RingAsQueue' = Abstract!Pop(RingAsQueue, len)
    BY <2>1, <2>2, <1>2
  <2> QED BY <2>3 DEF Abstract!Next, RingAsQueue
<1>6. CASE WriterClose
  <2>1. Peek' = Peek
    BY <1>6 DEF WriterClose, Peek
  <2>2. RingAsQueue' = Abstract!Close(RingAsQueue)
    <3>1. RingAsQueue' = [RingAsQueue EXCEPT !.closed = isclose_']
      <4>1. read_count_' = read_count_ /\ iserror_' = iserror_
        BY <1>6 DEF WriterClose
      <4> QED BY <4>1, <2>1 DEF RingAsQueue
    <3>2. isclose_' = TRUE
      BY <1>6 DEF WriterClose
    <3> QED BY <3>1, <3>2, Zenon DEF Abstract!Close
  <2> QED BY <2>2 DEF Abstract!Next, RingAsQueue
<1>7. CASE WriterSetError
  <2>1. Peek' = Peek
    BY <1>7 DEF WriterSetError, Peek
  <2>2. RingAsQueue' = Abstract!SetError(RingAsQueue)
    <3>1. RingAsQueue' = [RingAsQueue EXCEPT !.error = iserror_']
      <4>1. read_count_' = read_count_ /\ isclose_' = isclose_
        BY <1>7 DEF WriterSetError
      <4> QED BY <4>1, <2>1 DEF RingAsQueue
    <3>2. iserror_' = TRUE
      BY <1>7 DEF WriterSetError
    <3> QED BY <3>1, <3>2, Zenon DEF Abstract!SetError
  <2> QED BY <2>2 DEF Abstract!Next, RingAsQueue
<1>8. CASE UNCHANGED streamVars
  BY <1>8 DEF streamVars, RingAsQueue, Peek
<1> QED BY <1>3, <1>4, <1>5, <1>6, <1>7, <1>8 DEF StreamNext

(* The doubled ring buffer of byte_stream.cc implements the first-in         *)
(* first-out queue of StreamFifo, for every capacity.                        *)
THEOREM RingBufferIsFifo == StreamSpec => ImplementsFifo
BY RingInvariance, RingStartImplements, RingStepImplements, PTL
   DEF StreamSpec, ImplementsFifo, Abstract!Spec, RingAsQueue

HIDE CapacityAssumption
---------------------------------------------------------------------------
(* The range of the checkpoint is all that the theorems need of what the two *)
(* endpoints do.                                                             *)
NumberRanges ==
    initial \in Wrap32 /\ absolute \in Nat /\ reference \in 0..MaxCheckpoint

LEMMA NumberRangesHold == NumbersSpec => []NumberRanges
<1>1. NumbersInit => NumberRanges
  BY CheckpointAssumption DEF NumbersInit, NumberRanges
<1>2. NumberRanges /\ [NumbersNext]_numberVars => NumberRanges'
  <2> SUFFICES ASSUME NumberRanges, [NumbersNext]_numberVars PROVE NumberRanges'
    OBVIOUS
  <2>1. Base \in Nat
    BY HalfLap
  <2>2. ASSUME NEW n \in 1..Base, Send(n) PROVE NumberRanges'
    BY <2>1, <2>2 DEF Send, NumberRanges
  <2>3. ASSUME NEW n \in 1..Base, Advance(n) PROVE NumberRanges'
    BY <2>1, <2>3, CheckpointAssumption DEF Advance, NumberRanges
  <2>4. CASE UNCHANGED numberVars
    BY <2>4 DEF numberVars, NumberRanges
  <2> QED BY <2>2, <2>3, <2>4 DEF NumbersNext
<1> QED BY <1>1, <1>2, PTL DEF NumbersSpec

(* unwrap() returns the absolute sequence number closest to the checkpoint   *)
(* among all that wrap to its argument, for every width of the wrapped and   *)
(* of the absolute number, as long as checkpoints stay in the lower half of  *)
(* the word (2^63 bytes of a stream).                                        *)
THEOREM UnwrapFindsClosest ==
    MaxCheckpoint < Word \div 2 => (NumbersSpec => []UnwrapIsClosest)
<1> SUFFICES ASSUME MaxCheckpoint < Word \div 2
             PROVE  NumbersSpec => []UnwrapIsClosest
  OBVIOUS
<1>1. NumberRanges => UnwrapIsClosest
  <2> SUFFICES ASSUME NumberRanges, NEW raw \in Wrap32
               PROVE  LET n == Unwrap(raw, initial, reference)
                      IN  /\ n \in Candidates(raw)
                          /\ \A k \in Candidates(raw) :
                                Distance(n, reference) <= Distance(k, reference)
    BY DEF UnwrapIsClosest
  <2> DEFINE r == Unwrap(raw, initial, reference)
  <2>1. reference \in Nat /\ reference < Word \div 2 /\ initial \in Wrap32
    BY CheckpointAssumption, HalfLap DEF NumberRanges
  <2>2. /\ r \in 0 .. Word - 1
        /\ Wrap(r, initial) = raw
        /\ \A n \in Nat : Wrap(n, initial) = raw =>
              Distance(r, reference) <= Distance(n, reference)
    BY <2>1, UnwrapClosest
  <2> HIDE DEF r
  <2>3. \A k \in Candidates(raw) : k \in Nat /\ Wrap(k, initial) = raw
    BY DEF Candidates
  <2>4. r \in Candidates(raw)
    BY <2>2 DEF Candidates
  <2> QED BY <2>2, <2>3, <2>4 DEF r
<1> QED BY <1>1, NumberRangesHold, PTL

(* A segment less than half a lap of sequence numbers away from where its    *)
(* receiver is in the stream is recovered at its own place.                  *)
THEOREM RoundTripHolds ==
    MaxCheckpoint < Word \div 2 => (NumbersSpec => []RoundTrip)
<1> SUFFICES ASSUME MaxCheckpoint < Word \div 2
             PROVE  NumbersSpec => []RoundTrip
  OBVIOUS
<1>1. NumberRanges => RoundTrip
  <2> SUFFICES ASSUME NumberRanges, Distance(absolute, reference) < Base \div 2
               PROVE  Unwrap(Wrap(absolute, initial), initial, reference) = absolute
    BY DEF RoundTrip
  <2>1. /\ reference \in Nat /\ reference < Word \div 2
        /\ initial \in Wrap32 /\ absolute \in Nat
    BY CheckpointAssumption, HalfLap DEF NumberRanges
  <2> QED BY <2>1, UnwrapUndoesWrap
<1> QED BY <1>1, NumberRangesHold, PTL
---------------------------------------------------------------------------
SynSent == status_ # "CLOSED"
FinSent == status_ \in {"FIN_WAIT", "FINISH"}

(* The number the end of the stream has if nothing more is written, and the  *)
(* first number beyond the receiver's room.                                  *)
Last      == BytesPopped(outbound) + 1
RightEdge == AckNumber + AvailableCapacity(inbound)

Bytes(first, len) == [i \in 1..len |-> first + i - 1]

(* The segment that starts at number p and carries n bytes is a cut of a     *)
(* stream whose end would have number last; it has the FIN only if the FIN   *)
(* was sent, and with payload only if it fits before number edge.            *)
Cut(msg, p, n, isn, last, finSent, edge) ==
    /\ msg = Segment(Wrap(p, isn), p = 0, Bytes(Larger(p, 1), n), msg.FIN)
    /\ msg.FIN \in BOOLEAN
    /\ p = 0 => n = 0
    /\ Larger(p, 1) + n <= last
    /\ msg.FIN => finSent /\ Larger(p, 1) + n = last
    /\ msg.FIN /\ n > 0 => last <= edge

Genuine(msg, isn, last, finSent, edge) ==
    \E p, n \in Nat : Cut(msg, p, n, isn, last, finSent, edge)

(* An acknowledgement that was true of the receiver when it was sent.        *)
Honest(msg, isn, acked, edge) ==
    \E window \in 0..MaxWindow :
        \/ msg = Ack(NoAckno, window)
        \/ \E a \in Nat : /\ msg = Ack(Wrap(a, isn), window)
                          /\ a <= acked /\ a + window <= edge

TrueSegment(msg) == Genuine(msg, isn_, Last, FinSent, RightEdge)
TrueAck(msg)     == Honest(msg, isn_, AckNumber, RightEdge)

(* Every segment kept, queued or under way.                                  *)
Sent ==
    {out_Noackqueue[i] : i \in DOMAIN out_Noackqueue}
        \cup {out_Readyqueue[i] : i \in DOMAIN out_Readyqueue}
        \cup BagToSet(segments)

Messages ==
    /\ \A msg \in Sent : SynSent /\ TrueSegment(msg)
    /\ \A msg \in BagToSet(acks) : TrueAck(msg)

(* What was true of a message stays true: the stream only grows until its    *)
(* end is sent, and the receiver's edges only move on.                       *)
LEMMA GenuineStays ==
    ASSUME NEW msg, NEW isn, NEW last \in Nat, NEW later \in Nat,
           NEW fin \in BOOLEAN, NEW fin2 \in BOOLEAN,
           NEW edge \in Nat, NEW further \in Nat,
           last <= later, fin => fin2 /\ later = last, edge <= further,
           Genuine(msg, isn, last, fin, edge)
    PROVE  Genuine(msg, isn, later, fin2, further)
<1>1. PICK p \in Nat, n \in Nat : Cut(msg, p, n, isn, last, fin, edge)
  BY DEF Genuine
<1>2. /\ msg = Segment(Wrap(p, isn), p = 0, Bytes(Larger(p, 1), n), msg.FIN)
      /\ msg.FIN \in BOOLEAN
      /\ p = 0 => n = 0
      /\ Larger(p, 1) + n <= last
      /\ msg.FIN => fin /\ Larger(p, 1) + n = last
      /\ msg.FIN /\ n > 0 => last <= edge
  BY <1>1, Zenon DEF Cut
<1>3. Larger(p, 1) + n \in Nat
  BY DEF Larger
<1>4. /\ Larger(p, 1) + n <= later
      /\ msg.FIN => fin2 /\ Larger(p, 1) + n = later
      /\ msg.FIN /\ n > 0 => later <= further
  <2> DEFINE e == Larger(p, 1) + n
  <2>1. e \in Nat /\ e <= last /\ (msg.FIN => fin /\ e = last)
    BY <1>2, <1>3
  <2> HIDE DEF e
  <2>2. e <= later /\ (msg.FIN => fin2 /\ e = later)
        /\ (msg.FIN /\ n > 0 => later <= further)
    BY <1>2, <2>1
  <2> QED BY <2>2 DEF e
<1>5. Cut(msg, p, n, isn, later, fin2, further)
  BY <1>2, <1>4, Zenon DEF Cut
<1> QED BY <1>5 DEF Genuine

LEMMA HonestStays ==
    ASSUME NEW msg, NEW isn, NEW acked \in Nat, NEW more \in Nat,
           NEW edge \in Nat, NEW further \in Nat,
           acked <= more, edge <= further, Honest(msg, isn, acked, edge)
    PROVE  Honest(msg, isn, more, further)
<1>1. PICK window \in 0..MaxWindow :
         \/ msg = Ack(NoAckno, window)
         \/ \E a \in Nat : /\ msg = Ack(Wrap(a, isn), window)
                           /\ a <= acked /\ a + window <= edge
  BY DEF Honest
<1>2. CASE msg = Ack(NoAckno, window)
  BY <1>2 DEF Honest
<1>3. ASSUME NEW a \in Nat, msg = Ack(Wrap(a, isn), window),
             a <= acked, a + window <= edge
      PROVE  Honest(msg, isn, more, further)
  <2>1. window \in Nat
    BY ConnectionAssumption
  <2>2. a <= more /\ a + window <= further
    BY <1>3, <2>1
  <2> QED BY <1>3, <2>2 DEF Honest
<1> QED BY <1>1, <1>2, <1>3

(* The messages under way after one is sent or taken out.                    *)
LEMMA NetworkFacts ==
    ASSUME NEW net, NEW msg
    PROVE  /\ BagToSet(net (+) One(msg)) = BagToSet(net) \cup {msg}
           /\ BagToSet(net (-) One(msg)) \subseteq BagToSet(net)
           /\ BagToSet(EmptyBag) = {}
<1>1. DOMAIN One(msg) = {msg} /\ DOMAIN EmptyBag = {}
  BY DEF One, SetToBag, EmptyBag
<1>2. DOMAIN (net (+) One(msg)) = DOMAIN net \cup {msg}
  BY <1>1 DEF (+)
<1>3. DOMAIN (net (-) One(msg)) \subseteq DOMAIN net
  BY DEF (-)
<1> QED BY <1>1, <1>2, <1>3 DEF BagToSet

(* Pieces of the stream are sequences of numbers.                            *)
LEMMA BytesAre ==
    ASSUME NEW p \in Nat, NEW n \in Nat
    PROVE  /\ Bytes(p, n) \in Seq(Nat) /\ Len(Bytes(p, n)) = n
           /\ \A k \in 1..n : Bytes(p, n)[k] = p + k - 1
<1>1. Bytes(p, n) \in [1..n -> Nat]
  BY DEF Bytes
<1>2. Bytes(p, n) \in Seq(Nat)
  BY <1>1, SeqDef
<1>3. DOMAIN Bytes(p, n) = 1..n /\ \A k \in 1..n : Bytes(p, n)[k] = p + k - 1
  BY DEF Bytes
<1>4. Len(Bytes(p, n)) = n
  BY <1>2, <1>3, LenProperties
<1> QED BY <1>2, <1>3, <1>4

LEMMA BytesEqual ==
    ASSUME NEW s \in Seq(Nat), NEW p \in Nat,
           \A k \in 1..Len(s) : s[k] = p + k - 1
    PROVE  s = Bytes(p, Len(s))
<1>1. Len(s) \in Nat
  BY LenProperties
<1> DEFINE t == Bytes(p, Len(s))
<1>2. t \in Seq(Nat) /\ Len(t) = Len(s) /\ \A k \in 1..Len(s) : t[k] = p + k - 1
  BY <1>1, BytesAre
<1> HIDE DEF t
<1>3. s = t
  BY <1>2, SeqEqual
<1> QED BY <1>3 DEF t

(* Putting segments behind both queues sends them and no others.             *)
LEMMA QueuesLonger ==
    ASSUME NEW S, out_Noackqueue \in Seq(S), out_Readyqueue \in Seq(S),
           NEW msgs \in Seq(S), UNCHANGED segments,
           out_Noackqueue' = out_Noackqueue \o msgs,
           out_Readyqueue' = out_Readyqueue \o msgs
    PROVE  \A msg \in Sent' : msg \in Sent \/ \E i \in 1..Len(msgs) : msg = msgs[i]
<1>1. ASSUME NEW q \in Seq(S), NEW i \in DOMAIN (q \o msgs)
      PROVE  \/ (q \o msgs)[i] \in {q[j] : j \in DOMAIN q}
             \/ \E j \in 1..Len(msgs) : (q \o msgs)[i] = msgs[j]
  <2>1. /\ Len(q) \in Nat /\ Len(msgs) \in Nat /\ DOMAIN q = 1..Len(q)
        /\ DOMAIN (q \o msgs) = 1..(Len(q) + Len(msgs))
        /\ \A k \in 1..(Len(q) + Len(msgs)) :
              (q \o msgs)[k] = IF k <= Len(q) THEN q[k] ELSE msgs[k - Len(q)]
    BY LenProperties, ConcatProperties
  <2>2. CASE i <= Len(q)
    <3>1. i \in DOMAIN q /\ (q \o msgs)[i] = q[i]
      BY <2>1, <2>2
    <3> QED BY <3>1
  <2>3. CASE ~(i <= Len(q))
    <3>1. i - Len(q) \in 1..Len(msgs) /\ (q \o msgs)[i] = msgs[i - Len(q)]
      BY <2>1, <2>3
    <3> QED BY <3>1
  <2> QED BY <2>2, <2>3
<1> DEFINE New == {msgs[j] : j \in 1..Len(msgs)}
<1>2. {out_Noackqueue'[i] : i \in DOMAIN out_Noackqueue'}
         \subseteq {out_Noackqueue[i] : i \in DOMAIN out_Noackqueue} \cup New
  BY <1>1
<1>3. {out_Readyqueue'[i] : i \in DOMAIN out_Readyqueue'}
         \subseteq {out_Readyqueue[i] : i \in DOMAIN out_Readyqueue} \cup New
  BY <1>1
<1>4. Sent' \subseteq Sent \cup New
  BY <1>2, <1>3 DEF Sent
<1> QED BY <1>4

---------------------------------------------------------------------------
(* The first n bytes of the stream.                                          *)
FirstBytes(n) == [i \in 1..n |-> i]

LEMMA FirstBytesAre ==
    ASSUME NEW n \in Nat
    PROVE  /\ FirstBytes(n) \in Seq(Nat) /\ Len(FirstBytes(n)) = n
           /\ \A i \in 1..n : FirstBytes(n)[i] = i
<1>1. FirstBytes(n) = Bytes(1, n)
  BY DEF FirstBytes, Bytes
<1>2. \A i \in 1..n : FirstBytes(n)[i] = i
  BY DEF FirstBytes
<1> QED BY <1>1, <1>2, BytesAre

LEMMA FirstBytesExtend ==
    ASSUME NEW m \in Nat, NEW n \in Nat, m <= n
    PROVE  /\ Reliable!IsPrefix(FirstBytes(m), FirstBytes(n))
           /\ m < n => Reliable!IsStrictPrefix(FirstBytes(m), FirstBytes(n))
           /\ n <= StreamLen => FirstBytes(n) \in Seq(1..StreamLen)
<1> DEFINE s == FirstBytes(m)
           t == FirstBytes(n)
<1>1. /\ s \in Seq(Nat) /\ Len(s) = m /\ \A i \in 1..m : s[i] = i
      /\ t \in Seq(Nat) /\ Len(t) = n /\ \A i \in 1..n : t[i] = i
  BY FirstBytesAre
<1>5. n <= StreamLen => t \in Seq(1..StreamLen)
  <2>1. StreamLen \in Nat
    BY LapAssumption
  <2>2. n <= StreamLen => t \in [1..n -> 1..StreamLen]
    BY <2>1 DEF FirstBytes
  <2>3. \A q \in [1..n -> 1..StreamLen] : q \in Seq(1..StreamLen)
    BY SeqDef
  <2> HIDE DEF t
  <2> QED BY <2>2, <2>3
<1> HIDE DEF s, t
<1>2. SubSeq(s, 1, m) = SubSeq(t, 1, m)
  <2>1. /\ SubSeq(s, 1, m) \in Seq(Nat) /\ Len(SubSeq(s, 1, m)) = m
        /\ \A i \in 1..m : SubSeq(s, 1, m)[i] = s[i]
    BY <1>1, SubSeqProperties
  <2>2. /\ SubSeq(t, 1, m) \in Seq(Nat) /\ Len(SubSeq(t, 1, m)) = m
        /\ \A i \in 1..m : SubSeq(t, 1, m)[i] = t[i]
    BY <1>1, SubSeqProperties
  <2>3. \A i \in 1..m : SubSeq(s, 1, m)[i] = SubSeq(t, 1, m)[i]
    BY <1>1, <2>1, <2>2
  <2> QED BY <2>1, <2>2, <2>3, SeqEqual
<1>3. Reliable!IsPrefix(s, t)
  BY <1>1, <1>2 DEF Reliable!IsPrefix
<1>4. m < n => Reliable!IsStrictPrefix(s, t)
  BY <1>1, <1>3 DEF Reliable!IsStrictPrefix
<1> QED BY <1>3, <1>4, <1>5 DEF s, t

(* What has arrived is the first part of what was written, and the end only  *)
(* behind all of it.                                                         *)
Written == BytesPushed(outbound)
Arrived == BytesPushed(inbound)
StreamsNow ==
    /\ Written \in Nat /\ Arrived \in Nat
    /\ Arrived <= Written /\ Written <= StreamLen
    /\ inbound.closed \in BOOLEAN
    /\ inbound.closed => outbound.closed /\ Arrived = Written
    /\ [i \in 1..BytesPopped(inbound) |-> i] \o inbound.queue = FirstBytes(Arrived)
    /\ FIN_flag \in BOOLEAN /\ (inbound.closed <=> FIN_flag)

(* The three ways the two applications' view of the connection changes.      *)
LEMMA WriteIsWrite ==
    ASSUME StreamsNow, StreamsNow', inbound' = inbound, Written < Written',
           ~outbound.closed, outbound'.closed = outbound.closed
    PROVE  Reliable!Next
<1> DEFINE w == Written
           x == Written'
<1>1. w \in Nat /\ x \in Nat /\ w < x /\ x <= StreamLen
  <2>1. Written' \in Nat /\ Written' <= StreamLen /\ Written \in Nat
    <3> HIDE DEF Written
    <3> QED BY DEF StreamsNow
  <2> QED BY <2>1
<1> HIDE DEF w, x
<1>2. FirstBytes(x) \in Seq(1..StreamLen)
      /\ Reliable!IsStrictPrefix(FirstBytes(w), FirstBytes(x))
  BY <1>1, FirstBytesExtend
<1>3. /\ FirstBytes(w) = [i \in 1..BytesPushed(outbound) |-> i]
      /\ FirstBytes(x) = [i \in 1..BytesPushed(outbound') |-> i]
  BY DEF FirstBytes, w, x, Written
<1>4. outbound.closed = FALSE /\ outbound'.closed = outbound.closed
      => ~outbound.closed
  OBVIOUS
<1> QED BY <1>2, <1>3 DEF Reliable!Next, Reliable!Write

LEMMA CloseIsClose ==
    ASSUME StreamsNow, inbound' = inbound, Written' = Written,
           outbound'.closed = TRUE
    PROVE  Reliable!Next
<1>1. BytesPushed(outbound') = BytesPushed(outbound)
  BY DEF Written
<1> QED BY <1>1 DEF Reliable!Next, Reliable!CloseWriting

LEMMA ArriveIsArrive ==
    ASSUME StreamsNow, StreamsNow', Written' = Written,
           outbound'.closed = outbound.closed, Arrived <= Arrived',
           inbound.closed => inbound'.closed
    PROVE  Reliable!Next
<1> DEFINE w == Written
           a == Arrived
           b == Arrived'
<1>1. /\ w \in Nat /\ a \in Nat /\ b \in Nat /\ a <= b /\ b <= w
      /\ inbound'.closed \in BOOLEAN
      /\ inbound'.closed => outbound.closed /\ b = w
  <2> HIDE DEF Written, Arrived
  <2> QED BY DEF StreamsNow
<1>2. /\ [i \in 1..BytesPopped(inbound) |-> i] \o inbound.queue = FirstBytes(a)
      /\ [i \in 1..BytesPopped(inbound') |-> i] \o inbound'.queue = FirstBytes(b)
  <2>1. ([i \in 1..BytesPopped(inbound) |-> i] \o inbound.queue = FirstBytes(Arrived))'
    BY DEF StreamsNow
  <2> QED BY <2>1 DEF StreamsNow, BytesPopped
<1>3. /\ [i \in 1..BytesPushed(outbound) |-> i] = FirstBytes(w)
      /\ [i \in 1..BytesPushed(outbound') |-> i] = FirstBytes(w)
  BY DEF FirstBytes, Written
<1> HIDE DEF w, a, b
<1>4. /\ Reliable!IsPrefix(FirstBytes(a), FirstBytes(b))
      /\ Reliable!IsPrefix(FirstBytes(b), FirstBytes(w))
  BY <1>1, FirstBytesExtend
<1>5. inbound'.closed => FirstBytes(b) = FirstBytes(w)
  BY <1>1
<1> QED BY <1>1, <1>2, <1>3, <1>4, <1>5
   DEF Reliable!Next, Reliable!Arrive

LEMMA OthersStutter ==
    ASSUME OwnerSends \/ TimePasses \/ AckArrives \/ ReceiverUpdatesWindow
              \/ Lose \/ Duplicate \/ UNCHANGED vars
    PROVE  UNCHANGED Reliable!vars
<1>1. outbound' = outbound /\ inbound' = inbound
  <2>1. CASE OwnerSends
    BY <2>1 DEF OwnerSends, Sender!maybe_send, receiverVars
  <2>2. CASE TimePasses
    BY <2>2 DEF TimePasses, Sender!tick, Sender!TimePasses, Sender!Retransmit,
                receiverVars
  <2>3. CASE AckArrives
    <3>1. PICK msg \in BagToSet(acks) :
             (Sender!receive(msg) \/ UNCHANGED senderVars) /\ UNCHANGED receiverVars
      BY <2>3 DEF AckArrives
    <3>2. Sender!receive(msg) => outbound' = outbound
      BY DEF Sender!receive
    <3> QED BY <3>1, <3>2 DEF senderVars, receiverVars
  <2>4. CASE ReceiverUpdatesWindow
    BY <2>4 DEF ReceiverUpdatesWindow, senderVars, receiverVars
  <2>5. CASE Lose \/ Duplicate
    BY <2>5 DEF Lose, Duplicate, senderVars, receiverVars
  <2>6. CASE UNCHANGED vars
    BY <2>6 DEF vars, senderVars, receiverVars
  <2> QED BY <2>1, <2>2, <2>3, <2>4, <2>5, <2>6
<1> QED BY <1>1 DEF Reliable!vars, BytesPushed, BytesPopped

LEMMA StartImplements == Init => Reliable!Init
<1> SUFFICES ASSUME Init PROVE Reliable!Init
  OBVIOUS
<1>1. /\ outbound = Sender!NewStream(OutboundCapacity)
      /\ inbound = Receiver!NewStream(InboundCapacity)
  BY DEF Init, Sender!SenderInit, Receiver!ReceiverInit
<1>2. /\ outbound.queue = <<>> /\ outbound.popped = 0 /\ outbound.closed = FALSE
      /\ inbound.queue = <<>> /\ inbound.popped = 0 /\ inbound.closed = FALSE
  BY <1>1 DEF Sender!NewStream, Receiver!NewStream
<1>3. BytesPushed(outbound) = 0 /\ BytesPopped(inbound) = 0
  BY <1>2, EmptySeq DEF BytesPushed, BytesPopped
<1>4. FirstBytes(0) = <<>>
  BY FirstBytesAre, EmptySeq
<1>5. [i \in 1..BytesPushed(outbound) |-> i] = <<>>
      /\ [i \in 1..BytesPopped(inbound) |-> i] = <<>>
  BY <1>3, <1>4 DEF FirstBytes
<1>6. <<>> \o inbound.queue = <<>>
  BY <1>2, EmptySeq, ConcatEmptySeq
<1> QED BY <1>2, <1>5, <1>6 DEF Reliable!Init

---------------------------------------------------------------------------
(* The furthest number an acknowledgement may have allowed so far.           *)
AckEdge == Larger(2, AckNumber + Larger(AvailableCapacity(inbound), 1))

(* The sending end, with the lemmas about it alone.                          *)
Out == INSTANCE SenderProofs
       WITH edge <- AckEdge, MaxTick <- initial_RTO_ms

(* Bytes pushed are counted, and stay counted when they are taken out.       *)
LEMMA PushAddsCount ==
    ASSUME NEW s \in Out!Streams, NEW data \in Seq(Nat),
           Len(data) <= AvailableCapacity(s)
    PROVE  /\ BytesPushed(Push(s, data)) = BytesPushed(s) + Len(data)
           /\ Push(s, data).closed = s.closed
<1> DEFINE q == s.queue
           d == SubSeq(data, 1, Smaller(Len(data), AvailableCapacity(s)))
<1>1. q \in Seq(Nat) /\ s.popped \in Nat /\ Len(q) \in Nat /\ Len(data) \in Nat
  BY LenProperties DEF Out!Streams
<1>2. Smaller(Len(data), AvailableCapacity(s)) = Len(data)
  BY DEF Smaller
<1>3. d \in Seq(Nat) /\ Len(d) = Len(data)
  <2>1. \A i \in 1..Len(data) : data[i] \in Nat
    OBVIOUS
  <2> QED BY <1>1, <1>2, <2>1, SubSeqProperties
<1>4. Push(s, data) = [s EXCEPT !.queue = q \o d]
  BY DEF Push
<1> HIDE DEF d, q
<1>5. Len(q \o d) = Len(q) + Len(data)
  <2>1. Len(q \o d) = Len(q) + Len(d)
    BY <1>1, <1>3, ConcatProperties, Zenon
  <2> QED BY <1>3, <2>1
<1>6. /\ Push(s, data).queue = q \o d /\ Push(s, data).popped = s.popped
      /\ Push(s, data).closed = s.closed
  BY <1>4 DEF Out!Streams
<1> QED BY <1>1, <1>5, <1>6 DEF BytesPushed, q

LEMMA PopKeepsCount ==
    ASSUME NEW s \in Out!Streams, NEW n \in Nat
    PROVE  /\ BytesPushed(Pop(s, n)) = BytesPushed(s)
           /\ Pop(s, n).closed = s.closed
<1> DEFINE q == s.queue
           k == Smaller(n, Len(q))
           r == SubSeq(q, k + 1, Len(q))
<1>1. q \in Seq(Nat) /\ s.popped \in Nat /\ Len(q) \in Nat
      /\ \A i \in 1..Len(q) : q[i] \in Nat
  BY LenProperties DEF Out!Streams
<1>2. k \in 0..Len(q)
  BY <1>1 DEF Smaller
<1>3. Pop(s, n) = [s EXCEPT !.queue = r, !.popped = s.popped + k]
  BY DEF Pop
<1>4. Len(r) = Len(q) - k
  <2> HIDE DEF k, q
  <2>1. k + 1 \in Int /\ Len(q) \in Int /\ \A i \in (k + 1)..Len(q) : q[i] \in Nat
    BY <1>1, <1>2
  <2>2. Len(r) = IF k + 1 <= Len(q) THEN Len(q) - (k + 1) + 1 ELSE 0
    BY <2>1, SubSeqProperties
  <2> HIDE DEF r
  <2> DEFINE l == Len(q)
  <2>3. l \in Nat /\ k \in 0..l /\ Len(r) = IF k + 1 <= l THEN l - (k + 1) + 1 ELSE 0
    BY <1>1, <1>2, <2>2
  <2> HIDE DEF l
  <2>4. Len(r) = l - k
    BY <2>3
  <2> QED BY <2>4 DEF l
<1> HIDE DEF r, k, q
<1>5. /\ Pop(s, n).queue = r /\ Pop(s, n).popped = s.popped + k
      /\ Pop(s, n).closed = s.closed
  BY <1>3 DEF Out!Streams
<1>6. (s.popped + k) + (Len(q) - k) = s.popped + Len(q)
  BY <1>1, <1>2
<1> QED BY <1>4, <1>5, <1>6 DEF BytesPushed, q

(* The receiving end, with the lemmas about it alone.                        *)
In == INSTANCE ReceiverProofs
      WITH MaxLen <- MAX_PAYLOAD_SIZE, PeerISNs <- {}, SynCarriesData <- FALSE,
           peerISN <- isn_, got <- {}, Capacity <- InboundCapacity,
           EndFitsWindow <- TRUE, held <- re, output <- inbound

LEMMA OutAssumptions ==
    /\ Out!BaseAssumption /\ Out!SenderAssumption /\ Out!PeerAssumption
BY ConnectionAssumption, LapAssumption, BaseAssumption, HalfLap
   DEF Out!BaseAssumption, Out!SenderAssumption, Out!PeerAssumption,
       Out!Larger, Larger

LEMMA InAssumptions ==
    /\ In!BaseAssumption /\ In!ReceiverAssumption /\ In!StreamAssumption
    /\ In!PeerAssumption /\ In!ReassemblerAssumption
BY ConnectionAssumption, LapAssumption, BaseAssumption
   DEF In!BaseAssumption, In!ReceiverAssumption, In!StreamAssumption,
       In!PeerAssumption, In!ReassemblerAssumption

---------------------------------------------------------------------------
(* The operators of the two ends are those the lemmas are about.             *)
LEMMA NumbersSame ==
    /\ Out!Wrap32 = Wrap32 /\ In!Wrap32 = Wrap32
    /\ \A n, zero : /\ Out!Wrap(n, zero) = Wrap(n, zero)
                    /\ In!Wrap(n, zero) = Wrap(n, zero)
                    /\ Receiver!Wrap(n, zero) = Wrap(n, zero)
    /\ \A raw, n : /\ In!Plus(raw, n) = Plus(raw, n)
                   /\ Receiver!Plus(raw, n) = Plus(raw, n)
    /\ \A raw, zero, cp : /\ Sender!Unwrap(raw, zero, cp) = Unwrap(raw, zero, cp)
                          /\ Out!Unwrap(raw, zero, cp) = Unwrap(raw, zero, cp)
                          /\ In!Unwrap(raw, zero, cp) = Unwrap(raw, zero, cp)
<1>1. \A n, zero : /\ Out!Wrap(n, zero) = Wrap(n, zero)
                   /\ In!Wrap(n, zero) = Wrap(n, zero)
                   /\ Receiver!Wrap(n, zero) = Wrap(n, zero)
  BY DEF Out!Wrap, In!Wrap, Receiver!Wrap, Wrap
<1>2. \A raw, n : /\ In!Plus(raw, n) = Plus(raw, n)
                  /\ Receiver!Plus(raw, n) = Plus(raw, n)
  BY DEF In!Plus, Receiver!Plus, Plus
<1>3. \A raw, zero, cp : Sender!Unwrap(raw, zero, cp) = Unwrap(raw, zero, cp)
  BY DEF Sender!Unwrap, Unwrap, Sender!FirstCandidate, FirstCandidate,
         Sender!CloseEnough, CloseEnough, Sender!Quotient, Quotient,
         Sender!Signed, Signed
<1>4. \A raw, zero, cp : Out!Unwrap(raw, zero, cp) = Unwrap(raw, zero, cp)
  BY DEF Out!Unwrap, Unwrap, Out!FirstCandidate, FirstCandidate,
         Out!CloseEnough, CloseEnough, Out!Quotient, Quotient,
         Out!Signed, Signed
<1>5. \A raw, zero, cp : In!Unwrap(raw, zero, cp) = Unwrap(raw, zero, cp)
  BY DEF In!Unwrap, Unwrap, In!FirstCandidate, FirstCandidate,
         In!CloseEnough, CloseEnough, In!Quotient, Quotient,
         In!Signed, Signed
<1>6. Out!Wrap32 = Wrap32 /\ In!Wrap32 = Wrap32
  BY DEF Out!Wrap32, In!Wrap32, Wrap32
<1> QED BY <1>1, <1>2, <1>3, <1>4, <1>5, <1>6

LEMMA SenderNumbers ==
    /\ \A msgs : Sender!SequenceNumbers(msgs) = Out!SequenceNumbers(msgs)
    /\ \A raw : Sender!AbsoluteNo(raw) = Out!AbsoluteNo(raw)
    /\ \A raw : Out!AbsoluteNo(raw) = Unwrap(raw, isn_, Seqno)
    /\ \A ackno : Sender!Acceptable(ackno) <=> Out!Acceptable(ackno)
    /\ \A ack : Sender!AckedCount(ack) = Out!AckedCount(ack)
<1>1. \A msgs : Sender!SequenceNumbers(msgs) = Out!SequenceNumbers(msgs)
  BY DEF Sender!SequenceNumbers, Out!SequenceNumbers, Sender!SequenceLength,
         Out!SequenceLength, Sender!Bit, Out!Bit, Sender!Cardinality,
         Out!Cardinality
<1>2. \A raw : /\ Sender!AbsoluteNo(raw) = Out!AbsoluteNo(raw)
               /\ Out!AbsoluteNo(raw) = Unwrap(raw, isn_, Seqno)
  BY NumbersSame DEF Sender!AbsoluteNo, Out!AbsoluteNo
<1>3. \A ackno : Sender!Acceptable(ackno) <=> Out!Acceptable(ackno)
  BY <1>2 DEF Sender!Acceptable, Out!Acceptable, Sender!NoAckno, Out!NoAckno
<1>4. \A msg : Sender!EndNo(msg) = Out!EndNo(msg)
  BY <1>2 DEF Sender!EndNo, Out!EndNo, Sender!SequenceLength,
         Out!SequenceLength, Sender!Bit, Out!Bit
<1>5. \A ack : Sender!AckedCount(ack) = Out!AckedCount(ack)
  BY <1>4 DEF Sender!AckedCount, Out!AckedCount
<1> QED BY <1>1, <1>2, <1>3, <1>5

LEMMA PushIs == Sender!push <=> Out!push
<1>1. \A msgs : Sender!push_msgs(msgs) <=> Out!push_msgs(msgs)
  BY SenderNumbers
     DEF Sender!push_msgs, Out!push_msgs, Sender!StartsTimer, Out!StartsTimer,
         Sender!StartedTimer, Out!StartedTimer
<1>2. Sender!PushSyn <=> Out!PushSyn
  BY <1>1
     DEF Sender!PushSyn, Out!PushSyn, Sender!Segment, Out!Segment, Sender!Wrap,
         Out!Wrap, Sender!FinWithSyn, Out!FinWithSyn, Sender!IsFinished,
         Out!IsFinished, Sender!StatusAfterSyn, Out!StatusAfterSyn
<1>3. /\ \A a, b : Sender!Smaller(a, b) = Out!Smaller(a, b)
      /\ Sender!AbleSend = Out!AbleSend
      /\ Sender!BytesBuffered(outbound) = Out!BytesBuffered(outbound)
      /\ \A n : Sender!Pop(outbound, n) = Out!Pop(outbound, n)
  BY DEF Sender!Smaller, Out!Smaller, Sender!AbleSend, Out!AbleSend,
         Sender!BytesBuffered, Out!BytesBuffered, Sender!Pop, Out!Pop
<1>4. \A n : Sender!FinFits(n) <=> Out!FinFits(n)
  BY <1>3 DEF Sender!FinFits, Out!FinFits, Sender!IsFinished, Out!IsFinished
<1>5. \A n : Sender!SegmentCount(n) = Out!SegmentCount(n)
  BY <1>4 DEF Sender!SegmentCount, Out!SegmentCount, Sender!Bit, Out!Bit
<1>6. \A n : Sender!NewSegments(n) = Out!NewSegments(n)
  <2>1. \A i, n : Sender!PayloadEnd(i, n) = Out!PayloadEnd(i, n)
    BY <1>3 DEF Sender!PayloadEnd, Out!PayloadEnd
  <2>2. \A i, n : (i = Sender!SegmentCount(n) /\ Sender!FinFits(n))
                     = (i = Out!SegmentCount(n) /\ Out!FinFits(n))
    BY <1>4, <1>5
  <2> QED BY <1>5, <2>1, <2>2
     DEF Sender!NewSegments, Out!NewSegments, Sender!Segment, Out!Segment,
         Sender!Wrap, Out!Wrap, Sender!SegmentNo, Out!SegmentNo
<1>7. Sender!PushData <=> Out!PushData
  BY <1>1, <1>3, <1>4, <1>6 DEF Sender!PushData, Out!PushData
<1> QED BY <1>2, <1>7 DEF Sender!push, Out!push

LEMMA SenderIs ==
    /\ Sender!SenderInit <=> Out!SenderInit
    /\ Sender!maybe_send <=> Out!maybe_send
    /\ \A ms : Sender!tick(ms) <=> Out!tick(ms)
    /\ \A data : Sender!WriteOutbound(data) <=> Out!WriteOutbound(data)
    /\ Sender!CloseOutbound <=> Out!CloseOutbound
    /\ \A msg : Sender!receive(msg) <=> Out!receive(msg)
<1>1. Sender!SenderInit <=> Out!SenderInit
  BY DEF Sender!SenderInit, Out!SenderInit, Sender!Wrap32, Out!Wrap32,
         Sender!ClosedTimer, Out!ClosedTimer, Sender!NewStream, Out!NewStream
<1>2. Sender!maybe_send <=> Out!maybe_send
  BY DEF Sender!maybe_send, Out!maybe_send
<1>3. \A ms : Sender!tick(ms) <=> Out!tick(ms)
  BY DEF Sender!tick, Out!tick, Sender!TimePasses, Out!TimePasses,
         Sender!Retransmit, Out!Retransmit, Sender!Overtime, Out!Overtime,
         Sender!NextRTO, Out!NextRTO, Sender!StartedTimer, Out!StartedTimer
<1>4. \A data : Sender!WriteOutbound(data) <=> Out!WriteOutbound(data)
  BY DEF Sender!WriteOutbound, Out!WriteOutbound, Sender!IsClosed, Out!IsClosed,
         Sender!Push, Out!Push, Sender!Smaller, Out!Smaller,
         Sender!AvailableCapacity, Out!AvailableCapacity
<1>5. Sender!CloseOutbound <=> Out!CloseOutbound
  BY DEF Sender!CloseOutbound, Out!CloseOutbound, Sender!IsClosed, Out!IsClosed,
         Sender!Close, Out!Close
<1>6. \A msg : Sender!receive(msg) <=> Out!receive(msg)
  BY SenderNumbers
     DEF Sender!receive, Out!receive, Sender!StatusAfterAck, Out!StatusAfterAck,
         Sender!Useful, Out!Useful, Sender!TimerAfterAck, Out!TimerAfterAck,
         Sender!ClosedTimer, Out!ClosedTimer, Sender!StartedTimer,
         Out!StartedTimer, Sender!Wrap, Out!Wrap
<1> QED BY <1>1, <1>2, <1>3, <1>4, <1>5, <1>6

LEMMA InsertSame ==
    ASSUME NEW r, NEW s, NEW first, NEW data, NEW mark
    PROVE  Receiver!Insert(r, s, first, data, mark)
              = In!Insert(r, s, first, data, mark)
<1>1. /\ \A x, o : Receiver!Edge(x, o) = In!Edge(x, o)
      /\ \A b1, b2 : Receiver!SameBlock(b1, b2) <=> In!SameBlock(b1, b2)
  BY DEF Receiver!Edge, In!Edge, Receiver!AvailableCapacity,
         In!AvailableCapacity, Receiver!SameBlock, In!SameBlock, Receiver!End,
         In!End
<1>2. Receiver!Clipped(r, s, first, data, mark)
         = In!Clipped(r, s, first, data, mark)
  BY DEF Receiver!Clipped, In!Clipped, Receiver!Edge, In!Edge,
         Receiver!AvailableCapacity, In!AvailableCapacity, Receiver!ClippedEnd,
         In!ClippedEnd, Receiver!WithoutFirst, In!WithoutFirst,
         Receiver!Smaller, In!Smaller, Receiver!Larger, In!Larger,
         Receiver!Block, In!Block
<1>3. \A x, now : Receiver!Overlapping(x, now) = In!Overlapping(x, now)
  BY DEF Receiver!Overlapping, In!Overlapping, Receiver!InOrder, In!InOrder,
         Receiver!ReachesPast, In!ReachesPast, Receiver!End, In!End,
         Receiver!Cardinality, In!Cardinality
<1>4. \A x, o : Receiver!Flush(x, o) = In!Flush(x, o)
  BY DEF Receiver!Flush, In!Flush, Receiver!FoldLeft, In!FoldLeft,
         Receiver!MapThenFoldSet, In!MapThenFoldSet, Receiver!Max, In!Max,
         Receiver!InOrder, In!InOrder, Receiver!Cardinality, In!Cardinality,
         Receiver!WriteIfNext, In!WriteIfNext, Receiver!WriteBlock,
         In!WriteBlock, Receiver!Push, In!Push, Receiver!Close, In!Close,
         Receiver!AvailableCapacity, In!AvailableCapacity, Receiver!Smaller,
         In!Smaller
<1>5. \A x, now : Receiver!Store(x, now) = In!Store(x, now)
  <2>1. \A b, q : Receiver!FoldLeft(Receiver!merge_block, b, q)
                    = In!FoldLeft(In!merge_block, b, q)
    BY DEF Receiver!FoldLeft, In!FoldLeft, Receiver!MapThenFoldSet,
           In!MapThenFoldSet, Receiver!Max, In!Max, Receiver!merge_block,
           In!merge_block, Receiver!EndMark, In!EndMark, Receiver!Covers,
           In!Covers, Receiver!Block, In!Block, Receiver!End, In!End
  <2>2. \A q : Receiver!PendingIn(q) = In!PendingIn(q)
    BY DEF Receiver!PendingIn, In!PendingIn, Receiver!FoldLeft, In!FoldLeft,
           Receiver!MapThenFoldSet, In!MapThenFoldSet, Receiver!Max, In!Max
  <2> DEFINE M(b, q) == In!FoldLeft(In!merge_block, b, q)
             N(b, q) == Receiver!FoldLeft(Receiver!merge_block, b, q)
             Put(x, m, absorbed) ==
                 [x EXCEPT !.Blocks_ = {b \in x.Blocks_ \ In!ToSet(absorbed) :
                                           b.begin # m.begin} \cup {m},
                           !.byte_pend_ = In!PendingAfter(x, absorbed, m)]
  <2>3. \A x, now : In!Store(x, now) = Put(x, M(now, In!Overlapping(x, now)),
                                        In!Overlapping(x, now))
    BY DEF In!Store
  <2>4. \A x, now : Receiver!Store(x, now) = Put(x, N(now, In!Overlapping(x, now)),
                                              In!Overlapping(x, now))
    <3>1. \A x, m, q : Receiver!PendingAfter(x, q, m) = In!PendingAfter(x, q, m)
      BY <2>2 DEF Receiver!PendingAfter, In!PendingAfter
    <3>2. \A q : Receiver!ToSet(q) = In!ToSet(q)
      BY DEF Receiver!ToSet, In!ToSet
    <3> QED BY <1>3, <3>1, <3>2 DEF Receiver!Store
  <2>5. \A b, q : N(b, q) = M(b, q)
    BY <2>1
  <2> HIDE DEF M, N
  <2> QED BY <2>3, <2>4, <2>5
<1> QED BY <1>1, <1>2, <1>4, <1>5 DEF Receiver!Insert, In!Insert

LEMMA ReceiverIs ==
    /\ Receiver!ReceiverInit <=> In!ReceiverInit
    /\ \A msg : Receiver!receive(msg) <=> In!receive(msg)
    /\ \A n : Receiver!ReadInbound(n) <=> In!ReadInbound(n)
    /\ Receiver!send =
          Ack(IF SYN_flag
              THEN Plus(Plus(Wrap(BytesPushed(inbound), ISN), Bit(SYN_flag)),
                        Bit(FIN_flag))
              ELSE NoAckno,
              Smaller(AvailableCapacity(inbound), MaxWindow))
<1>1. Receiver!ReceiverInit <=> In!ReceiverInit
  BY DEF Receiver!ReceiverInit, In!ReceiverInit, Receiver!NewReassembler,
         In!NewReassembler, Receiver!NewStream, In!NewStream
<1>2. \A msg : Receiver!receive(msg) <=> In!receive(msg)
  <2>1. \A raw, zero, cp : Receiver!Unwrap(raw, zero, cp) = In!Unwrap(raw, zero, cp)
    BY DEF Receiver!Unwrap, In!Unwrap, Receiver!FirstCandidate,
           In!FirstCandidate, Receiver!CloseEnough, In!CloseEnough,
           Receiver!Quotient, In!Quotient, Receiver!Signed, In!Signed
  <2>2. \A msg : Receiver!IgnoredBeforeSyn(msg) <=> In!IgnoredBeforeSyn(msg)
    BY DEF Receiver!IgnoredBeforeSyn, In!IgnoredBeforeSyn,
           Receiver!receiverVars, In!receiverVars
  <2>3. \A msg : Receiver!Accept(msg) <=> In!Accept(msg)
    BY <2>1, InsertSame
       DEF Receiver!Accept, In!Accept, Receiver!SkipOne, In!SkipOne,
           Receiver!IsClosed, In!IsClosed, Receiver!BytesPushed, In!BytesPushed
  <2> QED BY <2>2, <2>3 DEF Receiver!receive, In!receive
<1>3. \A n : Receiver!ReadInbound(n) <=> In!ReadInbound(n)
  BY DEF Receiver!ReadInbound, In!ReadInbound, Receiver!Pop, In!Pop,
         Receiver!Smaller, In!Smaller
<1>4. Receiver!send =
         Ack(IF SYN_flag
             THEN Plus(Plus(Wrap(BytesPushed(inbound), ISN), Bit(SYN_flag)),
                       Bit(FIN_flag))
             ELSE NoAckno,
             Smaller(AvailableCapacity(inbound), MaxWindow))
  BY NumbersSame
     DEF Receiver!send, Receiver!Ack, Ack, Receiver!Ackno, Receiver!NoAckno,
         NoAckno, Receiver!Window, Receiver!BytesPushed, BytesPushed,
         Receiver!Bit, Bit, Receiver!Smaller, Smaller,
         Receiver!AvailableCapacity, AvailableCapacity
<1> QED BY <1>1, <1>2, <1>3, <1>4

LEMMA SameBytes ==
    ASSUME NEW p, NEW n PROVE Bytes(p, n) = In!Bytes(p, n)
BY DEF Bytes, In!Bytes

(* What the streams and messages are made of.                                *)
LEMMA ValuesSame ==
    /\ \A s : /\ Out!BytesPushed(s) = BytesPushed(s)
              /\ In!BytesPushed(s) = BytesPushed(s)
              /\ Out!BytesPopped(s) = BytesPopped(s)
              /\ Out!BytesBuffered(s) = BytesBuffered(s)
              /\ Out!IsFinished(s) = IsFinished(s)
              /\ In!AvailableCapacity(s) = AvailableCapacity(s)
              /\ Out!AvailableCapacity(s) = AvailableCapacity(s)
    /\ \A a, b : /\ Out!Larger(a, b) = Larger(a, b)
                 /\ In!Larger(a, b) = Larger(a, b)
                 /\ Out!Smaller(a, b) = Smaller(a, b)
                 /\ In!Smaller(a, b) = Smaller(a, b)
    /\ \A flag : Out!Bit(flag) = Bit(flag) /\ In!Bit(flag) = Bit(flag)
    /\ \A seqno, syn, payload, fin :
          /\ Out!Segment(seqno, syn, payload, fin) = Segment(seqno, syn, payload, fin)
          /\ In!Segment(seqno, syn, payload, fin) = Segment(seqno, syn, payload, fin)
    /\ \A ackno, window : Out!Ack(ackno, window) = Ack(ackno, window)
    /\ \A s, n : In!Pop(s, n) = Pop(s, n) /\ Out!Pop(s, n) = Pop(s, n)
    /\ Out!NoAckno = NoAckno
BY DEF Out!BytesPushed, BytesPushed, In!BytesPushed, Out!BytesPopped,
       BytesPopped, Out!BytesBuffered, BytesBuffered, Out!IsFinished, IsFinished,
       In!AvailableCapacity, AvailableCapacity, Out!AvailableCapacity,
       Out!Larger, Larger, In!Larger, Out!Smaller, Smaller, In!Smaller,
       Out!Bit, Bit, In!Bit, Out!Segment, Segment, In!Segment, Out!Ack, Ack,
       In!Pop, Pop, Out!Pop, Out!NoAckno, NoAckno

---------------------------------------------------------------------------
(* Neither end is ahead of the other.                                        *)
InStep ==
    /\ LeftEdge <= AckNumber
    /\ LeftEdge + window_size_ <= RightEdge
    /\ SYN_flag => SynSent
    /\ In!EndSeen => FinSent

CInv == Out!IInv /\ In!Inbound(isn_, Last) /\ Messages /\ InStep
---------------------------------------------------------------------------
(* What the two ends' invariants say of the numbers.                         *)
LEMMA SenderFacts ==
    ASSUME Out!IInv
    PROVE  /\ isn_ \in Wrap32 /\ Seqno \in Nat /\ num_in_flight \in Nat
           /\ num_in_flight <= Seqno /\ LeftEdge \in Nat
           /\ window_size_ \in Nat /\ SynSent \in BOOLEAN /\ FinSent \in BOOLEAN
           /\ FinSent => SynSent
           /\ outbound.popped \in Nat /\ outbound.queue \in Seq(Nat)
           /\ Len(outbound.queue) \in Nat /\ outbound.closed \in BOOLEAN
           /\ outbound.popped + Len(outbound.queue) <= StreamLen
           /\ Last = outbound.popped + 1 /\ Last \in Nat \ {0}
           /\ Seqno = Bit(SynSent) + outbound.popped + Bit(FinSent)
           /\ SynSent => Seqno = Last + Bit(FinSent)
           /\ ~SynSent => Seqno = 0 /\ Last = 1
           /\ FinSent => outbound.closed /\ outbound.queue = <<>>
           /\ Seqno <= StreamLen + 2 /\ Last <= StreamLen + 1
           /\ Out!LeftEdge = LeftEdge
<1>1. /\ isn_ \in Wrap32 /\ Seqno \in Nat /\ num_in_flight \in Nat
      /\ window_size_ \in Nat /\ outbound \in Out!Streams
      /\ num_in_flight <= Seqno
  <2>1. Out!Types /\ Out!Tiled
    BY DEF Out!IInv
  <2> QED BY <2>1, NumbersSame DEF Out!Types, Out!Tiled
<1>2. /\ outbound.popped \in Nat /\ outbound.queue \in Seq(Nat)
      /\ outbound.closed \in BOOLEAN /\ Len(outbound.queue) \in Nat
  BY <1>1 DEF Out!Streams
<1>3. outbound.popped + Len(outbound.queue) <= StreamLen
  BY ValuesSame DEF Out!IInv, Out!StreamInOrder, BytesPushed
<1>4. /\ SynSent \in BOOLEAN /\ FinSent \in BOOLEAN /\ (FinSent => SynSent)
      /\ (Out!SynSent <=> SynSent) /\ (Out!FinSent <=> FinSent)
  BY DEF SynSent, FinSent, Out!SynSent, Out!FinSent
<1>5. /\ Seqno = Bit(SynSent) + outbound.popped + Bit(FinSent)
      /\ FinSent => outbound.closed /\ outbound.queue = <<>>
  BY <1>4, ValuesSame DEF Out!IInv, Out!StreamAccounted, BytesPopped, IsFinished,
       Out!SynSent, Out!FinSent, SynSent, FinSent
<1>6. ~SynSent => outbound.popped = 0
  BY ValuesSame DEF Out!IInv, Out!NothingSentYet, BytesPopped, SynSent
<1>7. Last = outbound.popped + 1
  BY DEF Last, BytesPopped
<1>8. Bit(TRUE) = 1 /\ Bit(FALSE) = 0
  BY DEF Bit
<1>9. LeftEdge = Seqno - num_in_flight /\ Out!LeftEdge = LeftEdge
  BY DEF LeftEdge, Out!LeftEdge
<1> HIDE DEF SynSent, FinSent, LeftEdge, Last
<1> DEFINE s == Bit(SynSent)
           f == Bit(FinSent)
<1>10. /\ SynSent => s = 1
       /\ ~SynSent => s = 0
       /\ FinSent => f = 1
       /\ ~FinSent => f = 0
  BY Zenon DEF Bit
<1>11. StreamLen \in Nat
  BY LapAssumption
<1>12. Seqno = s + outbound.popped + f
  BY <1>5
<1> HIDE DEF s, f
<1>13. /\ SynSent => Seqno = Last + f
       /\ ~SynSent => Seqno = 0 /\ Last = 1
       /\ Seqno <= StreamLen + 2 /\ Last <= StreamLen + 1 /\ Last \in Nat \ {0}
  BY <1>2, <1>3, <1>4, <1>6, <1>7, <1>10, <1>11, <1>12
<1>14. LeftEdge \in Nat
  BY <1>1, <1>9
<1> QED BY <1>1, <1>2, <1>3, <1>4, <1>5, <1>7, <1>9, <1>13, <1>14 DEF s, f

LEMMA ReceiverFacts ==
    ASSUME NEW isn, NEW last \in Nat, In!Inbound(isn, last)
    PROVE  /\ AckNumber \in Nat /\ AckNumber = re.byte_ready_
           /\ AvailableCapacity(inbound) \in Nat
           /\ RightEdge \in Nat /\ RightEdge = In!Edge(re, inbound)
           /\ RightEdge = AckNumber + AvailableCapacity(inbound)
           /\ RightEdge = inbound.popped + InboundCapacity + Bit(SYN_flag)
                              + Bit(FIN_flag)
           /\ AckEdge = Larger(2, Larger(RightEdge, AckNumber + 1))
           /\ AckEdge \in Nat
           /\ BytesPushed(inbound) = inbound.popped + Len(inbound.queue)
           /\ BytesPushed(inbound) \in Nat /\ checkpoint = BytesPushed(inbound)
           /\ inbound.popped \in Nat /\ Len(inbound.queue) \in Nat
           /\ SYN_flag \in BOOLEAN /\ FIN_flag \in BOOLEAN
           /\ AckNumber = BytesPushed(inbound) + Bit(SYN_flag) + Bit(FIN_flag)
           /\ ~SYN_flag => AckNumber = 0 /\ BytesPushed(inbound) = 0
           /\ FIN_flag => SYN_flag /\ AckNumber = last + 1
           /\ FIN_flag => BytesPushed(inbound) + 1 = last
           /\ SYN_flag /\ ~FIN_flag => AckNumber <= last
           /\ SYN_flag => ISN = isn
           /\ FIN_flag => In!EndSeen
           /\ inbound.closed <=> FIN_flag
           /\ inbound.queue = Bytes(1 + inbound.popped, Len(inbound.queue))
<1>1. /\ inbound.popped \in Nat /\ Len(inbound.queue) \in Nat
      /\ BytesPushed(inbound) = inbound.popped + Len(inbound.queue)
      /\ BytesPushed(inbound) \in Nat
      /\ AvailableCapacity(inbound) = InboundCapacity - Len(inbound.queue)
      /\ AvailableCapacity(inbound) \in Nat
      /\ SYN_flag \in BOOLEAN /\ FIN_flag \in BOOLEAN
      /\ FIN_flag => SYN_flag
      /\ re.byte_ready_ = BytesPushed(inbound) + Bit(SYN_flag) + Bit(FIN_flag)
      /\ re.byte_ready_ \in Nat
      /\ inbound.queue = In!Bytes(1 + inbound.popped, Len(inbound.queue))
      /\ SYN_flag => BytesPushed(inbound) + 1 <= last /\ ISN = isn
      /\ FIN_flag => BytesPushed(inbound) + 1 = last
      /\ In!Edge(re, inbound) = re.byte_ready_ + AvailableCapacity(inbound)
      /\ inbound.closed <=> FIN_flag
  BY InAssumptions, In!InboundFacts, ValuesSame
<1>2. checkpoint = BytesPushed(inbound)
  BY ValuesSame DEF In!Inbound
<1>3. ~SYN_flag => BytesPushed(inbound) = 0
  <2>1. ~SYN_flag => In!Listening
    BY DEF In!Inbound, In!Open, In!Ended
  <2>2. In!Listening => checkpoint = 0
    BY DEF In!Listening
  <2> QED BY <1>2, <2>1, <2>2
<1>4. /\ Bit(SYN_flag) = (IF SYN_flag THEN 1 ELSE 0)
      /\ Bit(FIN_flag) = (IF FIN_flag THEN 1 ELSE 0)
  BY DEF Bit
<1>5. inbound.queue = Bytes(1 + inbound.popped, Len(inbound.queue))
  BY <1>1 DEF In!Bytes, Bytes
<1>6. AckNumber = BytesPushed(inbound) + Bit(SYN_flag) + Bit(FIN_flag)
      /\ RightEdge = AckNumber + AvailableCapacity(inbound)
  BY DEF AckNumber, RightEdge
<1>7. AckEdge = Larger(2, AckNumber + Larger(AvailableCapacity(inbound), 1))
  BY DEF AckEdge
<1>8. FIN_flag => In!EndSeen
  BY <1>1 DEF In!EndSeen
<1> DEFINE pushed == BytesPushed(inbound)
           room   == AvailableCapacity(inbound)
           ackno  == AckNumber
           right  == RightEdge
<1>9. AckEdge = Larger(2, Larger(RightEdge, AckNumber + 1)) /\ AckEdge \in Nat
  <2>1. room \in Nat /\ ackno \in Nat /\ right = ackno + room
    BY <1>1, <1>4, <1>6
  <2> HIDE DEF room, ackno, right
  <2>2. Larger(2, ackno + Larger(room, 1)) = Larger(2, Larger(right, ackno + 1))
        /\ Larger(2, ackno + Larger(room, 1)) \in Nat
    BY <2>1 DEF Larger
  <2> QED BY <1>7, <2>2 DEF room, ackno, right
<1>10. InboundCapacity \in Nat
  BY ConnectionAssumption
<1> HIDE DEF pushed, room, ackno, right
<1>11. /\ ackno \in Nat /\ ackno = re.byte_ready_ /\ room \in Nat
       /\ right \in Nat /\ right = ackno + room
       /\ right = inbound.popped + InboundCapacity + Bit(SYN_flag) + Bit(FIN_flag)
       /\ ~SYN_flag => ackno = 0
       /\ FIN_flag => ackno = last + 1
       /\ SYN_flag /\ ~FIN_flag => ackno <= last
  <2> DEFINE s == Bit(SYN_flag)
             f == Bit(FIN_flag)
             l == Len(inbound.queue)
             p == inbound.popped
  <2>1. /\ SYN_flag => s = 1
        /\ ~SYN_flag => s = 0
        /\ FIN_flag => f = 1
        /\ ~FIN_flag => f = 0
    BY Zenon DEF Bit
  <2>2. /\ pushed \in Nat /\ room \in Nat /\ pushed = p + l
        /\ p \in Nat /\ l \in Nat
        /\ ackno = pushed + s + f /\ right = ackno + room
        /\ re.byte_ready_ = pushed + s + f
        /\ room = InboundCapacity - l
        /\ ~SYN_flag => pushed = 0
        /\ SYN_flag => pushed + 1 <= last
        /\ FIN_flag => pushed + 1 = last
        /\ FIN_flag => SYN_flag
    BY <1>1, <1>3, <1>6 DEF pushed, room, ackno, right
  <2> HIDE DEF s, f, l, p
  <2>3. /\ ackno \in Nat /\ ackno = re.byte_ready_ /\ room \in Nat
        /\ right \in Nat /\ right = ackno + room
        /\ right = p + InboundCapacity + s + f
        /\ ~SYN_flag => ackno = 0
        /\ FIN_flag => ackno = last + 1
        /\ SYN_flag /\ ~FIN_flag => ackno <= last
    BY <1>10, <2>1, <2>2
  <2> QED BY <2>3 DEF s, f, p
<1> QED BY <1>1, <1>2, <1>3, <1>5, <1>6, <1>8, <1>9, <1>11 DEF pushed, room, ackno, right
---------------------------------------------------------------------------
(* The receiver acknowledges only what was sent, and in turn.                *)
LEMMA NeitherIsAhead ==
    ASSUME CInv
    PROVE  /\ Out!IInv /\ In!Inbound(isn_, Last) /\ Messages /\ InStep
           /\ LeftEdge <= AckNumber /\ AckNumber <= Seqno
           /\ FIN_flag => FinSent /\ AckNumber = Seqno
           /\ FIN_flag => BytesPushed(inbound) = BytesPopped(outbound)
           /\ Seqno <= AckEdge
<1>1. Out!IInv /\ In!Inbound(isn_, Last) /\ Messages /\ InStep
  BY DEF CInv
<1>2. /\ Last \in Nat /\ Last = BytesPopped(outbound) + 1
      /\ Seqno \in Nat /\ FinSent \in BOOLEAN /\ SynSent \in BOOLEAN
      /\ SynSent => Seqno = Last + Bit(FinSent)
      /\ outbound.popped \in Nat
  BY <1>1, SenderFacts DEF Last
<1>3. /\ AckNumber \in Nat /\ SYN_flag \in BOOLEAN /\ FIN_flag \in BOOLEAN
      /\ BytesPushed(inbound) \in Nat
      /\ ~SYN_flag => AckNumber = 0
      /\ FIN_flag => SYN_flag /\ AckNumber = Last + 1 /\ In!EndSeen
      /\ FIN_flag => BytesPushed(inbound) + 1 = Last
      /\ SYN_flag /\ ~FIN_flag => AckNumber <= Last
  BY <1>1, <1>2, ReceiverFacts
<1>4. /\ LeftEdge <= AckNumber /\ (SYN_flag => SynSent)
      /\ (In!EndSeen => FinSent)
  BY <1>1 DEF InStep
<1>5. (FinSent => Bit(FinSent) = 1) /\ Bit(FinSent) \in Nat
  BY Zenon, 0 \in Nat, 1 \in Nat DEF Bit
<1> DEFINE f == Bit(FinSent)
<1>6. FIN_flag => FinSent /\ SynSent /\ Seqno = Last + 1
  BY <1>2, <1>3, <1>4, <1>5
<1>7. SynSent => Seqno = Last + f /\ f \in Nat
  BY <1>2, <1>5
<1> HIDE DEF f, FinSent, SynSent, AckNumber
<1>8. AckNumber <= Seqno /\ (FIN_flag => AckNumber = Seqno)
  BY <1>2, <1>3, <1>4, <1>6, <1>7
<1>9. FIN_flag => BytesPushed(inbound) = BytesPopped(outbound)
  <2>1. BytesPopped(outbound) \in Nat
    BY <1>2 DEF BytesPopped
  <2> QED BY <1>2, <1>3, <2>1
<1>10. Seqno <= AckEdge
  BY <1>1 DEF Out!IInv, Out!Windowed
<1> QED BY <1>1, <1>4, <1>6, <1>8, <1>9, <1>10
---------------------------------------------------------------------------
(* What a step of one end must show.  The sender: that it keeps its own      *)
(* invariant, that the stream only grows until its end is sent, that what it *)
(* queues or sends is genuine and that it believes only what is so.          *)
LEMMA SenderMoves ==
    ASSUME CInv, UNCHANGED receiverVars, isn_' = isn_, Out!IInv',
           Last' \in Nat, Last <= Last', FinSent => FinSent' /\ Last' = Last,
           SynSent => SynSent',
           \A msg \in Sent' : msg \in Sent
               \/ (SynSent' /\ Genuine(msg, isn_, Last', FinSent', RightEdge)),
           BagToSet(acks') \subseteq BagToSet(acks),
           LeftEdge' <= AckNumber, LeftEdge' + window_size_' <= RightEdge
    PROVE  CInv'
<1>1. /\ Out!IInv /\ In!Inbound(isn_, Last) /\ Messages /\ InStep
  BY DEF CInv
<1>2. UNCHANGED <<ISN, SYN_flag, FIN_flag, checkpoint, re, inbound>>
  BY DEF receiverVars
<1>3. /\ AckNumber' = AckNumber /\ RightEdge' = RightEdge
      /\ (In!EndSeen' <=> In!EndSeen)
  BY <1>2 DEF AckNumber, RightEdge, In!EndSeen
<1>4. /\ Last \in Nat /\ FinSent \in BOOLEAN /\ FinSent' \in BOOLEAN
      /\ RightEdge \in Nat /\ AckNumber \in Nat
  <2>1. Last \in Nat
    BY <1>1, SenderFacts
  <2>2. FinSent \in BOOLEAN /\ FinSent' \in BOOLEAN
    BY DEF FinSent
  <2> QED BY <1>1, <2>1, <2>2, ReceiverFacts
<1>5. (SYN_flag => SynSent) /\ (In!EndSeen => FinSent)
  BY <1>1 DEF InStep
<1>6. In!Inbound(isn_, Last)'
  <2> DEFINE later == Last'
  <2>1. later \in Nat /\ Last <= later /\ (In!EndSeen => later = Last)
    BY <1>5
  <2> HIDE DEF later
  <2>2. In!Inbound(isn_, later)
    BY <1>1, <1>4, <2>1, InAssumptions, In!EndMayBeLater
  <2>3. In!Inbound(isn_, Last')
    BY <2>2 DEF later
  <2> HIDE DEF Last
  <2> QED BY <1>2, <2>3 DEF In!Inbound, In!Listening, In!Open, In!Ended
<1>7. ASSUME NEW msg \in Sent' PROVE SynSent' /\ TrueSegment(msg)'
  <2>1. CASE msg \in Sent
    <3>1. SynSent /\ Genuine(msg, isn_, Last, FinSent, RightEdge)
      BY <1>1, <2>1 DEF Messages, TrueSegment
    <3> DEFINE later == Last'
               fin2  == FinSent'
    <3>2. later \in Nat /\ Last <= later /\ fin2 \in BOOLEAN
          /\ (FinSent => fin2 /\ later = Last)
      BY <1>4
    <3> HIDE DEF later, fin2
    <3>3. Genuine(msg, isn_, later, fin2, RightEdge)
      BY <1>4, <3>1, <3>2, GenuineStays
    <3>4. Genuine(msg, isn_, Last', FinSent', RightEdge)
      BY <3>3 DEF later, fin2
    <3> HIDE DEF Last, FinSent, SynSent, Genuine, RightEdge
    <3> QED BY <1>3, <3>1, <3>4 DEF TrueSegment
  <2>2. CASE SynSent' /\ Genuine(msg, isn_, Last', FinSent', RightEdge)
    <3> HIDE DEF Last, FinSent, SynSent, Genuine, RightEdge
    <3> QED BY <1>3, <2>2 DEF TrueSegment
  <2> QED BY <2>1, <2>2
<1>8. ASSUME NEW msg \in BagToSet(acks') PROVE TrueAck(msg)'
  <2>1. Honest(msg, isn_, AckNumber, RightEdge)
    BY <1>1 DEF Messages, TrueAck
  <2> HIDE DEF RightEdge, AckNumber
  <2> QED BY <1>3, <2>1 DEF TrueAck, Honest
<1>9. InStep'
  <2> HIDE DEF LeftEdge, RightEdge, AckNumber, SynSent, FinSent
  <2> QED BY <1>2, <1>3, <1>5 DEF InStep
<1>10. Messages'
  <2> HIDE DEF Sent, SynSent, TrueSegment, TrueAck
  <2> QED BY <1>7, <1>8 DEF Messages
<1> QED BY <1>6, <1>9, <1>10 DEF CInv

(* The receiver: that it keeps its own invariant, that its edges move on,    *)
(* that what it sends is honest and that it has the SYN and the FIN only if  *)
(* they were sent.                                                           *)
LEMMA ReceiverMoves ==
    ASSUME CInv, UNCHANGED senderVars, In!Inbound(isn_, Last)',
           AckNumber' \in Nat, AvailableCapacity(inbound)' \in Nat,
           AckNumber <= AckNumber', RightEdge <= RightEdge',
           Sent' \subseteq Sent,
           \A msg \in BagToSet(acks') : msg \in BagToSet(acks)
               \/ Honest(msg, isn_, AckNumber', RightEdge'),
           SYN_flag' => SynSent, In!EndSeen' => FinSent
    PROVE  CInv'
<1>1. /\ Out!IInv /\ In!Inbound(isn_, Last) /\ Messages /\ InStep
  BY DEF CInv
<1>2. UNCHANGED <<isn_, Now_RTO_, Num_Resend, Seqno, num_in_flight,
                  window_size_, status_, timer_, out_Noackqueue,
                  out_Readyqueue, outbound>>
  BY DEF senderVars
<1>3. /\ Last' = Last /\ (FinSent' <=> FinSent) /\ (SynSent' <=> SynSent)
      /\ LeftEdge' = LeftEdge /\ FinSent' = FinSent
  BY <1>2 DEF Last, FinSent, SynSent, LeftEdge
<1>4. /\ Last \in Nat /\ FinSent \in BOOLEAN /\ LeftEdge \in Nat
      /\ window_size_ \in Nat
  BY <1>1, SenderFacts
<1>5. /\ RightEdge \in Nat /\ AckNumber \in Nat /\ AckEdge \in Nat
      /\ AckEdge = Larger(2, Larger(RightEdge, AckNumber + 1))
  BY <1>1, <1>4, ReceiverFacts
<1>6. RightEdge' \in Nat /\ AckEdge' \in Nat /\ AckEdge <= AckEdge'
  <2> DEFINE a == AckNumber'
             c == AvailableCapacity(inbound)'
             right == RightEdge'
  <2>1. /\ a \in Nat /\ c \in Nat /\ right = a + c
        /\ AckNumber <= a /\ RightEdge <= right
    BY DEF RightEdge
  <2>2. AckEdge' = Larger(2, a + Larger(c, 1))
    <3> HIDE DEF AckNumber
    <3> QED BY DEF AckEdge, Larger
  <2> HIDE DEF a, c, right
  <2>3. right \in Nat /\ AckEdge' \in Nat /\ AckEdge <= AckEdge'
    BY <1>5, <2>1, <2>2 DEF Larger
  <2> QED BY <2>3 DEF right
<1>7. Out!IInv'
  BY <1>1, <1>2, <1>6, OutAssumptions, Out!EdgeMovesOn DEF Out!senderVars
<1>8. ASSUME NEW msg \in Sent' PROVE SynSent' /\ TrueSegment(msg)'
  <2>1. SynSent /\ Genuine(msg, isn_, Last, FinSent, RightEdge)
    BY <1>1 DEF Messages, TrueSegment
  <2> DEFINE right == RightEdge'
  <2>2. right \in Nat /\ RightEdge <= right
    BY <1>6
  <2> HIDE DEF right
  <2>3. Genuine(msg, isn_, Last, FinSent, right)
    BY <1>4, <1>5, <2>1, <2>2, GenuineStays
  <2>4. Genuine(msg, isn_, Last, FinSent, RightEdge')
    BY <2>3 DEF right
  <2> HIDE DEF Last, FinSent, SynSent, RightEdge, Genuine
  <2> QED BY <1>2, <1>3, <2>1, <2>4 DEF TrueSegment
<1>9. ASSUME NEW msg \in BagToSet(acks') PROVE TrueAck(msg)'
  <2> DEFINE right == RightEdge'
             more  == AckNumber'
  <2>1. Honest(msg, isn_, more, right)
    <3>1. CASE msg \in BagToSet(acks)
      <4>1. Honest(msg, isn_, AckNumber, RightEdge)
        BY <1>1, <3>1 DEF Messages, TrueAck
      <4>2. right \in Nat /\ RightEdge <= right /\ more \in Nat /\ AckNumber <= more
        BY <1>6
      <4> HIDE DEF right, more
      <4> QED BY <1>5, <4>1, <4>2, HonestStays
    <3>2. CASE Honest(msg, isn_, AckNumber', RightEdge')
      BY <3>2
    <3> QED BY <3>1, <3>2
  <2>2. Honest(msg, isn_, AckNumber', RightEdge')
    BY <2>1 DEF right, more
  <2> HIDE DEF RightEdge, AckNumber, Honest
  <2> QED BY <1>2, <2>2 DEF TrueAck
<1>10. InStep'
  <2>1. LeftEdge <= AckNumber /\ LeftEdge + window_size_ <= RightEdge
    BY <1>1 DEF InStep
  <2> DEFINE right == RightEdge'
             more  == AckNumber'
  <2>2. /\ right \in Nat /\ RightEdge <= right /\ more \in Nat
        /\ AckNumber <= more
    BY <1>6
  <2> HIDE DEF right, more, LeftEdge, RightEdge, AckNumber
  <2>3. LeftEdge <= more /\ LeftEdge + window_size_ <= right
    BY <1>4, <1>5, <2>1, <2>2
  <2>4. LeftEdge <= AckNumber' /\ LeftEdge + window_size_ <= RightEdge'
    BY <2>3 DEF right, more
  <2> HIDE DEF SynSent, FinSent
  <2> QED BY <1>2, <1>3, <2>4 DEF InStep
<1>11. Messages'
  <2> HIDE DEF Sent, SynSent, TrueSegment, TrueAck
  <2> QED BY <1>8, <1>9 DEF Messages
<1> QED BY <1>7, <1>10, <1>11 DEF CInv
---------------------------------------------------------------------------
(* The network alone: what is under way was under way.                       *)
LEMMA NetworkKeeps ==
    ASSUME CInv, UNCHANGED <<senderVars, receiverVars>>,
           BagToSet(segments') \subseteq BagToSet(segments),
           BagToSet(acks') \subseteq BagToSet(acks)
    PROVE  CInv'
<1>1. In!Inbound(isn_, Last)
  BY DEF CInv
<1>2. UNCHANGED <<ISN, SYN_flag, FIN_flag, checkpoint, re, inbound>>
  BY DEF receiverVars
<1>3. UNCHANGED <<isn_, out_Noackqueue, out_Readyqueue, outbound>>
  BY DEF senderVars
<1>4. /\ AckNumber' = AckNumber /\ RightEdge' = RightEdge
      /\ (In!EndSeen' <=> In!EndSeen)
      /\ AvailableCapacity(inbound)' = AvailableCapacity(inbound)
  BY <1>2 DEF AckNumber, RightEdge, In!EndSeen, AvailableCapacity
<1>5. /\ AckNumber \in Nat /\ AvailableCapacity(inbound) \in Nat
      /\ RightEdge \in Nat
  <2>1. Last \in Nat
    BY SenderFacts DEF CInv
  <2> QED BY <1>1, <2>1, ReceiverFacts
<1>6. In!Inbound(isn_, Last)'
  <2>1. Last' = Last
    BY <1>3 DEF Last
  <2> HIDE DEF Last
  <2> QED BY <1>1, <1>2, <1>3, <2>1 DEF In!Inbound, In!Listening, In!Open, In!Ended
<1>7. Sent' \subseteq Sent
  BY <1>3 DEF Sent
<1>8. (SYN_flag' => SynSent) /\ (In!EndSeen' => FinSent)
  BY <1>2, <1>4 DEF CInv, InStep
<1> QED BY <1>4, <1>5, <1>6, <1>7, <1>8, ReceiverMoves

(* A step of the sender that sends nothing new and believes nothing new.     *)
LEMMA QuietKeeps ==
    ASSUME CInv, UNCHANGED receiverVars, Out!IInv', Out!LeftEdge' = Out!LeftEdge,
           UNCHANGED <<isn_, window_size_, status_, acks>>,
           outbound'.popped = outbound.popped, Sent' \subseteq Sent
    PROVE  CInv'
<1>1. /\ Out!IInv /\ InStep
  BY DEF CInv
<1>2. Last \in Nat /\ Last' = Last
  BY <1>1, SenderFacts DEF Last, BytesPopped
<1>3. (FinSent' <=> FinSent) /\ (SynSent' <=> SynSent)
  BY DEF FinSent, SynSent
<1>4. LeftEdge' = LeftEdge
  BY DEF LeftEdge, Out!LeftEdge
<1>5. LeftEdge' <= AckNumber /\ LeftEdge' + window_size_' <= RightEdge
  BY <1>1, <1>4 DEF InStep
<1> QED BY <1>2, <1>3, <1>5, SenderMoves

LEMMA SameAckEdge ==
    ASSUME UNCHANGED receiverVars PROVE AckEdge' = AckEdge
BY DEF receiverVars, AckEdge, AckNumber

LEMMA WriteKeeps ==
    ASSUME CInv, NEW n \in 1..2, AppWrites(n)
    PROVE  CInv'
<1> DEFINE data == [i \in 1..n |-> BytesPushed(outbound) + i]
<1>1. /\ BytesPushed(outbound) + n <= StreamLen /\ Sender!WriteOutbound(data)
      /\ UNCHANGED receiverVars /\ UNCHANGED <<segments, acks>>
  BY DEF AppWrites, networkVars
<1>2. Out!AppWrite(n) /\ AckEdge' = AckEdge
  BY <1>1, SenderIs, ValuesSame, SameAckEdge DEF Out!AppWrite
<1>3. Out!IInv /\ n \in Nat
  BY DEF CInv
<1>4. Out!IInv' /\ Out!LeftEdge' = Out!LeftEdge
  BY <1>2, <1>3, OutAssumptions, Out!WriteKeeps
<1>5. outbound' = Push(outbound, data)
      /\ UNCHANGED <<isn_, window_size_, status_, out_Noackqueue, out_Readyqueue>>
  BY <1>1, Zenon DEF Sender!WriteOutbound, Sender!Push, Push, Sender!Smaller,
       Smaller, Sender!AvailableCapacity, AvailableCapacity
<1>6. outbound'.popped = outbound.popped
  <2>1. outbound \in Out!Streams
    BY <1>3 DEF Out!IInv, Out!Types
  <2> QED BY <1>5, <2>1 DEF Push, Out!Streams
<1>7. Sent' \subseteq Sent
  BY <1>1, <1>5 DEF Sent
<1> QED BY <1>1, <1>4, <1>5, <1>6, <1>7, QuietKeeps

LEMMA CloseKeeps ==
    ASSUME CInv, AppCloses
    PROVE  CInv'
<1>1. /\ Sender!CloseOutbound
      /\ UNCHANGED receiverVars /\ UNCHANGED <<segments, acks>>
  BY DEF AppCloses, networkVars
<1>2. Out!AppClose
  BY <1>1, SenderIs, SameAckEdge DEF Out!AppClose
<1>3. Out!IInv
  BY DEF CInv
<1>4. Out!IInv' /\ Out!LeftEdge' = Out!LeftEdge
  BY <1>2, <1>3, OutAssumptions, Out!CloseKeeps
<1>5. outbound' = [outbound EXCEPT !.closed = TRUE]
      /\ UNCHANGED <<isn_, window_size_, status_, out_Noackqueue, out_Readyqueue>>
  BY <1>1, Zenon DEF Sender!CloseOutbound, Sender!Close
<1>6. outbound'.popped = outbound.popped
  <2>1. outbound \in Out!Streams
    BY <1>3 DEF Out!IInv, Out!Types
  <2> QED BY <1>5, <2>1 DEF Out!Streams
<1>7. Sent' \subseteq Sent
  BY <1>1, <1>5 DEF Sent
<1> QED BY <1>1, <1>4, <1>5, <1>6, <1>7, QuietKeeps

LEMMA SendKeeps ==
    ASSUME CInv, OwnerSends
    PROVE  CInv'
<1>1. /\ Sender!maybe_send /\ UNCHANGED receiverVars /\ UNCHANGED acks
      /\ segments' = segments (+) One(Head(out_Readyqueue))
  BY DEF OwnerSends
<1>2. AckEdge' = AckEdge /\ Out!maybe_send
  BY <1>1, SenderIs, SameAckEdge
<1>3. Out!IInv
  BY DEF CInv
<1>4. Out!IInv' /\ Out!LeftEdge' = Out!LeftEdge
  BY <1>2, <1>3, OutAssumptions, Out!SendKeeps
<1>5. /\ out_Readyqueue # <<>> /\ out_Readyqueue' = Tail(out_Readyqueue)
      /\ UNCHANGED <<isn_, window_size_, status_, out_Noackqueue, outbound>>
  BY <1>1, Zenon DEF Sender!maybe_send
<1>6. out_Readyqueue \in Seq(Out!Segments)
  BY <1>3 DEF Out!IInv, Out!Types
<1>7. BagToSet(segments') = BagToSet(segments) \cup {Head(out_Readyqueue)}
  BY <1>1, NetworkFacts
<1>8. Sent' \subseteq Sent
  <2> DEFINE q == out_Readyqueue
  <2>1. /\ q \in Seq(Out!Segments) /\ Len(q) \in Nat /\ Len(q) >= 1
        /\ Head(q) = q[1] /\ Len(Tail(q)) = Len(q) - 1
        /\ DOMAIN q = 1..Len(q) /\ DOMAIN Tail(q) = 1..(Len(q) - 1)
        /\ \A i \in 1..(Len(q) - 1) : Tail(q)[i] = q[i + 1]
    <3>1. q \in Seq(Out!Segments) /\ q # <<>>
      BY <1>5, <1>6
    <3> HIDE DEF q
    <3>2. Head(q) = q[1] /\ Tail(q) \in Seq(Out!Segments) /\ Len(Tail(q)) = Len(q) - 1
          /\ \A i \in 1..Len(Tail(q)) : Tail(q)[i] = q[i + 1]
      BY <3>1, HeadTailProperties
    <3>3. Len(q) \in Nat /\ DOMAIN q = 1..Len(q) /\ Len(q) # 0
          /\ DOMAIN Tail(q) = 1..Len(Tail(q))
      BY <3>1, <3>2, LenProperties, EmptySeq
    <3> QED BY <3>1, <3>2, <3>3
  <2>2. 1 \in DOMAIN q /\ \A i \in DOMAIN Tail(q) : i + 1 \in DOMAIN q
    BY <2>1
  <2> HIDE DEF q
  <2>3. {q'[i] : i \in DOMAIN q'} \subseteq {q[i] : i \in DOMAIN q}
    BY <1>5, <2>1, <2>2 DEF q
  <2>4. Head(q) \in {q[i] : i \in DOMAIN q}
    BY <2>1, <2>2
  <2> QED BY <1>5, <1>7, <2>3, <2>4 DEF Sent, q
<1>9. outbound'.popped = outbound.popped
  BY <1>5
<1> QED BY <1>1, <1>4, <1>5, <1>8, <1>9, QuietKeeps

LEMMA TickKeeps ==
    ASSUME CInv, TimePasses
    PROVE  CInv'
<1> DEFINE ms == initial_RTO_ms
<1>1. /\ Sender!tick(ms) /\ UNCHANGED receiverVars /\ UNCHANGED <<segments, acks>>
  BY DEF TimePasses, networkVars
<1>2. AckEdge' = AckEdge /\ (Out!TimePasses(ms) \/ Out!Retransmit(ms))
  BY <1>1, SenderIs, SameAckEdge DEF Out!tick
<1>3. Out!IInv /\ ms \in Nat
  BY ConnectionAssumption DEF CInv
<1>4. Out!IInv' /\ Out!LeftEdge' = Out!LeftEdge
  BY <1>2, <1>3, OutAssumptions, Out!TimePassesKeeps, Out!RetransmitKeeps
<1>5. UNCHANGED <<isn_, window_size_, status_, out_Noackqueue, outbound>>
  BY <1>2, Zenon DEF Out!TimePasses, Out!Retransmit
<1>6. /\ out_Noackqueue \in Seq(Out!Segments)
      /\ out_Readyqueue \in Seq(Out!Segments)
      /\ timer_.open => out_Noackqueue # <<>>
  BY <1>3 DEF Out!IInv, Out!Types, Out!TimerRunsIffOutstanding
<1>7. Sent' \subseteq Sent
  <2>1. CASE Out!TimePasses(ms)
    BY <1>1, <2>1 DEF Out!TimePasses, Sent
  <2>2. CASE Out!Retransmit(ms)
    <3> DEFINE one == <<Head(out_Noackqueue)>>
               q   == out_Readyqueue
    <3>1. out_Readyqueue' = one \o q /\ out_Noackqueue # <<>>
      BY <1>6, <2>2 DEF Out!Retransmit, Out!Overtime
    <3>2. /\ 1 \in DOMAIN out_Noackqueue
          /\ Head(out_Noackqueue) = out_Noackqueue[1]
          /\ Head(out_Noackqueue) \in Out!Segments
      <4>1. /\ Head(out_Noackqueue) = out_Noackqueue[1]
            /\ Head(out_Noackqueue) \in Out!Segments
        BY <1>6, <3>1, HeadTailProperties
      <4>2. /\ Len(out_Noackqueue) \in Nat /\ Len(out_Noackqueue) # 0
            /\ DOMAIN out_Noackqueue = 1..Len(out_Noackqueue)
        BY <1>6, <3>1, LenProperties, EmptySeq
      <4> QED BY <4>1, <4>2
    <3>3. one \in Seq(Out!Segments) /\ Len(one) = 1 /\ one[1] = Head(out_Noackqueue)
      BY <3>2
    <3>4. /\ DOMAIN (one \o q) = 1..(1 + Len(q))
          /\ DOMAIN q = 1..Len(q) /\ Len(q) \in Nat
          /\ \A i \in 1..(1 + Len(q)) :
                (one \o q)[i] = IF i <= 1 THEN one[i] ELSE q[i - 1]
      <4> HIDE DEF one
      <4>1. q \in Seq(Out!Segments)
        BY <1>6
      <4> HIDE DEF q
      <4>2. one \o q \in Seq(Out!Segments) /\ Len(one \o q) = 1 + Len(q)
            /\ \A i \in 1..(1 + Len(q)) :
                  (one \o q)[i] = IF i <= 1 THEN one[i] ELSE q[i - 1]
        <5>1. one \in Seq(Out!Segments) /\ Len(one) = 1
          BY <3>3
        <5>2. one \o q \in Seq(Out!Segments) /\ Len(one \o q) = Len(one) + Len(q)
              /\ \A i \in 1..(Len(one) + Len(q)) :
                    (one \o q)[i] = IF i <= Len(one) THEN one[i] ELSE q[i - Len(one)]
          BY <4>1, <5>1, ConcatProperties
        <5> QED BY <5>1, <5>2
      <4> QED BY <4>1, <4>2, LenProperties
    <3>5. ASSUME NEW i \in DOMAIN (one \o q)
          PROVE  (one \o q)[i] \in {out_Noackqueue[j] : j \in DOMAIN out_Noackqueue}
                                      \cup {q[j] : j \in DOMAIN q}
      <4> HIDE DEF one, q
      <4>1. CASE i <= 1
        <5>1. i = 1
          BY <3>4, <4>1
        <5> QED BY <3>2, <3>3, <3>4, <4>1, <5>1
      <4>2. CASE ~(i <= 1)
        <5>1. i - 1 \in DOMAIN q
          BY <3>4, <4>2
        <5> QED BY <3>4, <4>2, <5>1
      <4> QED BY <4>1, <4>2
    <3> HIDE DEF one, q
    <3> QED BY <1>1, <1>5, <3>1, <3>5 DEF Sent, q
  <2> QED BY <1>2, <2>1, <2>2
<1>8. outbound'.popped = outbound.popped
  BY <1>5
<1> QED BY <1>1, <1>4, <1>5, <1>7, <1>8, QuietKeeps
---------------------------------------------------------------------------
(* The SYN, alone or with the FIN of an empty stream.                        *)
LEMMA PushSynKeeps ==
    ASSUME CInv, Out!PushSyn, UNCHANGED receiverVars, UNCHANGED <<segments, acks>>
    PROVE  CInv'
<1> DEFINE fin == Out!FinWithSyn
           msg == Out!Segment(Out!Wrap(Seqno, isn_), TRUE, <<>>, fin)
           msgs == <<msg>>
<1>1. Out!IInv /\ In!Inbound(isn_, Last) /\ InStep
  BY DEF CInv
<1>2. Out!IInv' /\ Out!LeftEdge' = Out!LeftEdge
  BY <1>1, SameAckEdge, OutAssumptions, Out!PushSynKeeps
<1>3. /\ status_ = "CLOSED"
      /\ status_' = IF fin THEN "FIN_WAIT" ELSE "SYN_SENT"
      /\ out_Noackqueue' = out_Noackqueue \o msgs
      /\ out_Readyqueue' = out_Readyqueue \o msgs
      /\ UNCHANGED <<isn_, window_size_, outbound>>
  BY DEF Out!PushSyn, Out!StatusAfterSyn, Out!push_msgs
<1>4. /\ isn_ \in Wrap32 /\ Seqno = 0 /\ Last = 1
      /\ ~SynSent /\ ~FinSent /\ SynSent' /\ (FinSent' <=> fin) /\ Last' = 1
      /\ fin \in BOOLEAN
  <2>1. ~SynSent /\ ~FinSent /\ SynSent' /\ (FinSent' <=> fin)
    BY <1>3 DEF SynSent, FinSent
  <2>2. isn_ \in Wrap32 /\ Seqno = 0 /\ Last = 1
    BY <1>1, <2>1, SenderFacts
  <2>3. Last' = Last
    BY <1>3 DEF Last
  <2>4. fin \in BOOLEAN
    BY Zenon DEF Out!FinWithSyn, Out!IsFinished
  <2> QED BY <2>1, <2>2, <2>3, <2>4
<1>5. RightEdge \in Nat /\ LeftEdge' = LeftEdge
  BY <1>1, <1>2, <1>4, ReceiverFacts DEF LeftEdge, Out!LeftEdge
<1>6. Genuine(msg, isn_, Last', FinSent', RightEdge)
  <2>1. Bytes(1, 0) = <<>>
    <3>1. Bytes(1, 0) \in Seq(Nat) /\ Len(Bytes(1, 0)) = 0
      BY BytesAre, 0 \in Nat, 1 \in Nat
    <3> HIDE DEF Bytes
    <3> QED BY <3>1, EmptySeq
  <2>2. msg = Segment(Wrap(0, isn_), TRUE, <<>>, fin) /\ msg.FIN = fin
    <3>1. msg = Segment(Wrap(0, isn_), TRUE, <<>>, fin)
      BY <1>4, ValuesSame, NumbersSame, Zenon
    <3> HIDE DEF fin, msg
    <3> QED BY <3>1 DEF Segment
  <2>3. Larger(0, 1) = 1 /\ Larger(0, 1) + 0 = 1 /\ ~(0 > 0) /\ (0 = 0) = TRUE
    BY DEF Larger
  <2>4. Cut(msg, 0, 0, isn_, 1, fin, RightEdge)
    <3> HIDE DEF fin, msg, Bytes
    <3>1. msg = Segment(Wrap(0, isn_), 0 = 0, Bytes(Larger(0, 1), 0), msg.FIN)
      BY <2>1, <2>2, <2>3, Zenon
    <3>2. msg.FIN \in BOOLEAN /\ Larger(0, 1) + 0 <= 1
      <4>1. msg.FIN \in BOOLEAN
        BY <1>4, <2>2, Zenon
      <4> QED BY <2>3, <4>1
    <3>3. msg.FIN => fin /\ Larger(0, 1) + 0 = 1
      BY <2>2, <2>3
    <3>4. ~(msg.FIN /\ 0 > 0)
      OBVIOUS
    <3> QED BY <3>1, <3>2, <3>3, <3>4, Zenon DEF Cut
  <2>5. Genuine(msg, isn_, 1, fin, RightEdge)
    <3> HIDE DEF fin, msg
    <3> QED BY <2>4, 0 \in Nat DEF Genuine
  <2>6. FinSent' = fin
    <3>1. FinSent' \in BOOLEAN
      BY DEF FinSent
    <3> HIDE DEF fin, FinSent
    <3> QED BY <1>4, <3>1
  <2> HIDE DEF fin, msg, FinSent
  <2> QED BY <1>4, <2>5, <2>6
<1>7. ASSUME NEW m \in Sent' PROVE m \in Sent \/ m = msg
  <2> DEFINE S == {msg} \cup Out!Segments
  <2>1. out_Noackqueue \in Seq(S) /\ out_Readyqueue \in Seq(S)
    <3>1. /\ out_Noackqueue \in Seq(Out!Segments)
          /\ out_Readyqueue \in Seq(Out!Segments)
      BY <1>1 DEF Out!IInv, Out!Types
    <3>2. Out!Segments \subseteq S
      OBVIOUS
    <3> HIDE DEF S
    <3> QED BY <3>1, <3>2
  <2>2. msgs \in Seq(S) /\ Len(msgs) = 1 /\ msgs[1] = msg
    <3> HIDE DEF msg
    <3> QED OBVIOUS
  <2> HIDE DEF S, msgs
  <2>3. m \in Sent \/ \E i \in 1..Len(msgs) : m = msgs[i]
    BY <1>3, <2>1, <2>2, QueuesLonger
  <2> HIDE DEF msg
  <2> QED BY <2>2, <2>3
<1>8. LeftEdge' <= AckNumber /\ LeftEdge' + window_size_' <= RightEdge
  BY <1>1, <1>3, <1>5 DEF InStep
<1>9. \A m \in Sent' : m \in Sent
          \/ (SynSent' /\ Genuine(m, isn_, Last', FinSent', RightEdge))
  <2> HIDE DEF msg, Last, FinSent, SynSent, Sent
  <2> QED BY <1>4, <1>6, <1>7
<1>10. Last' \in Nat /\ Last <= Last' /\ (FinSent => FinSent' /\ Last' = Last)
       /\ (SynSent => SynSent')
  <2> HIDE DEF Last, FinSent, SynSent
  <2> QED BY <1>4
<1> HIDE DEF Sent, Last, FinSent, SynSent, RightEdge, LeftEdge, AckNumber
<1> QED BY <1>2, <1>3, <1>8, <1>9, <1>10, SenderMoves
(* Segment i of one call of push(): the bytes that follow those sent before, *)
(* with the FIN only if the stream ends and the window has room for it.      *)
LEMMA NewSegmentIsCut ==
    ASSUME CInv, status_ = "ESTABLISHED", num_in_flight <= window_size_,
           NEW n \in 0..Out!BytesBuffered(outbound), n <= Out!AbleSend,
           NEW i \in 1..Out!SegmentCount(n),
           NEW fin2 \in BOOLEAN, Out!FinFits(n) => fin2
    PROVE  Genuine(Out!NewSegments(n)[i], isn_, Last + n, fin2, RightEdge)
<1> DEFINE c   == Out!SegmentCount(n)
           msg == Out!NewSegments(n)[i]
           lo  == (i - 1) * MAX_PAYLOAD_SIZE
           hi  == Out!PayloadEnd(i, n)
           p   == Seqno + lo
           l   == hi - lo
<1>1. Out!IInv /\ In!Inbound(isn_, Last) /\ InStep /\ Out!Types
  BY DEF CInv, Out!IInv
<1>2. /\ n \in Nat /\ lo \in 0..n /\ hi \in 0..n /\ l \in Nat
      /\ i = c => hi = n
      /\ n = 0 => l = 0
  <2>1. n \in Nat
    BY <1>1, SenderFacts, ValuesSame DEF BytesBuffered
  <2>2. /\ lo \in 0..n /\ hi \in 0..n /\ l \in 0..MAX_PAYLOAD_SIZE
        /\ i = c => hi = n
    BY <2>1, OutAssumptions, Out!PayloadsAre
  <2>3. MAX_PAYLOAD_SIZE \in Nat
    BY ConnectionAssumption
  <2> HIDE DEF lo, hi, c
  <2>4. l \in Nat
    BY <2>2, <2>3
  <2>5. n = 0 => l = 0
    BY <2>2
  <2> QED BY <2>1, <2>2, <2>4, <2>5
<1>3. /\ msg.seqno = Wrap(p, isn_) /\ msg.SYN = FALSE
      /\ msg.FIN = (i = c /\ Out!FinFits(n))
      /\ Len(msg.payload) = l
      /\ \A j \in 1..l : msg.payload[j] = outbound.queue[lo + j]
                         /\ lo + j \in 1..Out!BytesBuffered(outbound)
      /\ msg \in Out!Segments
  <2>1. /\ Out!NewSegments(n) \in Seq(Out!Segments)
        /\ Len(Out!NewSegments(n)) = c
        /\ msg.seqno = Out!Wrap(p, isn_) /\ msg.SYN = FALSE
        /\ msg.FIN = (i = c /\ Out!FinFits(n))
        /\ Len(msg.payload) = l
        /\ \A j \in 1..Len(msg.payload) :
              /\ msg.payload[j] = outbound.queue[lo + j]
              /\ lo + j \in 1..Out!BytesBuffered(outbound)
    BY <1>1, OutAssumptions, Out!NewSegmentsAre
  <2>2. msg \in Out!Segments
    <3> DEFINE q == Out!NewSegments(n)
    <3>1. q \in Seq(Out!Segments) /\ i \in 1..Len(q)
      BY <2>1
    <3> HIDE DEF q
    <3>2. q[i] \in Out!Segments
      BY <3>1, ElementOfSeq
    <3> QED BY <3>2 DEF q
  <2> HIDE DEF msg, p, l, lo, c
  <2> QED BY <2>1, <2>2, NumbersSame
<1>4. /\ Seqno \in Nat /\ Last \in Nat /\ Seqno = Last
      /\ Last = outbound.popped + 1 /\ outbound.popped \in Nat
      /\ outbound.queue \in Seq(Nat)
      /\ window_size_ \in Nat /\ num_in_flight \in Nat
      /\ LeftEdge = Seqno - num_in_flight
  <2>1. SynSent /\ ~FinSent
    BY DEF SynSent, FinSent
  <2>2. Bit(FinSent) = 0
    BY <2>1, Zenon DEF Bit
  <2>3. LeftEdge = Seqno - num_in_flight
    BY DEF LeftEdge
  <2>4. /\ Seqno \in Nat /\ Last \in Nat /\ Last = outbound.popped + 1
        /\ outbound.popped \in Nat /\ outbound.queue \in Seq(Nat)
        /\ window_size_ \in Nat /\ num_in_flight \in Nat
        /\ Seqno = Last + Bit(FinSent)
    BY <1>1, <2>1, SenderFacts
  <2> HIDE DEF Last, LeftEdge, FinSent
  <2> QED BY <2>2, <2>3, <2>4
<1>5. \A j \in 1..Len(outbound.queue) : outbound.queue[j] = outbound.popped + j
  <2>1. DOMAIN outbound.queue = 1..Len(outbound.queue)
    BY <1>4, LenProperties
  <2> QED BY <1>1, <2>1, ValuesSame DEF Out!IInv, Out!StreamInOrder, BytesPopped
<1>6. msg.FIN \in BOOLEAN /\ (msg.FIN => i = c /\ Out!FinFits(n))
  <2> HIDE DEF msg, c
  <2> QED BY <1>3, Zenon DEF Out!Segments
<1>7. Out!FinFits(n) => n < Out!AbleSend
  BY DEF Out!FinFits
<1>8. Out!AbleSend \in Nat /\ num_in_flight + Out!AbleSend = Larger(window_size_, 1)
  BY <1>1, OutAssumptions, Out!AbleSendIs, ValuesSame
<1>9. RightEdge \in Nat /\ LeftEdge + window_size_ <= RightEdge
  BY <1>1, <1>4, ReceiverFacts DEF InStep
<1> HIDE DEF lo, hi, c, msg
<1>10. p \in Nat \ {0} /\ p + l = Seqno + hi /\ p + l <= Last + n
  <2>1. /\ Seqno \in Nat \ {0} /\ Seqno = Last
        /\ lo \in Nat /\ hi \in Nat /\ hi <= n /\ n \in Nat
    BY <1>2, <1>4
  <2>2. Seqno + lo \in Nat \ {0} /\ (Seqno + lo) + (hi - lo) = Seqno + hi
        /\ Seqno + hi <= Seqno + n
    BY <2>1
  <2> QED BY <2>1, <2>2
<1>11. msg.payload = Bytes(p, l)
  <2>1. msg.payload \in Seq(Nat)
    BY <1>3 DEF Out!Segments
  <2>2. ASSUME NEW k \in 1..l PROVE msg.payload[k] = p + k - 1
    <3> DEFINE j == lo + k
    <3>1. /\ msg.payload[k] = outbound.queue[j]
          /\ j \in 1..Len(outbound.queue)
      BY <1>3, ValuesSame DEF BytesBuffered
    <3>2. j \in Nat /\ p + k - 1 = outbound.popped + j
      <4>1. /\ lo \in Nat /\ k \in Nat /\ outbound.popped \in Nat
            /\ Seqno = outbound.popped + 1
        BY <1>2, <1>4
      <4>2. lo + k \in Nat
            /\ ((outbound.popped + 1) + lo) + k - 1 = outbound.popped + (lo + k)
        BY <4>1
      <4> QED BY <4>1, <4>2
    <3> HIDE DEF j, p
    <3> QED BY <1>5, <3>1, <3>2
  <2>3. p \in Nat
    BY <1>10
  <2> HIDE DEF p, l, Bytes
  <2> QED BY <1>3, <2>1, <2>2, <2>3, BytesEqual
<1>12. msg.FIN => fin2 /\ p + l = Last + n
  BY <1>2, <1>4, <1>6, <1>10
<1>13. msg.FIN /\ l > 0 => Last + n <= RightEdge
  <2> SUFFICES ASSUME msg.FIN, l > 0 PROVE Last + n <= RightEdge
    OBVIOUS
  <2>1. n > 0 /\ n < Out!AbleSend
    BY <1>2, <1>6, <1>7
  <2> DEFINE able == Out!AbleSend
  <2>2. able \in Nat /\ num_in_flight + able = Larger(window_size_, 1) /\ n < able
    BY <1>8, <2>1
  <2> HIDE DEF able, LeftEdge, RightEdge, Last
  <2>3. window_size_ >= 1
    BY <1>2, <1>4, <2>1, <2>2 DEF Larger
  <2>4. num_in_flight + able = window_size_
    BY <1>4, <2>2, <2>3 DEF Larger
  <2> QED BY <1>2, <1>4, <1>9, <2>2, <2>4
<1>14. Larger(p, 1) = p /\ (p = 0) = FALSE
  BY <1>10 DEF Larger
<1> HIDE DEF p, l, Last, RightEdge, LeftEdge
<1>15. msg = Segment(Wrap(p, isn_), p = 0, Bytes(Larger(p, 1), l), msg.FIN)
  <2>1. msg = [seqno |-> msg.seqno, SYN |-> msg.SYN, payload |-> msg.payload,
               FIN |-> msg.FIN]
    BY <1>3 DEF Out!Segments
  <2>2. msg = Segment(Wrap(p, isn_), FALSE, Bytes(p, l), msg.FIN)
    <3> HIDE DEF Bytes
    <3> QED BY <1>3, <1>11, <2>1, Zenon DEF Segment
  <2> QED BY <1>14, <2>2, Zenon
<1>16. Cut(msg, p, l, isn_, Last + n, fin2, RightEdge)
  <2>1. Larger(p, 1) + l <= Last + n /\ ~(p = 0)
    BY <1>10, <1>14
  <2>2. msg.FIN => fin2 /\ Larger(p, 1) + l = Last + n
    BY <1>12, <1>14
  <2> QED BY <1>6, <1>13, <1>15, <2>1, <2>2, Zenon DEF Cut
<1>17. p \in Nat /\ l \in Nat
  BY <1>2, <1>10
<1> QED BY <1>16, <1>17 DEF Genuine, msg

LEMMA PushDataKeeps ==
    ASSUME CInv, Out!PushData, UNCHANGED receiverVars, UNCHANGED <<segments, acks>>
    PROVE  CInv'
<1> DEFINE n    == Out!Smaller(Out!AbleSend, Out!BytesBuffered(outbound))
           msgs == Out!NewSegments(n)
<1>1. Out!IInv /\ In!Inbound(isn_, Last) /\ InStep /\ Out!Types
      /\ Out!StreamInOrder
  BY DEF CInv, Out!IInv
<1>2. Out!IInv' /\ Out!LeftEdge' = Out!LeftEdge
  BY <1>1, SameAckEdge, OutAssumptions, Out!PushDataKeeps
<1>3. /\ status_ = "ESTABLISHED" /\ num_in_flight <= window_size_
      /\ status_' = IF Out!FinFits(n) THEN "FIN_WAIT" ELSE status_
      /\ out_Noackqueue' = out_Noackqueue \o msgs
      /\ out_Readyqueue' = out_Readyqueue \o msgs
      /\ outbound' = Out!Pop(outbound, n)
      /\ UNCHANGED <<isn_, window_size_>>
  BY DEF Out!PushData, Out!push_msgs
<1>4. Out!AbleSend \in Nat /\ Out!BytesBuffered(outbound) \in Nat
  <2>1. Out!AbleSend \in Nat
    BY <1>1, <1>3, OutAssumptions, Out!AbleSendIs
  <2>2. Out!BytesBuffered(outbound) = Len(outbound.queue)
    BY DEF Out!BytesBuffered
  <2> QED BY <1>1, <2>1, <2>2, SenderFacts
<1>5. n \in 0..Out!BytesBuffered(outbound) /\ n <= Out!AbleSend /\ n \in Nat
  BY <1>4 DEF Out!Smaller
<1> HIDE DEF n
<1>6. outbound'.popped = outbound.popped + n
  BY <1>1, <1>3, <1>5, OutAssumptions, Out!StreamAfterPop
<1>7. /\ Last \in Nat /\ Last' = Last + n /\ Last + n \in Nat
  <2>1. Last \in Nat /\ Last = outbound.popped + 1 /\ outbound.popped \in Nat
    BY <1>1, SenderFacts
  <2>2. Last' = outbound'.popped + 1
    BY DEF Last, BytesPopped
  <2> HIDE DEF Last
  <2> QED BY <1>5, <1>6, <2>1, <2>2
<1>8. SynSent' /\ ~FinSent /\ (Out!FinFits(n) => FinSent') /\ FinSent' \in BOOLEAN
  BY <1>3 DEF SynSent, FinSent
<1>9. msgs \in Seq(Out!Segments) /\ Len(msgs) = Out!SegmentCount(n)
  BY <1>1, <1>5, OutAssumptions, Out!NewSegmentsAre
<1>10. ASSUME NEW i \in 1..Out!SegmentCount(n)
       PROVE  Genuine(msgs[i], isn_, Last', FinSent', RightEdge)
  <2> DEFINE fin2 == FinSent'
  <2>1. fin2 \in BOOLEAN /\ (Out!FinFits(n) => fin2)
    BY <1>8
  <2> HIDE DEF fin2
  <2>2. Genuine(msgs[i], isn_, Last + n, fin2, RightEdge)
    BY <1>3, <1>5, <2>1, NewSegmentIsCut
  <2>3. Genuine(msgs[i], isn_, Last + n, FinSent', RightEdge)
    BY <2>2 DEF fin2
  <2> HIDE DEF msgs, Last, FinSent, RightEdge, Genuine
  <2> QED BY <1>7, <2>3
<1>11. /\ out_Noackqueue \in Seq(Out!Segments)
       /\ out_Readyqueue \in Seq(Out!Segments)
  BY <1>1 DEF Out!Types
<1> HIDE DEF msgs
<1>12. \A m \in Sent' : m \in Sent \/ \E i \in 1..Len(msgs) : m = msgs[i]
  BY <1>3, <1>9, <1>11, QueuesLonger
<1>13. \A m \in Sent' : m \in Sent
          \/ (SynSent' /\ Genuine(m, isn_, Last', FinSent', RightEdge))
  <2> HIDE DEF Last, FinSent, SynSent, Sent, RightEdge
  <2> QED BY <1>8, <1>9, <1>10, <1>12
<1>14. LeftEdge' <= AckNumber /\ LeftEdge' + window_size_' <= RightEdge
  <2>1. LeftEdge' = LeftEdge
    BY <1>2 DEF LeftEdge, Out!LeftEdge
  <2> QED BY <1>1, <1>3, <2>1 DEF InStep
<1>15. Last' \in Nat /\ Last <= Last' /\ (FinSent => FinSent' /\ Last' = Last)
       /\ (SynSent => SynSent')
  <2> HIDE DEF Last, FinSent, SynSent
  <2> QED BY <1>5, <1>7, <1>8
<1> HIDE DEF Sent, Last, FinSent, SynSent, RightEdge, LeftEdge, AckNumber
<1> QED BY <1>2, <1>3, <1>13, <1>14, <1>15, SenderMoves

LEMMA PushKeeps ==
    ASSUME CInv, OwnerPushes
    PROVE  CInv'
<1>1. (Out!PushSyn \/ Out!PushData) /\ UNCHANGED receiverVars
      /\ UNCHANGED <<segments, acks>>
  BY PushIs DEF OwnerPushes, networkVars, Out!push
<1> QED BY <1>1, PushSynKeeps, PushDataKeeps
(* An acknowledgement the sender believes: the number in it is recovered,    *)
(* however old the message is.                                               *)
LEMMA BelievedAck ==
    ASSUME CInv, NEW msg \in BagToSet(acks), Out!Acceptable(msg.ackno)
    PROVE  \E a \in Nat, window \in 0..MaxWindow :
              /\ msg = Out!Ack(Out!Wrap(a, isn_), window)
              /\ Out!Wrap(a, isn_) \in Out!Wrap32
              /\ Out!AbsoluteNo(Out!Wrap(a, isn_)) = a
              /\ a <= AckNumber /\ a + window <= RightEdge
<1>1. Out!IInv /\ In!Inbound(isn_, Last) /\ Messages
  BY DEF CInv
<1>2. PICK window \in 0..MaxWindow :
         \/ msg = Ack(NoAckno, window)
         \/ \E a \in Nat : /\ msg = Ack(Wrap(a, isn_), window)
                           /\ a <= AckNumber /\ a + window <= RightEdge
  BY <1>1 DEF Messages, TrueAck, Honest
<1>3. msg # Ack(NoAckno, window)
  BY ValuesSame DEF Out!Acceptable, Ack
<1>4. PICK a \in Nat : /\ msg = Ack(Wrap(a, isn_), window)
                       /\ a <= AckNumber /\ a + window <= RightEdge
  BY <1>2, <1>3
<1>5. /\ isn_ \in Wrap32 /\ Seqno \in Nat /\ Seqno <= StreamLen + 2
      /\ AckNumber <= Seqno /\ AckNumber \in Nat
  BY <1>1, SenderFacts, NeitherIsAhead, ReceiverFacts
<1>6. /\ Base \in Nat \ {0} /\ Base \div 2 \in Nat /\ Word \div 2 \in Nat
      /\ 2 * (Base \div 2) = Base /\ Base <= Word \div 2
      /\ StreamLen \in Nat /\ StreamLen + 2 < Base \div 2
  BY HalfLap, LapAssumption
<1> HIDE DEF AckNumber, RightEdge
<1>7. a <= Seqno /\ Seqno < Word \div 2 /\ Seqno - a < Base \div 2
  <2> DEFINE h == Base \div 2
             w == Word \div 2
  <2>1. h \in Nat /\ w \in Nat /\ 2 * h <= w /\ StreamLen \in Nat
        /\ StreamLen + 2 < h
    BY <1>6
  <2> HIDE DEF h, w
  <2>2. a <= Seqno /\ Seqno < w /\ Seqno - a < h
    BY <1>4, <1>5, <2>1
  <2> QED BY <2>2 DEF h, w
<1>8. isn_ \in Out!Wrap32
  BY <1>5, NumbersSame
<1>9. Out!Unwrap(Out!Wrap(a, isn_), isn_, Seqno) = a
  BY <1>5, <1>7, <1>8, OutAssumptions, Out!UnwrapRecovers
<1>10. Out!Wrap(a, isn_) \in Out!Wrap32
  BY <1>8, OutAssumptions, Out!WrapOfSum, 0 \in Nat
<1>11. Out!AbsoluteNo(Out!Wrap(a, isn_)) = a
  BY <1>9 DEF Out!AbsoluteNo
<1>12. msg = Out!Ack(Out!Wrap(a, isn_), window)
  BY <1>4, NumbersSame, ValuesSame, Zenon
<1> QED BY <1>4, <1>10, <1>11, <1>12

LEMMA AckKeeps ==
    ASSUME CInv, NEW msg \in BagToSet(acks), Sender!receive(msg),
           UNCHANGED receiverVars, UNCHANGED segments,
           acks' = acks (-) One(msg)
    PROVE  CInv'
<1>1. Out!receive(msg) /\ AckEdge' = AckEdge
  BY SenderIs, SameAckEdge
<1>2. Out!Acceptable(msg.ackno)
  BY <1>1 DEF Out!receive
<1>3. PICK a \in Nat, window \in 0..MaxWindow :
              /\ msg = Out!Ack(Out!Wrap(a, isn_), window)
              /\ Out!Wrap(a, isn_) \in Out!Wrap32
              /\ Out!AbsoluteNo(Out!Wrap(a, isn_)) = a
              /\ a <= AckNumber /\ a + window <= RightEdge
  BY <1>2, BelievedAck
<1> DEFINE raw == Out!Wrap(a, isn_)
<1>4. /\ Out!IInv /\ In!Inbound(isn_, Last) /\ InStep
      /\ AckNumber \in Nat /\ RightEdge \in Nat /\ AckEdge \in Nat
      /\ AckEdge = Larger(2, Larger(RightEdge, AckNumber + 1))
      /\ Last \in Nat /\ Seqno \in Nat /\ num_in_flight \in Nat
      /\ window \in Nat
  <2>1. /\ Out!IInv /\ In!Inbound(isn_, Last) /\ InStep
    BY DEF CInv
  <2>2. Last \in Nat /\ Seqno \in Nat /\ num_in_flight \in Nat
    BY <2>1, SenderFacts
  <2>3. window \in Nat
    BY ConnectionAssumption
  <2> QED BY <2>1, <2>2, <2>3, ReceiverFacts
<1>5. Out!PeerAcks(raw, window)
  <2>1. Out!Larger(AckEdge, a + Out!Larger(window, 1)) = AckEdge
    <3> DEFINE right == RightEdge
               more  == AckNumber
    <3>1. /\ more \in Nat /\ right \in Nat /\ AckEdge \in Nat
          /\ AckEdge = Larger(2, Larger(right, more + 1))
          /\ a <= more /\ a + window <= right /\ window \in Nat
      BY <1>3, <1>4
    <3> HIDE DEF right, more
    <3>2. Larger(AckEdge, a + Larger(window, 1)) = AckEdge
      BY <3>1 DEF Larger
    <3> QED BY <3>2, ValuesSame
  <2> QED BY <1>1, <1>3, <2>1 DEF Out!PeerAcks
<1>6. Out!IInv'
  BY <1>3, <1>4, <1>5, OutAssumptions, Out!AckKeeps
<1>7. PICK k \in 0..Len(out_Noackqueue), gone \in 0..num_in_flight :
         /\ LeftEdge + gone <= a
         /\ \A i \in 1..Len(out_Noackqueue') :
               out_Noackqueue'[i] = out_Noackqueue[k + i]
         /\ out_Noackqueue' \in Seq(Out!Segments)
         /\ Len(out_Noackqueue') = Len(out_Noackqueue) - k
         /\ num_in_flight' = num_in_flight - gone
  <2> DEFINE ack  == Out!AbsoluteNo(raw)
             kk   == Out!AckedCount(ack)
             aa   == Out!SequenceNumbers(SubSeq(out_Noackqueue, 1, kk))
             rest == SubSeq(out_Noackqueue, kk + 1, Len(out_Noackqueue))
  <2>1. /\ kk \in 0..Len(out_Noackqueue) /\ aa \in 0..num_in_flight
        /\ Out!LeftEdge + aa <= ack
        /\ rest \in Seq(Out!Segments) /\ Len(rest) = Len(out_Noackqueue) - kk
        /\ \A i \in 1..Len(rest) : rest[i] = out_Noackqueue[kk + i]
        /\ out_Noackqueue' = rest
        /\ num_in_flight' = num_in_flight - aa
    BY <1>3, <1>4, <1>5, OutAssumptions, Out!AckIs
  <2>2. ack = a /\ Out!LeftEdge = LeftEdge
    BY <1>3 DEF Out!LeftEdge, LeftEdge
  <2> HIDE DEF ack, kk, aa, rest
  <2> QED BY <2>1, <2>2
<1>8. /\ isn_' = isn_ /\ Seqno' = Seqno /\ outbound' = outbound
      /\ out_Readyqueue' = out_Readyqueue /\ window_size_' = window
      /\ status_' = Out!StatusAfterAck(msg)
  BY <1>1, <1>3 DEF Out!receive, Out!Ack
<1>9. Sent' \subseteq Sent
  <2>1. out_Noackqueue \in Seq(Out!Segments)
    BY <1>4 DEF Out!IInv, Out!Types
  <2>2. /\ DOMAIN out_Noackqueue = 1..Len(out_Noackqueue)
        /\ Len(out_Noackqueue) \in Nat
        /\ DOMAIN out_Noackqueue' = 1..Len(out_Noackqueue')
    BY <1>7, <2>1, LenProperties
  <2>3. ASSUME NEW i \in DOMAIN out_Noackqueue'
        PROVE  k + i \in DOMAIN out_Noackqueue
               /\ out_Noackqueue'[i] = out_Noackqueue[k + i]
    <3> DEFINE l == Len(out_Noackqueue)
               m == Len(out_Noackqueue')
    <3>1. l \in Nat /\ k \in 0..l /\ m = l - k /\ i \in 1..m
      BY <1>7, <2>2
    <3> HIDE DEF l, m
    <3>2. k + i \in 1..l
      BY <3>1
    <3>3. out_Noackqueue'[i] = out_Noackqueue[k + i]
      BY <1>7, <3>1 DEF m
    <3> QED BY <2>2, <3>2, <3>3 DEF l
  <2> QED BY <1>8, <2>3 DEF Sent
<1>10. (FinSent => FinSent') /\ (SynSent => SynSent')
  BY <1>8 DEF Out!StatusAfterAck, FinSent, SynSent
<1>11. LeftEdge' <= AckNumber /\ LeftEdge' + window_size_' <= RightEdge
  <2>1. LeftEdge' = Seqno - (num_in_flight - gone)
        /\ LeftEdge = Seqno - num_in_flight
    BY <1>7, <1>8 DEF LeftEdge
  <2>2. Seqno - (num_in_flight - gone) = (Seqno - num_in_flight) + gone
    BY <1>4
  <2> DEFINE l == LeftEdge + gone
  <2>3. LeftEdge' = l /\ l <= a /\ l \in Int
    BY <1>4, <1>7, <2>1, <2>2
  <2> HIDE DEF l, LeftEdge, AckNumber, RightEdge
  <2>4. l <= AckNumber /\ l + window <= RightEdge
    BY <1>3, <1>4, <2>3
  <2> QED BY <1>8, <2>3, <2>4
<1>12. Last' = Last /\ Last <= Last' /\ Last' \in Nat
  BY <1>4, <1>8 DEF Last
<1>13. BagToSet(acks') \subseteq BagToSet(acks)
  BY NetworkFacts
<1> HIDE DEF Sent, Last, FinSent, SynSent, RightEdge, LeftEdge, AckNumber
<1> QED BY <1>6, <1>8, <1>9, <1>10, <1>11, <1>12, <1>13, SenderMoves

LEMMA AckArrivesKeeps ==
    ASSUME CInv, AckArrives
    PROVE  CInv'
<1>1. PICK msg \in BagToSet(acks) :
         /\ acks' = acks (-) One(msg)
         /\ Sender!receive(msg) \/ UNCHANGED senderVars
         /\ UNCHANGED <<receiverVars, segments>>
  BY DEF AckArrives
<1>2. BagToSet(acks') \subseteq BagToSet(acks)
  BY <1>1, NetworkFacts
<1> QED BY <1>1, <1>2, AckKeeps, NetworkKeeps
---------------------------------------------------------------------------
(* What the receiver's edges are computed from, now and after the next step. *)
InboundNow == In!Inbound(isn_, Last) /\ Last \in Nat
EdgesNow ==
    /\ AckNumber \in Nat /\ AvailableCapacity(inbound) \in Nat
    /\ AckNumber = re.byte_ready_
    /\ RightEdge = AckNumber + AvailableCapacity(inbound)
    /\ RightEdge = inbound.popped + InboundCapacity + Bit(SYN_flag)
                       + Bit(FIN_flag)
    /\ inbound.popped \in Nat /\ SYN_flag \in BOOLEAN /\ FIN_flag \in BOOLEAN
    /\ SYN_flag => ISN = isn_
    /\ AckNumber = BytesPushed(inbound) + Bit(SYN_flag) + Bit(FIN_flag)
    /\ BytesPushed(inbound) \in Nat

LEMMA EdgesAre == InboundNow => EdgesNow
BY ReceiverFacts DEF InboundNow, EdgesNow

LEMMA EdgesWillBe == InboundNow' => EdgesNow'
BY EdgesAre, PTL

(* send() says what is so.                                                   *)
LEMMA SendIsHonest ==
    EdgesNow /\ isn_ \in Wrap32 => Honest(Receiver!send, isn_, AckNumber, RightEdge)
<1> SUFFICES ASSUME EdgesNow, isn_ \in Wrap32
             PROVE  Honest(Receiver!send, isn_, AckNumber, RightEdge)
  OBVIOUS
<1> DEFINE room   == AvailableCapacity(inbound)
           window == Smaller(room, MaxWindow)
           pushed == BytesPushed(inbound)
           s == Bit(SYN_flag)
           f == Bit(FIN_flag)
<1>1. /\ room \in Nat /\ MaxWindow \in Nat /\ AckNumber \in Nat /\ pushed \in Nat
      /\ RightEdge = AckNumber + room /\ AckNumber = pushed + s + f
      /\ SYN_flag => ISN = isn_
  BY ConnectionAssumption DEF EdgesNow
<1>2. window \in 0..MaxWindow /\ window <= room
  <2> HIDE DEF room
  <2> QED BY <1>1 DEF Smaller
<1>3. Receiver!send = Ack(IF SYN_flag THEN Plus(Plus(Wrap(pushed, ISN), s), f)
                          ELSE NoAckno, window)
  BY ReceiverIs
<1>4. CASE ~SYN_flag
  <2>1. Receiver!send = Ack(NoAckno, window)
    BY <1>3, <1>4
  <2> HIDE DEF window
  <2> QED BY <1>2, <2>1 DEF Honest
<1>5. CASE SYN_flag
  <2>1. s \in Nat /\ f \in Nat
    BY Zenon, 0 \in Nat, 1 \in Nat DEF Bit
  <2> HIDE DEF s, f, pushed
  <2>2. \A x, k \in Nat : Plus(Wrap(x, isn_), k) = Wrap(x + k, isn_)
    <3> SUFFICES ASSUME NEW x \in Nat, NEW k \in Nat
                 PROVE  Plus(Wrap(x, isn_), k) = Wrap(x + k, isn_)
      OBVIOUS
    <3>1. isn_ \in In!Wrap32
      BY NumbersSame
    <3>2. In!Plus(In!Wrap(x, isn_), k) = In!Wrap(x + k, isn_)
      BY <3>1, InAssumptions, In!WrapOfSum
    <3> QED BY <3>2, NumbersSame
  <2>3. Plus(Wrap(pushed, isn_), s) = Wrap(pushed + s, isn_) /\ pushed + s \in Nat
    BY <1>1, <2>1, <2>2
  <2>4. Plus(Wrap(pushed + s, isn_), f) = Wrap(pushed + s + f, isn_)
    BY <2>1, <2>2, <2>3
  <2>5. Receiver!send = Ack(Wrap(AckNumber, isn_), window)
    BY <1>1, <1>3, <1>5, <2>3, <2>4, Zenon
  <2>6. AckNumber <= AckNumber /\ AckNumber + window <= RightEdge
    <3> DEFINE a == AckNumber
    <3>1. a \in Nat /\ room \in Nat /\ RightEdge = a + room
          /\ window \in Int /\ window <= room
      BY <1>1, <1>2
    <3> HIDE DEF a, room, window
    <3>2. a <= a /\ a + window <= RightEdge
      BY <3>1
    <3> QED BY <3>2 DEF a
  <2> HIDE DEF window
  <2> QED BY <1>1, <1>2, <2>5, <2>6 DEF Honest
<1> QED BY <1>4, <1>5

HonestNow == isn_ \in Wrap32 => Honest(Receiver!send, isn_, AckNumber, RightEdge)

LEMMA WillBeHonest == InboundNow' => HonestNow'
<1>1. InboundNow => HonestNow
  BY EdgesAre, SendIsHonest DEF HonestNow
<1> QED BY <1>1, PTL

(* A step of the receiver that writes to its stream or reads from it.        *)
LEMMA InboundMoves ==
    ASSUME CInv, UNCHANGED senderVars, In!Inbound(isn_, Last)',
           re.byte_ready_ <= re'.byte_ready_, inbound.popped <= inbound'.popped,
           SYN_flag => SYN_flag', FIN_flag => FIN_flag',
           BagToSet(segments') \subseteq BagToSet(segments),
           \A msg \in BagToSet(acks') :
               msg \in BagToSet(acks) \/ msg = Receiver!send',
           SYN_flag' => SynSent, In!EndSeen' => FinSent
    PROVE  CInv'
<1>1. /\ isn_' = isn_ /\ out_Noackqueue' = out_Noackqueue
      /\ out_Readyqueue' = out_Readyqueue /\ outbound' = outbound
  BY DEF senderVars
<1>2. Last' = Last
  BY <1>1 DEF Last
<1>3. In!Inbound(isn_, Last) /\ Last \in Nat /\ isn_ \in Wrap32
  BY SenderFacts DEF CInv
<1>4. InboundNow /\ InboundNow'
  <2>1. Last' \in Nat
    BY <1>2, <1>3
  <2> HIDE DEF Last
  <2> QED BY <1>3, <2>1 DEF InboundNow
<1>5. EdgesNow /\ EdgesNow' /\ HonestNow'
  BY <1>4, EdgesAre, EdgesWillBe, WillBeHonest
<1>6. AckNumber' \in Nat /\ AvailableCapacity(inbound)' \in Nat
      /\ AckNumber \in Nat
  <2> HIDE DEF AckNumber, AvailableCapacity
  <2> QED BY <1>5 DEF EdgesNow
<1>7. AckNumber <= AckNumber'
  <2> HIDE DEF AckNumber
  <2> QED BY <1>5 DEF EdgesNow
<1>8. RightEdge <= RightEdge'
  <2>1. /\ inbound.popped \in Nat /\ inbound'.popped \in Nat
        /\ SYN_flag \in BOOLEAN /\ FIN_flag \in BOOLEAN
        /\ SYN_flag' \in BOOLEAN /\ FIN_flag' \in BOOLEAN
        /\ RightEdge = inbound.popped + InboundCapacity + Bit(SYN_flag) + Bit(FIN_flag)
        /\ RightEdge' = inbound'.popped + InboundCapacity + Bit(SYN_flag')
                            + Bit(FIN_flag')
    <3> HIDE DEF RightEdge
    <3> QED BY <1>5 DEF EdgesNow, Bit
  <2> DEFINE s1 == Bit(SYN_flag)
             f1 == Bit(FIN_flag)
             s2 == Bit(SYN_flag')
             f2 == Bit(FIN_flag')
             p  == inbound.popped
             q  == inbound'.popped
             c  == InboundCapacity
  <2>2. /\ s1 \in Nat /\ f1 \in Nat /\ s2 \in Nat /\ f2 \in Nat
        /\ s1 <= s2 /\ f1 <= f2
    BY DEF Bit
  <2>3. /\ p \in Nat /\ q \in Nat /\ p <= q /\ c \in Nat
        /\ RightEdge = p + c + s1 + f1 /\ RightEdge' = q + c + s2 + f2
    BY <2>1, ConnectionAssumption
  <2> HIDE DEF s1, f1, s2, f2, p, q, c, RightEdge
  <2> QED BY <2>2, <2>3
<1>9. \A msg \in BagToSet(acks') : msg \in BagToSet(acks)
               \/ Honest(msg, isn_, AckNumber', RightEdge')
  <2>1. Honest(Receiver!send', isn_', AckNumber', RightEdge')
    <3>1. isn_' \in Wrap32
      BY <1>1, <1>3
    <3> HIDE DEF AckNumber, RightEdge, Honest, Wrap32
    <3> QED BY <1>5, <3>1 DEF HonestNow
  <2> HIDE DEF AckNumber, RightEdge, Honest
  <2> QED BY <1>1, <2>1
<1>10. Sent' \subseteq Sent
  BY <1>1 DEF Sent
<1> HIDE DEF Sent, Last, FinSent, SynSent, RightEdge, AckNumber, AvailableCapacity
<1> QED BY <1>6, <1>7, <1>8, <1>9, <1>10, ReceiverMoves
(* unwrap() finds the place of a segment of the stream, however old.         *)
LEMMA SegmentIsPlaced ==
    ASSUME NEW isn \in Wrap32, NEW last \in Nat, In!Inbound(isn, last),
           last <= StreamLen + 1,
           NEW p \in Nat, NEW n \in Nat, p <= last
    PROVE  In!Placed(p, n, isn)
<1> DEFINE h == Base \div 2
           w == Word \div 2
<1>1. h \in Nat /\ w \in Nat /\ 2 * h <= w /\ StreamLen \in Nat /\ StreamLen + 2 < h
      /\ 2 * h = Base
  BY HalfLap, LapAssumption
<1>2. checkpoint \in Nat /\ checkpoint <= last
  <2>1. /\ checkpoint = BytesPushed(inbound) /\ BytesPushed(inbound) \in Nat
        /\ SYN_flag \in BOOLEAN /\ FIN_flag \in BOOLEAN
        /\ AckNumber = BytesPushed(inbound) + Bit(SYN_flag) + Bit(FIN_flag)
        /\ ~SYN_flag => AckNumber = 0
        /\ FIN_flag => BytesPushed(inbound) + 1 = last
        /\ SYN_flag /\ ~FIN_flag => AckNumber <= last
        /\ ~SYN_flag => BytesPushed(inbound) = 0
    BY ReceiverFacts
  <2>2. Bit(SYN_flag) \in Nat /\ Bit(FIN_flag) \in Nat
    BY DEF Bit
  <2> DEFINE s == Bit(SYN_flag)
             f == Bit(FIN_flag)
             c == BytesPushed(inbound)
  <2>3. /\ s \in Nat /\ f \in Nat /\ c \in Nat /\ checkpoint = c
        /\ AckNumber = c + s + f
    BY <2>1, <2>2
  <2> HIDE DEF s, f, c, AckNumber
  <2> QED BY <2>1, <2>3 DEF c
<1>3. /\ isn \in In!Wrap32
      /\ checkpoint < w /\ checkpoint - p < h /\ p - checkpoint <= h
      /\ p - checkpoint # h
  <2>1. isn \in In!Wrap32
    BY NumbersSame
  <2> HIDE DEF h, w
  <2>2. /\ checkpoint < w /\ checkpoint - p < h /\ p - checkpoint <= h
        /\ p - checkpoint # h
    BY <1>1, <1>2
  <2> QED BY <2>1, <2>2
<1>4. LET u == In!Unwrap(In!Wrap(p, isn), isn, checkpoint)
      IN  \/ u = p
          \/ u \in Nat /\ u + Base = p /\ p = checkpoint + h
  BY <1>2, <1>3, InAssumptions, In!UnwrapNearby
<1>5. p # checkpoint + h
  <2> HIDE DEF h
  <2> QED BY <1>1, <1>2, <1>3
<1>6. In!Unwrap(In!Wrap(p, isn), isn, checkpoint) = p
  BY <1>4, <1>5
<1> QED BY <1>6 DEF In!Placed

(* receive() with a segment of the stream, the first time or again.          *)
LEMMA SegmentIsReceived ==
    ASSUME NEW isn \in Wrap32, NEW last \in Nat \ {0}, In!Inbound(isn, last),
           last <= StreamLen + 1,
           NEW msg, NEW fin2 \in BOOLEAN, Genuine(msg, isn, last, fin2, RightEdge),
           Receiver!receive(msg)
    PROVE  /\ In!Inbound(isn, last)'
           /\ inbound'.popped = inbound.popped
           /\ BytesPushed(inbound) <= BytesPushed(inbound')
           /\ re.byte_ready_ <= re'.byte_ready_
           /\ SYN_flag => SYN_flag'
           /\ FIN_flag => FIN_flag'
           /\ In!EndSeen' => In!EndSeen \/ fin2
<1>1. PICK p \in Nat, n \in Nat : Cut(msg, p, n, isn, last, fin2, RightEdge)
  BY DEF Genuine
<1> DEFINE fin == msg.FIN
<1>2. /\ msg = Segment(Wrap(p, isn), p = 0, Bytes(Larger(p, 1), n), fin)
      /\ fin \in BOOLEAN
      /\ p = 0 => n = 0
      /\ Larger(p, 1) + n <= last
      /\ fin => fin2 /\ Larger(p, 1) + n = last
      /\ fin /\ n > 0 => last <= RightEdge
  BY <1>1, Zenon DEF Cut
<1>3. RightEdge = In!Edge(re, inbound) /\ re.byte_ready_ \in Nat
  BY ReceiverFacts
<1>4. last <= Word \div 2
  <2> DEFINE h == Base \div 2
             w == Word \div 2
  <2>1. h \in Nat /\ w \in Nat /\ 2 * h <= w /\ StreamLen \in Nat
        /\ StreamLen + 2 < h
    BY HalfLap, LapAssumption
  <2> HIDE DEF h, w
  <2>2. last <= w
    BY <2>1
  <2> QED BY <2>2 DEF w
<1>5. p <= last
  BY <1>2 DEF Larger
<1>6. In!Placed(p, n, isn) /\ isn \in In!Wrap32
  BY <1>5, SegmentIsPlaced, NumbersSame
<1>7. In!receive(In!Segment(In!Wrap(p, isn), p = 0,
                            In!Bytes(In!Larger(p, 1), n), fin))
  <2>1. Larger(p, 1) \in Nat
    BY DEF Larger
  <2>2. Bytes(Larger(p, 1), n) = In!Bytes(Larger(p, 1), n)
    BY SameBytes
  <2>3. In!receive(msg)
    BY ReceiverIs
  <2> HIDE DEF fin, Bytes
  <2> QED BY <1>2, <2>2, <2>3, ValuesSame, NumbersSame, Zenon
<1>8. /\ In!Larger(p, 1) + n <= last
      /\ fin => /\ In!Larger(p, 1) + n = last
                /\ last <= In!Edge(re, inbound) \/ n = 0
  <2> HIDE DEF fin
  <2> QED BY <1>2, <1>3, ValuesSame
<1> HIDE DEF fin
<1>9. In!Received(p, n, fin, isn, last)
  BY <1>2, <1>4, <1>6, <1>7, <1>8, InAssumptions, In!ReceiveIs
<1>10. BytesPushed(inbound) <= BytesPushed(inbound')
  <2>1. In!BytesPushed(inbound') >= In!BytesPushed(inbound)
    BY <1>9 DEF In!Received
  <2> QED BY <2>1, ValuesSame
<1> QED BY <1>2, <1>9, <1>10 DEF In!Received

LEMMA SegmentArrivesKeeps ==
    ASSUME CInv, SegmentArrives
    PROVE  CInv'
<1>1. PICK msg \in BagToSet(segments) :
         /\ segments' = segments (-) One(msg)
         /\ Receiver!receive(msg)
         /\ acks' = acks (+) One(Receiver!send')
         /\ UNCHANGED senderVars
  BY DEF SegmentArrives
<1>2. /\ Out!IInv /\ In!Inbound(isn_, Last) /\ Messages /\ InStep
  BY DEF CInv
<1>3. SynSent /\ Genuine(msg, isn_, Last, FinSent, RightEdge)
  BY <1>2 DEF Messages, Sent, TrueSegment
<1>4. isn_ \in Wrap32 /\ Last \in Nat \ {0} /\ Last <= StreamLen + 1
      /\ FinSent \in BOOLEAN
  BY <1>2, SenderFacts
<1>5. PICK isn \in Wrap32, last \in Nat \ {0}, fin2 \in BOOLEAN :
         isn = isn_ /\ last = Last /\ fin2 = FinSent
  BY <1>4
<1>6. /\ In!Inbound(isn, last)'
      /\ inbound'.popped = inbound.popped
      /\ re.byte_ready_ <= re'.byte_ready_
      /\ SYN_flag => SYN_flag'
      /\ FIN_flag => FIN_flag'
      /\ In!EndSeen' => In!EndSeen \/ fin2
  <2>1. In!Inbound(isn, last) /\ Genuine(msg, isn, last, fin2, RightEdge)
        /\ last <= StreamLen + 1
    BY <1>2, <1>3, <1>4, <1>5
  <2> QED BY <1>1, <2>1, SegmentIsReceived
<1>7. In!Inbound(isn_, Last)'
  <2>1. isn_' = isn /\ Last' = last
    BY <1>1, <1>5 DEF senderVars, Last
  <2> HIDE DEF Last
  <2> QED BY <1>6, <2>1 DEF In!Inbound, In!Listening, In!Open, In!Ended
<1>8. BagToSet(segments') \subseteq BagToSet(segments)
      /\ BagToSet(acks') = BagToSet(acks) \cup {Receiver!send'}
  BY <1>1, NetworkFacts
<1>9. inbound.popped <= inbound'.popped
  <2>1. inbound.popped \in Nat
    BY <1>2, <1>4, ReceiverFacts
  <2> QED BY <1>6, <2>1
<1>10. (SYN_flag' => SynSent) /\ (In!EndSeen' => FinSent)
  BY <1>2, <1>3, <1>5, <1>6 DEF InStep
<1> HIDE DEF SynSent, FinSent, Last
<1> QED BY <1>1, <1>6, <1>7, <1>8, <1>9, <1>10, InboundMoves

LEMMA ReadKeeps ==
    ASSUME CInv, AppReads
    PROVE  CInv'
<1>1. Receiver!ReadInbound(1) /\ UNCHANGED senderVars
      /\ segments' = segments /\ acks' = acks
  BY DEF AppReads, networkVars
<1>2. /\ Out!IInv /\ In!Inbound(isn_, Last) /\ InStep
  BY DEF CInv
<1>3. isn_ \in Wrap32 /\ Last \in Nat
  BY <1>2, SenderFacts
<1>4. PICK isn \in Wrap32, last \in Nat : isn = isn_ /\ last = Last
  BY <1>3
<1>5. /\ In!Inbound(isn, last)'
      /\ inbound'.popped = inbound.popped + In!Smaller(1, Len(inbound.queue))
      /\ re' = re /\ SYN_flag' = SYN_flag /\ FIN_flag' = FIN_flag
      /\ (In!EndSeen' <=> In!EndSeen)
  <2>1. In!ReadInbound(1) /\ 1 \in Nat
    BY <1>1, ReceiverIs
  <2>2. In!Inbound(isn, last)
    BY <1>2, <1>4
  <2> QED BY <2>1, <2>2, InAssumptions, In!ReadIs
<1>6. In!Inbound(isn_, Last)'
  <2>1. isn_' = isn /\ Last' = last
    BY <1>1, <1>4 DEF senderVars, Last
  <2> HIDE DEF Last
  <2> QED BY <1>5, <2>1 DEF In!Inbound, In!Listening, In!Open, In!Ended
<1>7. inbound.popped <= inbound'.popped /\ re.byte_ready_ <= re'.byte_ready_
  <2>1. inbound.popped \in Nat /\ Len(inbound.queue) \in Nat /\ AckNumber \in Nat
        /\ AckNumber = re.byte_ready_
    BY <1>2, <1>3, ReceiverFacts
  <2>2. In!Smaller(1, Len(inbound.queue)) \in Nat
    BY <2>1 DEF In!Smaller
  <2> HIDE DEF AckNumber
  <2> QED BY <1>5, <2>1, <2>2
<1>8. (SYN_flag' => SynSent) /\ (In!EndSeen' => FinSent)
  BY <1>2, <1>5 DEF InStep
<1> HIDE DEF SynSent, FinSent, Last
<1> QED BY <1>1, <1>5, <1>6, <1>7, <1>8, InboundMoves

LEMMA UpdateKeeps ==
    ASSUME CInv, ReceiverUpdatesWindow
    PROVE  CInv'
<1>1. /\ acks' = acks (+) One(Receiver!send) /\ UNCHANGED senderVars
      /\ UNCHANGED receiverVars /\ segments' = segments
  BY DEF ReceiverUpdatesWindow
<1>2. /\ Out!IInv /\ In!Inbound(isn_, Last) /\ InStep
  BY DEF CInv
<1>3. UNCHANGED <<ISN, SYN_flag, FIN_flag, checkpoint, re, inbound>>
      /\ UNCHANGED <<isn_, outbound>>
  BY <1>1 DEF receiverVars, senderVars
<1>4. BagToSet(acks') = BagToSet(acks) \cup {Receiver!send}
  BY <1>1, NetworkFacts
<1>5. Receiver!send' = Receiver!send
  BY <1>3 DEF Receiver!send, Receiver!Ackno, Receiver!Window
<1>6. In!Inbound(isn_, Last)'
  <2>1. Last' = Last
    BY <1>3 DEF Last
  <2> HIDE DEF Last
  <2> QED BY <1>2, <1>3, <2>1 DEF In!Inbound, In!Listening, In!Open, In!Ended
<1>7. inbound.popped <= inbound'.popped /\ re.byte_ready_ <= re'.byte_ready_
  <2>1. inbound.popped \in Nat /\ AckNumber \in Nat /\ AckNumber = re.byte_ready_
    BY <1>2, SenderFacts, ReceiverFacts
  <2> HIDE DEF AckNumber
  <2> QED BY <1>3, <2>1
<1>8. In!EndSeen' <=> In!EndSeen
  BY <1>3 DEF In!EndSeen
<1>9. (SYN_flag' => SynSent) /\ (In!EndSeen' => FinSent)
  BY <1>2, <1>3, <1>8 DEF InStep
<1> HIDE DEF SynSent, FinSent, Last
<1> QED BY <1>1, <1>3, <1>4, <1>5, <1>6, <1>7, <1>9, InboundMoves

LEMMA NetworkMoves ==
    ASSUME CInv, Lose \/ Duplicate
    PROVE  CInv'
<1>1. UNCHANGED <<senderVars, receiverVars>>
  BY DEF Lose, Duplicate
<1>2. BagToSet(segments') \subseteq BagToSet(segments)
      /\ BagToSet(acks') \subseteq BagToSet(acks)
  <2>1. CASE Lose
    BY <2>1, NetworkFacts DEF Lose
  <2>2. CASE Duplicate
    BY <2>2, NetworkFacts DEF Duplicate
  <2> QED BY <2>1, <2>2
<1> QED BY <1>1, <1>2, NetworkKeeps
---------------------------------------------------------------------------
LEMMA ConnectionStarts == Init => CInv
<1> SUFFICES ASSUME Init PROVE CInv
  OBVIOUS
<1>1. /\ Sender!SenderInit /\ Receiver!ReceiverInit
      /\ segments = EmptyBag /\ acks = EmptyBag
  BY DEF Init
<1>2. Out!SenderInit /\ In!ReceiverInit
  BY <1>1, SenderIs, ReceiverIs
<1>3. /\ Seqno = 0 /\ num_in_flight = 0 /\ window_size_ = 1
      /\ out_Noackqueue = <<>> /\ out_Readyqueue = <<>>
      /\ outbound.popped = 0
  BY <1>2 DEF Out!SenderInit, Out!NewStream
<1>4. /\ SYN_flag = FALSE /\ FIN_flag = FALSE /\ ISN = 0 /\ checkpoint = 0
      /\ re = In!NewReassembler /\ inbound = In!NewStream(InboundCapacity)
  BY <1>2 DEF In!ReceiverInit
<1>5. /\ inbound.capacity = InboundCapacity /\ inbound.error = FALSE
      /\ inbound.queue = <<>> /\ inbound.popped = 0
  BY <1>4 DEF In!NewStream
<1>6. Len(inbound.queue) = 0
  BY <1>5, EmptySeq
<1>7. /\ BytesPushed(inbound) = 0 /\ In!BytesPushed(inbound) = 0
      /\ AvailableCapacity(inbound) = InboundCapacity
  BY <1>5, <1>6, ConnectionAssumption
     DEF BytesPushed, In!BytesPushed, AvailableCapacity
<1>8. In!Inbound(isn_, Last)
  BY <1>4, <1>5, <1>7 DEF In!Inbound, In!Listening
<1>9. AckNumber = 0
  BY <1>4, <1>7 DEF AckNumber, Bit
<1>10. RightEdge = InboundCapacity /\ AckEdge \in Nat /\ AckEdge >= 2
  BY <1>7, <1>9, ConnectionAssumption DEF RightEdge, AckEdge, Larger
<1>11. Out!IInv
  BY <1>2, <1>10, OutAssumptions, Out!StartHolds
<1>12. Sent = {} /\ BagToSet(acks) = {}
  <2>1. DOMAIN (<<>>) = {}
    BY EmptySeq
  <2> QED BY <1>1, <1>3, <2>1, NetworkFacts DEF Sent
<1>13. LeftEdge = 0
  BY <1>3 DEF LeftEdge
<1>14. InStep
  <2>1. 0 + 1 <= InboundCapacity
    BY ConnectionAssumption
  <2> QED BY <1>3, <1>4, <1>9, <1>10, <1>13, <2>1 DEF InStep, In!EndSeen
<1> QED BY <1>8, <1>11, <1>12, <1>14 DEF CInv, Messages

LEMMA ConnectionKeeps == CInv /\ [Next]_vars => CInv'
<1> SUFFICES ASSUME CInv, [Next]_vars PROVE CInv'
  OBVIOUS
<1>1. CASE Next
  <2>1. CASE \E n \in 1..2 : AppWrites(n)
    BY <2>1, WriteKeeps
  <2>2. CASE AppCloses
    BY <2>2, CloseKeeps
  <2>3. CASE OwnerPushes
    BY <2>3, PushKeeps
  <2>4. CASE OwnerSends
    BY <2>4, SendKeeps
  <2>5. CASE TimePasses
    BY <2>5, TickKeeps
  <2>6. CASE AckArrives
    BY <2>6, AckArrivesKeeps
  <2>7. CASE SegmentArrives
    BY <2>7, SegmentArrivesKeeps
  <2>8. CASE ReceiverUpdatesWindow
    BY <2>8, UpdateKeeps
  <2>9. CASE AppReads
    BY <2>9, ReadKeeps
  <2>10. CASE Lose \/ Duplicate
    BY <2>10, NetworkMoves
  <2> QED BY <1>1, <2>1, <2>2, <2>3, <2>4, <2>5, <2>6, <2>7, <2>8, <2>9, <2>10
     DEF Next, HostsNext
<1>2. CASE UNCHANGED vars
  <2>1. /\ UNCHANGED <<senderVars, receiverVars>>
        /\ segments' = segments /\ acks' = acks
    BY <1>2 DEF vars, networkVars
  <2> QED BY <2>1, NetworkKeeps
<1> QED BY <1>1, <1>2

(* What holds of a connection between any two calls, whatever the network    *)
(* did: the ends' own invariants, what the messages under way say, and that  *)
(* neither end is ahead of the other.                                        *)
THEOREM ConnectionIsInvariant == Spec => []CInv
BY ConnectionStarts, ConnectionKeeps, PTL DEF Spec
---------------------------------------------------------------------------
(* The sender recovers the place of every number up to Seqno.                *)
LEMMA NumberRecovered ==
    ASSUME CInv, NEW p \in Nat, p <= Seqno
    PROVE  Sender!AbsoluteNo(Wrap(p, isn_)) = p
<1>1. isn_ \in Wrap32 /\ Seqno \in Nat /\ Seqno <= StreamLen + 2
  BY SenderFacts DEF CInv
<1> DEFINE h == Base \div 2
           w == Word \div 2
<1>2. h \in Nat /\ w \in Nat /\ 2 * h <= w /\ StreamLen \in Nat
      /\ StreamLen + 2 < h
  BY HalfLap, LapAssumption
<1>3. Seqno < w /\ Seqno - p < h /\ p <= Seqno
  <2> HIDE DEF h, w
  <2> QED BY <1>1, <1>2
<1>4. isn_ \in Out!Wrap32
  BY <1>1, NumbersSame
<1>5. Out!Unwrap(Out!Wrap(p, isn_), isn_, Seqno) = p
  BY <1>1, <1>3, <1>4, OutAssumptions, Out!UnwrapRecovers
<1> QED BY <1>5, SenderNumbers, NumbersSame

(* No acknowledgement under way, however old, acknowledges more than the     *)
(* receiver has now, and the receiver has no more than was sent.             *)
LEMMA AgreementHolds == CInv => EndsAgree
<1> SUFFICES ASSUME CInv PROVE EndsAgree
  OBVIOUS
<1>1. /\ Out!IInv /\ In!Inbound(isn_, Last) /\ Messages
      /\ LeftEdge <= AckNumber /\ AckNumber <= Seqno
  BY NeitherIsAhead
<1>2. Seqno \in Nat /\ AckNumber \in Nat
  BY <1>1, SenderFacts, ReceiverFacts
<1>3. ASSUME NEW msg \in BagToSet(acks), msg.ackno # NoAckno
      PROVE  Sender!AbsoluteNo(msg.ackno) <= AckNumber
  <2>1. PICK window \in 0..MaxWindow :
           \/ msg = Ack(NoAckno, window)
           \/ \E a \in Nat : /\ msg = Ack(Wrap(a, isn_), window)
                             /\ a <= AckNumber /\ a + window <= RightEdge
    BY <1>1 DEF Messages, TrueAck, Honest
  <2>2. PICK a \in Nat : msg = Ack(Wrap(a, isn_), window) /\ a <= AckNumber
    BY <1>3, <2>1 DEF Ack
  <2> HIDE DEF AckNumber
  <2>3. msg.ackno = Wrap(a, isn_) /\ a <= Seqno
    BY <1>1, <1>2, <2>2 DEF Ack
  <2> QED BY <2>2, <2>3, NumberRecovered
<1> QED BY <1>1, <1>3 DEF EndsAgree

(* With room for two bytes or more, what the sender has used fits what the   *)
(* receiver has room for; with room for one byte, a SYN that carries the FIN *)
(* of an empty stream is one number too long.                                *)
LEMMA RoomHolds == CInv /\ InboundCapacity >= 2 => SentFitsRoom
<1> SUFFICES ASSUME CInv, InboundCapacity >= 2 PROVE SentFitsRoom
  OBVIOUS
<1>1. Out!IInv /\ In!Inbound(isn_, Last) /\ Seqno <= AckEdge
  BY NeitherIsAhead
<1>2. Seqno \in Nat /\ Last \in Nat
  BY <1>1, SenderFacts
<1> DEFINE s == Bit(SYN_flag)
           f == Bit(FIN_flag)
           p == inbound.popped
           a == AckNumber
           r == RightEdge
           c == AvailableCapacity(inbound)
<1>3. /\ a \in Nat /\ r \in Nat /\ c \in Nat /\ p \in Nat /\ r = a + c
      /\ r = p + InboundCapacity + s + f
      /\ AckEdge = Larger(2, Larger(r, a + 1))
  BY <1>1, <1>2, ReceiverFacts
<1>4. s \in Nat /\ f \in Nat /\ InboundCapacity \in Nat
  BY ConnectionAssumption DEF Bit
<1> HIDE DEF s, f, p, a, r, c
<1>5. Seqno <= a + Larger(c, 1)
  BY <1>1, <1>2, <1>3, <1>4 DEF Larger
<1> QED BY <1>5 DEF SentFitsRoom, a, c

(* A segment with the FIN and payload ends where the stream does, which is   *)
(* within the room the receiver has.                                         *)
LEMMA EndFits == CInv => EndFitsWindow
<1> SUFFICES ASSUME CInv, NEW msg \in BagToSet(segments),
                    msg.FIN, msg.payload # <<>>
             PROVE  Sender!AbsoluteNo(msg.seqno) + Len(msg.payload)
                        <= AckNumber + AvailableCapacity(inbound)
  BY DEF EndFitsWindow
<1>1. Out!IInv /\ In!Inbound(isn_, Last) /\ Messages
  BY DEF CInv
<1>2. SynSent /\ Genuine(msg, isn_, Last, FinSent, RightEdge)
  BY <1>1 DEF Messages, Sent, TrueSegment
<1>3. PICK p \in Nat, n \in Nat : Cut(msg, p, n, isn_, Last, FinSent, RightEdge)
  BY <1>2 DEF Genuine
<1>4. /\ msg = Segment(Wrap(p, isn_), p = 0, Bytes(Larger(p, 1), n), msg.FIN)
      /\ p = 0 => n = 0
      /\ Larger(p, 1) + n = Last
      /\ n > 0 => Last <= RightEdge
  BY <1>3, Zenon DEF Cut
<1>5. msg.seqno = Wrap(p, isn_) /\ msg.payload = Bytes(Larger(p, 1), n)
  <2> DEFINE fin == msg.FIN
  <2>1. msg = Segment(Wrap(p, isn_), p = 0, Bytes(Larger(p, 1), n), fin)
    BY <1>4
  <2> HIDE DEF fin
  <2> QED BY <2>1 DEF Segment
<1>6. Larger(p, 1) \in Nat
  BY DEF Larger
<1>7. Len(msg.payload) = n /\ n > 0
  <2>1. Bytes(Larger(p, 1), n) \in Seq(Nat) /\ Len(Bytes(Larger(p, 1), n)) = n
    BY <1>6, BytesAre
  <2>2. n # 0
    BY <1>5, <2>1, EmptySeq
  <2> QED BY <1>5, <2>1, <2>2
<1>8. Seqno \in Nat /\ Last \in Nat /\ Seqno = Last + Bit(FinSent)
      /\ Bit(FinSent) \in Nat /\ RightEdge \in Nat
  <2>1. Bit(FinSent) \in Nat
    BY DEF Bit
  <2> QED BY <1>1, <1>2, <2>1, SenderFacts, ReceiverFacts
<1>9. p <= Seqno /\ p + n = Last
  <2> DEFINE f == Bit(FinSent)
             q == Last
  <2>1. /\ Seqno = q + f /\ f \in Nat /\ q \in Nat /\ (p = 0 => n = 0) /\ n > 0
        /\ Larger(p, 1) + n = q
    BY <1>4, <1>7, <1>8
  <2> HIDE DEF f, q
  <2>2. p <= Seqno /\ p + n = q
    BY <2>1 DEF Larger
  <2> QED BY <2>2 DEF q
<1>10. Sender!AbsoluteNo(msg.seqno) = p
  BY <1>5, <1>9, NumberRecovered
<1> QED BY <1>4, <1>7, <1>9, <1>10 DEF RightEdge
---------------------------------------------------------------------------
(* When the sender has finished nothing is outstanding, so that the receiver *)
(* has acknowledged all numbers, the FIN's included.                         *)
LEMMA FinishHolds == CInv => FinishedMeansDelivered
<1> SUFFICES ASSUME CInv, status_ = "FINISH"
             PROVE  FIN_flag /\ BytesPushed(inbound) = BytesPushed(outbound)
  BY DEF FinishedMeansDelivered
<1>1. /\ Out!IInv /\ In!Inbound(isn_, Last)
      /\ LeftEdge <= AckNumber /\ AckNumber <= Seqno
      /\ FIN_flag => BytesPushed(inbound) = BytesPopped(outbound)
  BY NeitherIsAhead
<1>2. out_Noackqueue = <<>>
  BY <1>1 DEF Out!IInv, Out!StatusMatchesOutstanding
<1>3. num_in_flight = 0
  BY <1>1, <1>2, OutAssumptions, Out!NumbersOfNone DEF Out!IInv, Out!Tiled
<1>4. FinSent /\ SynSent
  BY DEF FinSent, SynSent
<1>5. /\ Seqno \in Nat /\ Last \in Nat /\ Seqno = Last + 1
      /\ outbound.queue = <<>> /\ outbound.popped \in Nat
  BY <1>1, <1>4, SenderFacts DEF Bit
<1>6. /\ AckNumber \in Nat /\ SYN_flag \in BOOLEAN /\ FIN_flag \in BOOLEAN
      /\ ~SYN_flag => AckNumber = 0
      /\ SYN_flag /\ ~FIN_flag => AckNumber <= Last
  BY <1>1, <1>5, ReceiverFacts
<1>7. LeftEdge = Seqno
  BY <1>3, <1>5 DEF LeftEdge
<1>8. FIN_flag
  <2> HIDE DEF AckNumber, Last, LeftEdge
  <2> QED BY <1>1, <1>5, <1>6, <1>7
<1>9. BytesPushed(outbound) = BytesPopped(outbound)
  <2>1. Len(outbound.queue) = 0
    BY <1>5, EmptySeq
  <2> QED BY <1>5, <2>1 DEF BytesPushed, BytesPopped
<1> QED BY <1>1, <1>8, <1>9

(* Never do the two ends of a connection contradict one another: what the    *)
(* sender has forgotten the receiver has acknowledged, what the receiver     *)
(* acknowledges was sent, and an old acknowledgement says nothing new.       *)
THEOREM EndsAlwaysAgree == Spec => []EndsAgree
BY ConnectionIsInvariant, AgreementHolds, PTL

(* A receiver with room for two bytes or more never meets a segment beyond   *)
(* its room, but for the one-byte probe of a closed window.                  *)
THEOREM SentAlwaysFits == InboundCapacity >= 2 => (Spec => []SentFitsRoom)
<1> SUFFICES ASSUME InboundCapacity >= 2 PROVE Spec => []SentFitsRoom
  OBVIOUS
<1>1. CInv => SentFitsRoom
  BY RoomHolds
<1> QED BY <1>1, ConnectionIsInvariant, PTL

(* TCPSender::push() never cuts, and no loss, delay or repetition ever       *)
(* brings, a last segment that the Reassembler would close its stream for    *)
(* too early.                                                                *)
THEOREM EndAlwaysFits == Spec => []EndFitsWindow
BY ConnectionIsInvariant, EndFits, PTL

(* A TCPSender in state FINISH can be forgotten: the peer has every byte and *)
(* the end of the stream.                                                    *)
THEOREM FinishedIsDelivered == Spec => []FinishedMeansDelivered
BY ConnectionIsInvariant, FinishHolds, PTL
---------------------------------------------------------------------------
LEMMA StreamsAre == CInv => StreamsNow
<1> SUFFICES ASSUME CInv PROVE StreamsNow
  OBVIOUS
<1>1. /\ Out!IInv /\ In!Inbound(isn_, Last)
      /\ FIN_flag => FinSent
      /\ FIN_flag => BytesPushed(inbound) = BytesPopped(outbound)
  BY NeitherIsAhead
<1>2. /\ outbound.popped \in Nat /\ Len(outbound.queue) \in Nat
      /\ outbound.popped + Len(outbound.queue) <= StreamLen
      /\ Last = outbound.popped + 1
      /\ FinSent => outbound.closed /\ outbound.queue = <<>>
  BY <1>1, SenderFacts
<1>3. Written = outbound.popped + Len(outbound.queue)
      /\ BytesPopped(outbound) = outbound.popped
  BY DEF Written, BytesPushed, BytesPopped
<1>4. /\ Arrived \in Nat /\ Arrived = inbound.popped + Len(inbound.queue)
      /\ inbound.popped \in Nat /\ Len(inbound.queue) \in Nat
      /\ SYN_flag \in BOOLEAN /\ FIN_flag \in BOOLEAN /\ AckNumber \in Nat
      /\ AckNumber = Arrived + Bit(SYN_flag) + Bit(FIN_flag)
      /\ ~SYN_flag => Arrived = 0
      /\ FIN_flag => SYN_flag /\ Arrived + 1 = Last
      /\ SYN_flag /\ ~FIN_flag => AckNumber <= Last
      /\ inbound.closed <=> FIN_flag
      /\ inbound.queue = Bytes(1 + inbound.popped, Len(inbound.queue))
  <2>1. Last \in Nat
    BY <1>2
  <2> QED BY <1>1, <2>1, ReceiverFacts DEF Arrived
<1>5. inbound.closed \in BOOLEAN
  <2>1. Last \in Nat
    BY <1>1, SenderFacts
  <2>2. inbound \in In!Streams
    BY <1>1, <2>1, InAssumptions, In!InboundFacts
  <2> QED BY <2>2 DEF In!Streams
<1>6. Arrived <= Written
  <2>1. SYN_flag /\ ~FIN_flag => AckNumber = Arrived + 1
    BY <1>4 DEF Bit
  <2> HIDE DEF Arrived, Written, AckNumber, Last
  <2> QED BY <1>2, <1>3, <1>4, <2>1
<1>7. FIN_flag => outbound.closed /\ Arrived = Written
  <2>1. FIN_flag => Len(outbound.queue) = 0
    BY <1>1, <1>2, EmptySeq
  <2>2. FIN_flag => Arrived = outbound.popped
    BY <1>1, <1>3 DEF Arrived
  <2> HIDE DEF Arrived, Written
  <2> QED BY <1>1, <1>2, <1>3, <2>1, <2>2
<1>8. FirstBytes(inbound.popped) \o inbound.queue = FirstBytes(Arrived)
  <2> DEFINE p == inbound.popped
             l == Len(inbound.queue)
             u == FirstBytes(p)
             v == Bytes(1 + p, l)
             t == FirstBytes(Arrived)
  <2>1. /\ u \in Seq(Nat) /\ Len(u) = p /\ \A i \in 1..p : u[i] = i
        /\ t \in Seq(Nat) /\ Len(t) = p + l /\ \A i \in 1..(p + l) : t[i] = i
        /\ p \in Nat /\ l \in Nat
    BY <1>4, FirstBytesAre
  <2> HIDE DEF p, l, u, t
  <2>2. v \in Seq(Nat) /\ Len(v) = l /\ \A i \in 1..l : v[i] = p + i
    <3>1. 1 + p \in Nat /\ \A i \in 1..l : (1 + p) + i - 1 = p + i
      BY <2>1
    <3> QED BY <2>1, <3>1, BytesAre
  <2> HIDE DEF v
  <2>3. /\ u \o v \in Seq(Nat) /\ Len(u \o v) = p + l
        /\ \A i \in 1..(p + l) : (u \o v)[i] = IF i <= p THEN u[i] ELSE v[i - p]
    <3>1. u \in Seq(Nat) /\ v \in Seq(Nat)
      BY <2>1, <2>2
    <3>2. /\ u \o v \in Seq(Nat)
          /\ Len(u \o v) = Len(u) + Len(v)
          /\ \A i \in 1 .. Len(u) + Len(v) :
                (u \o v)[i] = IF i <= Len(u) THEN u[i] ELSE v[i - Len(u)]
      BY <3>1, ConcatProperties, Zenon
    <3> QED BY <2>1, <2>2, <3>2
  <2>4. \A i \in 1..(p + l) : (u \o v)[i] = t[i]
    BY <2>1, <2>2, <2>3
  <2>5. u \o v = t
    BY <2>1, <2>3, <2>4, SeqEqual
  <2>6. inbound.queue = v
    BY <1>4 DEF v, p, l
  <2> QED BY <2>5, <2>6 DEF u, p, t
<1>9. [i \in 1..BytesPopped(inbound) |-> i] \o inbound.queue = FirstBytes(Arrived)
  BY <1>8 DEF BytesPopped, FirstBytes
<1>10. Written \in Nat /\ Written <= StreamLen
  BY <1>2, <1>3
<1> QED BY <1>4, <1>5, <1>6, <1>7, <1>9, <1>10 DEF StreamsNow
LEMMA StreamsWillBe == CInv' => StreamsNow'
BY StreamsAre, PTL

(* The two streams in a step of either host or of the network.               *)
LEMMA WriteMoves ==
    ASSUME CInv, StreamsNow, StreamsNow', NEW n \in 1..2, AppWrites(n)
    PROVE  Reliable!Next
<1> DEFINE data == [i \in 1..n |-> BytesPushed(outbound) + i]
<1>1. /\ n <= AvailableCapacity(outbound) /\ Sender!WriteOutbound(data)
      /\ inbound' = inbound
  BY DEF AppWrites, receiverVars
<1>2. outbound' = Push(outbound, data) /\ ~outbound.closed
  BY <1>1, Zenon DEF Sender!WriteOutbound, Sender!Push, Push, Sender!Smaller,
       Smaller, Sender!AvailableCapacity, AvailableCapacity, Sender!IsClosed
<1>3. outbound \in Out!Streams
  BY DEF CInv, Out!IInv, Out!Types
<1>4. data \in Seq(Nat) /\ Len(data) = n
  <2>1. BytesPushed(outbound) \in Nat
    BY DEF StreamsNow, Written
  <2> DEFINE b == BytesPushed(outbound)
  <2>2. b \in Nat /\ n \in Nat
    BY <2>1
  <2> HIDE DEF b
  <2>3. data = Bytes(b + 1, n)
    <3>1. \A i \in 1..n : b + i = (b + 1) + i - 1
      BY <2>2
    <3>2. data = [i \in 1..n |-> b + i]
      BY DEF b
    <3> HIDE DEF data
    <3> QED BY <3>1, <3>2 DEF Bytes
  <2> HIDE DEF data
  <2> QED BY <2>2, <2>3, BytesAre
<1> HIDE DEF data
<1>5. Written' = Written + n /\ outbound'.closed = outbound.closed
  BY <1>1, <1>2, <1>3, <1>4, PushAddsCount DEF Written
<1>6. Written < Written'
  <2> HIDE DEF Written
  <2> QED BY <1>5 DEF StreamsNow
<1> QED BY <1>1, <1>2, <1>5, <1>6, WriteIsWrite

LEMMA CloseMoves ==
    ASSUME CInv, StreamsNow, AppCloses
    PROVE  Reliable!Next
<1>1. outbound' = [outbound EXCEPT !.closed = TRUE] /\ inbound' = inbound
  BY Zenon DEF AppCloses, receiverVars, Sender!CloseOutbound, Sender!Close
<1>2. outbound \in Out!Streams
  BY DEF CInv, Out!IInv, Out!Types
<1>3. /\ outbound'.closed = TRUE /\ outbound'.queue = outbound.queue
      /\ outbound'.popped = outbound.popped
  BY <1>1, <1>2 DEF Out!Streams
<1> QED BY <1>1, <1>3, CloseIsClose DEF Written, BytesPushed

LEMMA PushMoves ==
    ASSUME CInv, StreamsNow, StreamsNow', OwnerPushes
    PROVE  Reliable!Next
<1>1. (Out!PushSyn \/ Out!PushData) /\ inbound' = inbound
  BY PushIs DEF OwnerPushes, receiverVars, Out!push
<1>2. Out!IInv /\ outbound \in Out!Streams
  BY DEF CInv, Out!IInv, Out!Types
<1>3. Written' = Written /\ outbound'.closed = outbound.closed
  <2>1. CASE Out!PushSyn
    BY <2>1 DEF Out!PushSyn, Written
  <2>2. CASE Out!PushData
    <3> DEFINE n == Out!Smaller(Out!AbleSend, Out!BytesBuffered(outbound))
    <3>1. outbound' = Pop(outbound, n)
      BY <2>2, ValuesSame DEF Out!PushData
    <3>2. n \in Nat
      <4>1. Out!AbleSend \in Nat
        <5>1. num_in_flight <= window_size_
          BY <2>2 DEF Out!PushData
        <5>2. Out!Types
          BY <1>2 DEF Out!IInv
        <5> QED BY <5>1, <5>2, OutAssumptions, Out!AbleSendIs
      <4>2. Out!BytesBuffered(outbound) \in Nat
        BY <1>2, SenderFacts DEF Out!BytesBuffered
      <4> QED BY <4>1, <4>2 DEF Out!Smaller
    <3> HIDE DEF n
    <3> QED BY <1>2, <3>1, <3>2, PopKeepsCount DEF Written
  <2> QED BY <1>1, <2>1, <2>2
<1>4. Arrived <= Arrived'
  <2>1. Arrived' = Arrived
    BY <1>1 DEF Arrived
  <2> QED BY <2>1 DEF StreamsNow
<1> QED BY <1>1, <1>3, <1>4, ArriveIsArrive

LEMMA SegmentMoves ==
    ASSUME CInv, CInv', StreamsNow, StreamsNow', SegmentArrives
    PROVE  Reliable!Next
<1>1. PICK msg \in BagToSet(segments) : Receiver!receive(msg) /\ UNCHANGED senderVars
  BY DEF SegmentArrives
<1>2. /\ Out!IInv /\ In!Inbound(isn_, Last) /\ Messages
  BY DEF CInv
<1>3. Genuine(msg, isn_, Last, FinSent, RightEdge)
  BY <1>2 DEF Messages, Sent, TrueSegment
<1>4. isn_ \in Wrap32 /\ Last \in Nat \ {0} /\ Last <= StreamLen + 1
      /\ FinSent \in BOOLEAN
  BY <1>2, SenderFacts
<1>5. Arrived <= Arrived' /\ (FIN_flag => FIN_flag')
  <2>1. /\ BytesPushed(inbound) <= BytesPushed(inbound')
        /\ FIN_flag => FIN_flag'
    <3> HIDE DEF FinSent, Last, RightEdge
    <3> QED BY <1>1, <1>2, <1>3, <1>4, SegmentIsReceived
  <2> QED BY <2>1 DEF Arrived
<1>6. outbound' = outbound
  BY <1>1 DEF senderVars
<1>7. Written' = Written
  BY <1>6 DEF Written
<1>8. inbound.closed => inbound'.closed
  <2>1. inbound.closed <=> FIN_flag
    BY DEF StreamsNow
  <2>2. inbound'.closed <=> FIN_flag'
    <3> HIDE DEF Written, Arrived
    <3> QED BY DEF StreamsNow
  <2> QED BY <1>5, <2>1, <2>2
<1> QED BY <1>5, <1>6, <1>7, <1>8, ArriveIsArrive

LEMMA ReadMoves ==
    ASSUME CInv, StreamsNow, StreamsNow', AppReads
    PROVE  Reliable!Next
<1>1. Receiver!ReadInbound(1) /\ outbound' = outbound
  BY DEF AppReads, senderVars
<1>2. In!Inbound(isn_, Last) /\ Last \in Nat
  BY SenderFacts DEF CInv
<1>3. BytesPushed(inbound') = BytesPushed(inbound) /\ FIN_flag' = FIN_flag
  <2>1. In!ReadInbound(1) /\ 1 \in Nat
    BY <1>1, ReceiverIs
  <2> QED BY <1>2, <2>1, InAssumptions, In!ReadIs, ValuesSame
<1>4. Arrived' = Arrived /\ Written' = Written
  BY <1>1, <1>3 DEF Arrived, Written
<1>5. Arrived <= Arrived'
  <2> HIDE DEF Arrived
  <2> QED BY <1>4 DEF StreamsNow
<1>6. inbound.closed => inbound'.closed
  <2>1. inbound.closed <=> FIN_flag
    BY DEF StreamsNow
  <2>2. inbound'.closed <=> FIN_flag'
    <3> HIDE DEF Written, Arrived
    <3> QED BY DEF StreamsNow
  <2> QED BY <1>3, <2>1, <2>2
<1> QED BY <1>1, <1>4, <1>5, <1>6, ArriveIsArrive

LEMMA StepImplements ==
    CInv /\ CInv' /\ [Next]_vars => [Reliable!Next]_(Reliable!vars)
<1> SUFFICES ASSUME CInv, CInv', [Next]_vars
             PROVE  [Reliable!Next]_(Reliable!vars)
  OBVIOUS
<1>1. StreamsNow /\ StreamsNow'
  BY StreamsAre, StreamsWillBe
<1>2. CASE \E n \in 1..2 : AppWrites(n)
  BY <1>1, <1>2, WriteMoves
<1>3. CASE AppCloses
  BY <1>1, <1>3, CloseMoves
<1>4. CASE OwnerPushes
  BY <1>1, <1>4, PushMoves
<1>5. CASE SegmentArrives
  BY <1>1, <1>5, SegmentMoves
<1>6. CASE AppReads
  BY <1>1, <1>6, ReadMoves
<1>7. CASE OwnerSends \/ TimePasses \/ AckArrives \/ ReceiverUpdatesWindow
              \/ Lose \/ Duplicate \/ UNCHANGED vars
  BY <1>7, OthersStutter
<1> QED BY <1>2, <1>3, <1>4, <1>5, <1>6, <1>7 DEF Next, HostsNext

(* Over a network that loses, repeats and reorders what it likes, the        *)
(* applications at the two ends of a TCPSender and a TCPReceiver see one     *)
(* reliable stream: no byte lost, altered, made up or out of order, and the  *)
(* end only behind the last byte.                                            *)
THEOREM ConnectionIsReliable == Spec => ImplementsReliableStream
<1>1. Spec => []CInv
  BY ConnectionIsInvariant
<1>2. CInv /\ CInv' /\ [Next]_vars => [Reliable!Next]_(Reliable!vars)
  BY StepImplements
<1>3. Init => Reliable!Init
  BY StartImplements
<1> QED BY <1>1, <1>2, <1>3, PTL DEF Spec, ImplementsReliableStream, Reliable!Spec
=============================================================================
