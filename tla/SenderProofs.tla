---------------------------- MODULE SenderProofs ----------------------------
(* Proofs about src/src/tcp_sender.cc for every stream, window, timeout and  *)
(* segment size: the segments not yet acknowledged tile the numbers between  *)
(* what is acknowledged and what comes next, within the window, with the     *)
(* timer running exactly while there are any.                                *)
EXTENDS SenderWithPeer, WrappingProofs, FiniteSetTheorems,
        FunctionTheorems, SequenceTheorems

Segments == [seqno : Wrap32, SYN : BOOLEAN, payload : Seq(Nat), FIN : BOOLEAN]
Streams  == [capacity : {OutboundCapacity}, queue : Seq(Nat), popped : Nat,
             closed : BOOLEAN, error : BOOLEAN]

Types ==
    /\ isn_ \in Wrap32
    /\ Now_RTO_ \in Nat /\ Num_Resend \in Nat
    /\ Seqno \in Nat /\ num_in_flight \in Nat
    /\ window_size_ \in Nat /\ window_size_ <= Larger(MaxWindow, 1)
    /\ status_ \in Status
    /\ timer_ \in [open : BOOLEAN, left : Int]
    /\ out_Noackqueue \in Seq(Segments)
    /\ out_Readyqueue \in Seq(Segments)
    /\ outbound \in Streams
    /\ edge \in Nat

(* The number at which segment i of a queue that starts at number left does. *)
Place(msgs, left, i) == left + SequenceNumbers(SubSeq(msgs, 1, i - 1))

(* The outstanding segments lie end to end from the left edge to Seqno.      *)
Tiled ==
    /\ num_in_flight = SequenceNumbers(out_Noackqueue)
    /\ num_in_flight <= Seqno
    /\ \A i \in DOMAIN out_Noackqueue :
          out_Noackqueue[i].seqno = Wrap(Place(out_Noackqueue, LeftEdge, i), isn_)

(* What is in flight fits the largest window, and what the peer offered last *)
(* ends at or before the furthest edge.                                      *)
Windowed ==
    /\ num_in_flight <= Larger(MaxWindow, 2)
    /\ LeftEdge + Larger(window_size_, 1) <= edge
    /\ Seqno <= edge /\ edge >= 2

(* The stream the sender reads holds the bytes that follow those it took.    *)
StreamInOrder ==
    /\ BytesPushed(outbound) <= StreamLen
    /\ \A i \in DOMAIN outbound.queue :
          outbound.queue[i] = BytesPopped(outbound) + i

NothingSentYet ==
    /\ status_ = "CLOSED" => out_Noackqueue = <<>>
    /\ status_ \in {"CLOSED", "SYN_SENT"} => BytesPopped(outbound) = 0

IInv ==
    /\ Types /\ Tiled /\ Windowed /\ StreamInOrder /\ NothingSentYet
    /\ TimerRunsIffOutstanding /\ SegmentsCarryTheirBytes /\ StreamAccounted
    /\ StatusMatchesOutstanding
-----------------------------------------------------------------------------
(* Counting sequence numbers.                                                *)
Slots(msgs, i) == {i} \X (1..SequenceLength(msgs[i]))
Numbers(msgs)  == UNION {Slots(msgs, i) : i \in DOMAIN msgs}

LEMMA LengthIsNat ==
    ASSUME NEW msg \in Segments
    PROVE  /\ SequenceLength(msg) \in Nat
           /\ SequenceLength(msg) = Bit(msg.SYN) + Len(msg.payload) + Bit(msg.FIN)
<1>1. msg.payload \in Seq(Nat)
  BY DEF Segments
<1>2. Len(msg.payload) \in Nat
  BY <1>1, LenProperties
<1>3. Bit(msg.SYN) \in {0, 1} /\ Bit(msg.FIN) \in {0, 1}
  BY Zenon DEF Bit
<1> QED BY <1>2, <1>3 DEF SequenceLength

(* A pair <<i, k>> stands for the k-th number of the i-th segment.           *)
LEMMA NumbersAre ==
    ASSUME NEW msgs \in Seq(Segments)
    PROVE  \A p : p \in Numbers(msgs) <=>
              \E i \in 1..Len(msgs) : \E k \in 1..SequenceLength(msgs[i]) :
                  p = <<i, k>>
<1>1. DOMAIN msgs = 1..Len(msgs)
  BY LenProperties
<1>2. ASSUME NEW p, p \in Numbers(msgs)
      PROVE  \E i \in 1..Len(msgs) : \E k \in 1..SequenceLength(msgs[i]) :
                  p = <<i, k>>
  BY <1>1, <1>2 DEF Numbers, Slots
<1>3. ASSUME NEW i \in 1..Len(msgs), NEW k \in 1..SequenceLength(msgs[i])
      PROVE  <<i, k>> \in Numbers(msgs)
  BY <1>1 DEF Numbers, Slots
<1> QED BY <1>2, <1>3

LEMMA NumbersFinite ==
    ASSUME NEW msgs \in Seq(Segments)
    PROVE  /\ IsFiniteSet(Numbers(msgs))
           /\ SequenceNumbers(msgs) = Cardinality(Numbers(msgs))
           /\ SequenceNumbers(msgs) \in Nat
<1> DEFINE S == {Slots(msgs, i) : i \in 1..Len(msgs)}
           f == [i \in 1..Len(msgs) |-> Slots(msgs, i)]
<1>1. Len(msgs) \in Nat /\ DOMAIN msgs = 1..Len(msgs)
      /\ \A i \in 1..Len(msgs) : msgs[i] \in Segments
  BY LenProperties
<1>2. IsFiniteSet(S)
  <2>1. f \in Surjection(1..Len(msgs), S)
    BY DEF Surjection
  <2>2. IsFiniteSet(1..Len(msgs))
    BY <1>1, FS_Interval
  <2> QED BY <2>1, <2>2, FS_Surjection
<1>3. ASSUME NEW i \in 1..Len(msgs) PROVE IsFiniteSet(Slots(msgs, i))
  <2>1. SequenceLength(msgs[i]) \in Nat
    BY <1>1, LengthIsNat
  <2>2. IsFiniteSet(1..SequenceLength(msgs[i]))
    BY <2>1, FS_Interval
  <2>3. IsFiniteSet({i})
    BY FS_Singleton
  <2> QED BY <2>2, <2>3, FS_Product DEF Slots
<1>4. IsFiniteSet(UNION S)
  BY <1>2, <1>3, FS_UNION
<1>5. Numbers(msgs) = UNION S
  BY <1>1 DEF Numbers
<1>6. SequenceNumbers(msgs) = Cardinality(Numbers(msgs))
  BY DEF SequenceNumbers, Numbers, Slots
<1> QED BY <1>4, <1>5, <1>6, FS_CardinalityType

LEMMA NumbersOfNone == SequenceNumbers(<<>>) = 0
<1>1. <<>> \in Seq(Segments) /\ Len(<<>>) = 0
  BY EmptySeq
<1>2. Numbers(<<>>) = {}
  <2> DEFINE none == <<>>
  <2>1. none \in Seq(Segments) /\ 1..Len(none) = {}
    BY <1>1
  <2> HIDE DEF none
  <2>2. Numbers(none) = {}
    BY <2>1, NumbersAre
  <2> QED BY <2>2 DEF none
<1> QED BY <1>1, <1>2, NumbersFinite, FS_EmptySet

LEMMA NumbersOfOne ==
    ASSUME NEW msg \in Segments
    PROVE  SequenceNumbers(<<msg>>) = SequenceLength(msg)
<1> DEFINE n == SequenceLength(msg)
           f == [k \in 1..n |-> <<1, k>>]
<1>1. <<msg>> \in Seq(Segments) /\ Len(<<msg>>) = 1 /\ <<msg>>[1] = msg
  OBVIOUS
<1>2. n \in Nat
  BY LengthIsNat
<1>3. \A p : p \in Numbers(<<msg>>) <=> \E k \in 1..n : p = <<1, k>>
  <2> DEFINE one == <<msg>>
  <2>1. one \in Seq(Segments) /\ 1..Len(one) = {1} /\ one[1] = msg
    BY <1>1
  <2> HIDE DEF one
  <2>2. \A p : p \in Numbers(one) <=>
            \E i \in 1..Len(one) : \E k \in 1..SequenceLength(one[i]) : p = <<i, k>>
    BY <2>1, NumbersAre
  <2>3. \A p : p \in Numbers(one) <=>
            \E k \in 1..SequenceLength(one[1]) : p = <<1, k>>
    BY <2>1, <2>2
  <2> QED BY <2>1, <2>3 DEF one
<1> DEFINE T == Numbers(<<msg>>)
<1> HIDE DEF n, T
<1>4. f \in Bijection(1..n, T)
  <2>1. \A p : p \in T <=> \E k \in 1..n : p = <<1, k>>
    BY <1>3 DEF T
  <2>2. f \in [1..n -> T]
    BY <2>1
  <2>3. \A j \in 1..n, k \in 1..n : f[j] = f[k] => j = k
    OBVIOUS
  <2>4. \A p \in T : \E k \in 1..n : f[k] = p
    BY <2>1
  <2> QED BY <2>2, <2>3, <2>4, Fun_IsBij
<1>5. Cardinality(Numbers(<<msg>>)) = n
  BY <1>2, <1>4, FS_CountingElements DEF ExistsBijection, T
<1> QED BY <1>1, <1>5, NumbersFinite DEF n

(* The numbers of two queues one after the other are those of both.          *)
LEMMA NumbersOfBoth ==
    ASSUME NEW s \in Seq(Segments), NEW t \in Seq(Segments)
    PROVE  SequenceNumbers(s \o t) = SequenceNumbers(s) + SequenceNumbers(t)
<1> DEFINE l == Len(s)
           Moved == {<<l + p[1], p[2]>> : p \in Numbers(t)}
           f == [p \in Numbers(t) |-> <<l + p[1], p[2]>>]
<1>1. /\ s \o t \in Seq(Segments) /\ Len(s \o t) = l + Len(t)
      /\ \A i \in 1 .. l + Len(t) :
            (s \o t)[i] = IF i <= l THEN s[i] ELSE t[i - l]
      /\ l \in Nat /\ Len(t) \in Nat
  BY ConcatProperties, LenProperties
<1> HIDE DEF l
<1>2. \A p \in Numbers(t) : \E i \in 1..Len(t), k \in Int : p = <<i, k>>
  <2>1. \A i \in 1..Len(t) : SequenceLength(t[i]) \in Nat
    BY LengthIsNat, LenProperties
  <2> QED BY <2>1, NumbersAre
<1>3. Numbers(s \o t) = Numbers(s) \cup Moved
  <2>1. ASSUME NEW p \in Numbers(s \o t) PROVE p \in Numbers(s) \cup Moved
    <3>1. PICK i \in 1 .. l + Len(t) :
             \E k \in 1..SequenceLength((s \o t)[i]) : p = <<i, k>>
      <4> DEFINE both == s \o t
      <4>1. both \in Seq(Segments) /\ Len(both) = l + Len(t) /\ p \in Numbers(both)
        BY <1>1, <2>1
      <4> HIDE DEF both
      <4>2. \E i \in 1..Len(both) : \E k \in 1..SequenceLength(both[i]) : p = <<i, k>>
        BY <4>1, NumbersAre
      <4> QED BY <4>1, <4>2 DEF both
    <3>2. PICK k \in 1..SequenceLength((s \o t)[i]) : p = <<i, k>>
      BY <3>1
    <3>3. CASE i <= l
      <4>1. i \in 1..Len(s) /\ k \in 1..SequenceLength(s[i])
        BY <1>1, <3>2, <3>3 DEF l
      <4> QED BY <4>1, <3>2, NumbersAre
    <3>4. CASE ~(i <= l)
      <4>1. i - l \in 1..Len(t) /\ k \in 1..SequenceLength(t[i - l])
        BY <1>1, <3>2, <3>4
      <4>2. <<i - l, k>> \in Numbers(t)
        BY <4>1, NumbersAre
      <4>3. p = <<l + (i - l), k>>
        BY <1>1, <3>2
      <4> QED BY <4>2, <4>3
    <3> QED BY <3>3, <3>4
  <2>2. ASSUME NEW p \in Numbers(s) PROVE p \in Numbers(s \o t)
    <3>1. PICK i \in 1..Len(s) : \E k \in 1..SequenceLength(s[i]) : p = <<i, k>>
      BY NumbersAre
    <3>2. i \in 1..Len(s \o t) /\ (s \o t)[i] = s[i]
      BY <1>1 DEF l
    <3> QED BY <1>1, <3>1, <3>2, NumbersAre
  <2>3. ASSUME NEW p \in Moved PROVE p \in Numbers(s \o t)
    <3>1. PICK q \in Numbers(t) : p = <<l + q[1], q[2]>>
      OBVIOUS
    <3>2. PICK i \in 1..Len(t) : \E k \in 1..SequenceLength(t[i]) : q = <<i, k>>
      BY NumbersAre
    <3>3. PICK k \in 1..SequenceLength(t[i]) : q = <<i, k>>
      BY <3>2
    <3>4. l + i \in 1..Len(s \o t) /\ (s \o t)[l + i] = t[i]
      BY <1>1
    <3>5. p = <<l + i, k>>
      BY <3>1, <3>3
    <3> QED BY <1>1, <3>3, <3>4, <3>5, NumbersAre
  <2> QED BY <2>1, <2>2, <2>3
<1>4. Numbers(s) \cap Moved = {}
  <2> SUFFICES ASSUME NEW q \in Numbers(t), <<l + q[1], q[2]>> \in Numbers(s)
               PROVE  FALSE
    OBVIOUS
  <2>1. PICK i \in 1..Len(t), k \in Int : q = <<i, k>>
    BY <1>2
  <2>2. \E j \in 1..Len(s) : \E m \in 1..SequenceLength(s[j]) :
            <<l + q[1], q[2]>> = <<j, m>>
    BY NumbersAre
  <2>3. l + i \in 1..Len(s)
    BY <2>1, <2>2
  <2> QED BY <1>1, <2>3 DEF l
<1>5. f \in Bijection(Numbers(t), Moved)
  <2>1. ASSUME NEW p \in Numbers(t), NEW q \in Numbers(t), f[p] = f[q]
        PROVE  p = q
    <3>1. PICK i \in 1..Len(t), k \in Int : p = <<i, k>>
      BY <1>2
    <3>2. PICK j \in 1..Len(t), m \in Int : q = <<j, m>>
      BY <1>2
    <3>3. l + i = l + j /\ k = m
      BY <2>1, <3>1, <3>2
    <3> QED BY <1>1, <3>1, <3>2, <3>3
  <2> DEFINE T == Numbers(t)
             M == {<<l + p[1], p[2]>> : p \in T}
             g == [p \in T |-> <<l + p[1], p[2]>>]
  <2>2. g \in Bijection(T, M)
    <3> HIDE DEF T
    <3>1. g \in [T -> M] /\ \A m \in M : \E p \in T : g[p] = m
      OBVIOUS
    <3>2. \A p, q \in T : g[p] = g[q] => p = q
      BY <2>1 DEF T
    <3> QED BY <3>1, <3>2, Fun_IsBij
  <2> QED BY <2>2
<1>6. IsFiniteSet(Moved) /\ Cardinality(Moved) = Cardinality(Numbers(t))
  <2> HIDE DEF f, Moved
  <2> QED BY <1>5, NumbersFinite, FS_Bijection DEF ExistsBijection
<1>7. Cardinality(Numbers(s \o t))
          = Cardinality(Numbers(s)) + Cardinality(Moved)
  <2> HIDE DEF Moved
  <2>1. IsFiniteSet(Numbers(s))
    BY NumbersFinite
  <2>2. Cardinality(Numbers(s) \cup Moved)
            = Cardinality(Numbers(s)) + Cardinality(Moved)
                - Cardinality(Numbers(s) \cap Moved)
    BY <2>1, <1>6, FS_Union
  <2>3. Cardinality(Numbers(s) \cap Moved) = 0
    BY <1>4, FS_EmptySet
  <2>4. Cardinality(Numbers(s)) \in Nat /\ Cardinality(Moved) \in Nat
    BY <2>1, <1>6, FS_CardinalityType
  <2> QED BY <1>3, <2>2, <2>3, <2>4
<1> QED BY <1>1, <1>6, <1>7, NumbersFinite

LEMMA NumbersOfPrefix ==
    ASSUME NEW msgs \in Seq(Segments), NEW k \in 0..Len(msgs)
    PROVE  /\ SubSeq(msgs, 1, k) \in Seq(Segments)
           /\ Len(SubSeq(msgs, 1, k)) = k
           /\ SequenceNumbers(SubSeq(msgs, 1, k)) \in Nat
           /\ k < Len(msgs) =>
                 SequenceNumbers(SubSeq(msgs, 1, k + 1)) =
                     SequenceNumbers(SubSeq(msgs, 1, k))
                         + SequenceLength(msgs[k + 1])
<1>1. Len(msgs) \in Nat /\ \A i \in 1..Len(msgs) : msgs[i] \in Segments
  BY LenProperties
<1>2. SubSeq(msgs, 1, k) \in Seq(Segments) /\ Len(SubSeq(msgs, 1, k)) = k
  BY <1>1, SubSeqProperties
<1>3. ASSUME k < Len(msgs)
      PROVE  SequenceNumbers(SubSeq(msgs, 1, k + 1)) =
                 SequenceNumbers(SubSeq(msgs, 1, k)) + SequenceLength(msgs[k + 1])
  <2>1. 1 \in 1..Len(msgs) /\ k + 1 \in 1..Len(msgs) /\ (k + 1) - 1 = k
    BY <1>1, <1>3
  <2>2. SubSeq(msgs, 1, k + 1) = SubSeq(msgs, 1, (k + 1) - 1) \o <<msgs[k + 1]>>
    BY <2>1, SubSeqRecursiveSecond
  <2>3. msgs[k + 1] \in Segments /\ <<msgs[k + 1]>> \in Seq(Segments)
    BY <1>1, <2>1
  <2>4. SequenceNumbers(SubSeq(msgs, 1, k) \o <<msgs[k + 1]>>) =
            SequenceNumbers(SubSeq(msgs, 1, k)) + SequenceNumbers(<<msgs[k + 1]>>)
    BY <1>2, <2>3, NumbersOfBoth
  <2> QED BY <2>1, <2>2, <2>3, <2>4, NumbersOfOne
<1> QED BY <1>2, <1>3, NumbersFinite

(* Cutting a queue after segment k.                                          *)
LEMMA NumbersOfRest ==
    ASSUME NEW msgs \in Seq(Segments), NEW k \in 0..Len(msgs)
    PROVE  LET rest == SubSeq(msgs, k + 1, Len(msgs))
           IN  /\ rest \in Seq(Segments)
               /\ Len(rest) = Len(msgs) - k
               /\ \A i \in 1..Len(rest) : rest[i] = msgs[k + i]
               /\ \A j \in 0..Len(rest) :
                     SequenceNumbers(SubSeq(msgs, 1, k + j)) =
                         SequenceNumbers(SubSeq(msgs, 1, k))
                             + SequenceNumbers(SubSeq(rest, 1, j))
               /\ SequenceNumbers(msgs) =
                     SequenceNumbers(SubSeq(msgs, 1, k)) + SequenceNumbers(rest)
<1> DEFINE rest == SubSeq(msgs, k + 1, Len(msgs))
<1>1. Len(msgs) \in Nat /\ \A i \in 1..Len(msgs) : msgs[i] \in Segments
  BY LenProperties
<1>2. /\ rest \in Seq(Segments)
      /\ Len(rest) = Len(msgs) - k
      /\ \A i \in 1..Len(rest) : rest[i] = msgs[k + i]
  <2>1. k + 1 \in Int /\ Len(msgs) \in Int
        /\ \A i \in (k + 1)..Len(msgs) : msgs[i] \in Segments
    BY <1>1
  <2>2. /\ rest \in Seq(Segments)
        /\ Len(rest) = IF k + 1 <= Len(msgs) THEN Len(msgs) - (k + 1) + 1 ELSE 0
        /\ \A i \in 1 .. Len(msgs) - (k + 1) + 1 : rest[i] = msgs[(k + 1) + i - 1]
    BY <2>1, SubSeqProperties
  <2> HIDE DEF rest
  <2>3. Len(rest) = Len(msgs) - k
    BY <1>1, <2>2
  <2>4. ASSUME NEW i \in 1..Len(rest) PROVE rest[i] = msgs[k + i]
    <3>1. i \in 1 .. Len(msgs) - (k + 1) + 1 /\ (k + 1) + i - 1 = k + i
      BY <1>1, <2>3
    <3> QED BY <2>2, <3>1
  <2> QED BY <2>2, <2>3, <2>4
<1> HIDE DEF rest
<1>3. ASSUME NEW j \in 0..Len(rest)
      PROVE  SequenceNumbers(SubSeq(msgs, 1, k + j)) =
                 SequenceNumbers(SubSeq(msgs, 1, k))
                     + SequenceNumbers(SubSeq(rest, 1, j))
  <2> DEFINE front == SubSeq(msgs, 1, k)
             part  == SubSeq(rest, 1, j)
             both  == SubSeq(msgs, 1, k + j)
  <2>1. /\ k + j \in 0..Len(msgs)
        /\ front \in Seq(Segments) /\ Len(front) = k
        /\ part \in Seq(Segments) /\ Len(part) = j
    BY <1>1, <1>2, NumbersOfPrefix
  <2>2. both \in Seq(Segments) /\ Len(both) = k + j
    BY <2>1, NumbersOfPrefix
  <2>3. \A i \in 1..k : front[i] = msgs[i]
    BY <1>1, SubSeqProperties
  <2>4. \A i \in 1..j : part[i] = rest[i]
    <3>1. Len(rest) \in Nat /\ \A i \in 1..Len(rest) : rest[i] \in Segments
      BY <1>2, LenProperties
    <3> QED BY <3>1, SubSeqProperties
  <2>5. \A i \in 1..(k + j) : both[i] = msgs[i]
    BY <1>1, <2>1, SubSeqProperties
  <2>6. /\ front \o part \in Seq(Segments)
        /\ Len(front \o part) = k + j
        /\ \A i \in 1..(k + j) :
              (front \o part)[i] = IF i <= k THEN front[i] ELSE part[i - k]
    <3> HIDE DEF front, part
    <3> QED BY <2>1, ConcatProperties
  <2> HIDE DEF front, part, both
  <2>7. ASSUME NEW i \in 1..(k + j) PROVE both[i] = (front \o part)[i]
    <3>1. CASE i <= k
      BY <2>3, <2>5, <2>6, <3>1
    <3>2. CASE ~(i <= k)
      <4>1. i - k \in 1..j /\ i - k \in 1..Len(rest) /\ k + (i - k) = i
        BY <1>1, <1>2, <3>2
      <4>2. part[i - k] = rest[i - k] /\ rest[i - k] = msgs[k + (i - k)]
        BY <1>2, <2>4, <4>1
      <4> QED BY <2>5, <2>6, <3>2, <4>1, <4>2
    <3> QED BY <3>1, <3>2
  <2>8. both = front \o part
    BY <2>2, <2>6, <2>7, SeqEqual
  <2> QED BY <2>1, <2>8, NumbersOfBoth DEF front, part, both
<1>4. SequenceNumbers(msgs) =
          SequenceNumbers(SubSeq(msgs, 1, k)) + SequenceNumbers(rest)
  <2>1. Len(rest) \in 0..Len(rest) /\ k + Len(rest) = Len(msgs)
    BY <1>1, <1>2
  <2>2. SubSeq(msgs, 1, Len(msgs)) = msgs /\ SubSeq(rest, 1, Len(rest)) = rest
    BY <1>2, SubSeqFull
  <2> QED BY <1>3, <2>1, <2>2
<1> QED BY <1>2, <1>3, <1>4 DEF rest

(* A longer prefix of a queue of segments that use at least one number each  *)
(* uses more numbers.                                                        *)
LEMMA LongerUsesMore ==
    ASSUME NEW msgs \in Seq(Segments), NEW k \in 0..Len(msgs), NEW j \in 0..k
    PROVE  /\ SequenceNumbers(SubSeq(msgs, 1, j))
                  <= SequenceNumbers(SubSeq(msgs, 1, k))
           /\ j < k /\ SequenceLength(msgs[j + 1]) > 0 =>
                 SequenceNumbers(SubSeq(msgs, 1, j))
                     < SequenceNumbers(SubSeq(msgs, 1, k))
<1>1. ASSUME NEW a \in 0..k
      PROVE  SequenceNumbers(SubSeq(msgs, 1, a))
                 <= SequenceNumbers(SubSeq(msgs, 1, k))
  <2> DEFINE rest == SubSeq(msgs, a + 1, Len(msgs))
  <2>1. Len(msgs) \in Nat /\ a \in 0..Len(msgs)
    BY LenProperties
  <2>2. /\ rest \in Seq(Segments) /\ Len(rest) = Len(msgs) - a
        /\ \A i \in 0..Len(rest) :
              SequenceNumbers(SubSeq(msgs, 1, a + i)) =
                  SequenceNumbers(SubSeq(msgs, 1, a))
                      + SequenceNumbers(SubSeq(rest, 1, i))
    BY <2>1, NumbersOfRest
  <2> HIDE DEF rest
  <2>3. k - a \in 0..Len(rest) /\ a + (k - a) = k
    BY <2>1, <2>2
  <2>4. SequenceNumbers(SubSeq(rest, 1, k - a)) \in Nat
        /\ SequenceNumbers(SubSeq(msgs, 1, a)) \in Nat
    BY <2>1, <2>2, <2>3, NumbersOfPrefix
  <2> QED BY <2>2, <2>3, <2>4
<1>2. ASSUME j < k, SequenceLength(msgs[j + 1]) > 0
      PROVE  SequenceNumbers(SubSeq(msgs, 1, j))
                 < SequenceNumbers(SubSeq(msgs, 1, k))
  <2>1. Len(msgs) \in Nat /\ j \in 0..Len(msgs) /\ j < Len(msgs)
        /\ j + 1 \in 0..k /\ j + 1 \in 1..Len(msgs)
    BY <1>2, LenProperties
  <2>2. /\ SequenceNumbers(SubSeq(msgs, 1, j)) \in Nat
        /\ SequenceNumbers(SubSeq(msgs, 1, j + 1)) =
              SequenceNumbers(SubSeq(msgs, 1, j)) + SequenceLength(msgs[j + 1])
    BY <2>1, NumbersOfPrefix
  <2>3. SequenceLength(msgs[j + 1]) \in Nat
    BY <2>1, LenProperties, LengthIsNat
  <2>4. SequenceNumbers(SubSeq(msgs, 1, j + 1))
            <= SequenceNumbers(SubSeq(msgs, 1, k))
    BY <1>1, <2>1
  <2>5. SequenceNumbers(SubSeq(msgs, 1, k)) \in Nat
    BY NumbersOfPrefix
  <2> QED BY <1>2, <2>2, <2>3, <2>4, <2>5
<1> QED BY <1>1, <1>2

(* Where the segments of a queue lie once others are put behind them.        *)
LEMMA NumbersOfLonger ==
    ASSUME NEW s \in Seq(Segments), NEW t \in Seq(Segments)
    PROVE  /\ \A j \in 0..Len(s) : SubSeq(s \o t, 1, j) = SubSeq(s, 1, j)
           /\ \A j \in 0..Len(t) :
                 SequenceNumbers(SubSeq(s \o t, 1, Len(s) + j)) =
                     SequenceNumbers(s) + SequenceNumbers(SubSeq(t, 1, j))
<1> DEFINE both == s \o t
<1>1. /\ both \in Seq(Segments) /\ Len(both) = Len(s) + Len(t)
      /\ Len(s) \in Nat /\ Len(t) \in Nat
      /\ \A i \in 1 .. Len(s) + Len(t) :
            both[i] = IF i <= Len(s) THEN s[i] ELSE t[i - Len(s)]
      /\ \A i \in 1..Len(s) : s[i] \in Segments
      /\ \A i \in 1..Len(both) : both[i] \in Segments
  BY ConcatProperties, LenProperties
<1> HIDE DEF both
<1>2. ASSUME NEW j \in 0..Len(s) PROVE SubSeq(both, 1, j) = SubSeq(s, 1, j)
  <2>1. /\ SubSeq(s, 1, j) \in Seq(Segments) /\ Len(SubSeq(s, 1, j)) = j
        /\ \A i \in 1..j : SubSeq(s, 1, j)[i] = s[i]
    BY <1>1, SubSeqProperties
  <2>2. /\ SubSeq(both, 1, j) \in Seq(Segments) /\ Len(SubSeq(both, 1, j)) = j
        /\ \A i \in 1..j : SubSeq(both, 1, j)[i] = both[i]
    BY <1>1, SubSeqProperties
  <2>3. \A i \in 1..j : both[i] = s[i]
    BY <1>1
  <2> QED BY <2>1, <2>2, <2>3, SeqEqual
<1>3. SubSeq(both, 1, Len(s)) = s
  <2>1. Len(s) \in 0..Len(s) /\ SubSeq(s, 1, Len(s)) = s
    BY <1>1, SubSeqFull
  <2> QED BY <1>2, <2>1
<1> DEFINE rest == SubSeq(both, Len(s) + 1, Len(both))
<1>4. /\ rest \in Seq(Segments) /\ Len(rest) = Len(t)
      /\ \A i \in 1..Len(rest) : rest[i] = both[Len(s) + i]
      /\ \A j \in 0..Len(rest) :
            SequenceNumbers(SubSeq(both, 1, Len(s) + j)) =
                SequenceNumbers(SubSeq(both, 1, Len(s)))
                    + SequenceNumbers(SubSeq(rest, 1, j))
  <2>1. Len(s) \in 0..Len(both)
    BY <1>1
  <2>2. /\ rest \in Seq(Segments) /\ Len(rest) = Len(both) - Len(s)
        /\ \A i \in 1..Len(rest) : rest[i] = both[Len(s) + i]
        /\ \A j \in 0..Len(rest) :
              SequenceNumbers(SubSeq(both, 1, Len(s) + j)) =
                  SequenceNumbers(SubSeq(both, 1, Len(s)))
                      + SequenceNumbers(SubSeq(rest, 1, j))
    BY <1>1, <2>1, NumbersOfRest
  <2> QED BY <1>1, <2>2
<1> HIDE DEF rest
<1>5. rest = t
  <2>1. \A i \in 1..Len(t) : rest[i] = t[i]
    <3>1. ASSUME NEW i \in 1..Len(t) PROVE both[Len(s) + i] = t[i]
      <4> DEFINE l == Len(s)
                 m == Len(t)
      <4>1. l \in Nat /\ m \in Nat /\ i \in 1..m
        BY <1>1
      <4> HIDE DEF l, m
      <4>2. l + i \in 1..(l + m) /\ ~(l + i <= l) /\ (l + i) - l = i
        BY <4>1
      <4>3. both[l + i] = t[(l + i) - l]
        BY <1>1, <4>2 DEF l, m
      <4> QED BY <4>2, <4>3 DEF l
    <3> QED BY <1>4, <3>1
  <2> QED BY <1>4, <2>1, SeqEqual
<1> QED BY <1>2, <1>3, <1>4, <1>5 DEF both
-----------------------------------------------------------------------------
(* The doubled interval.  The recursive definition has a solution: a set of  *)
(* one more element has twice as many subsets.                               *)
LEMMA SubsetsDouble ==
    ASSUME NEW k \in Nat
    PROVE  /\ Cardinality(SUBSET (1..k)) \in Nat
           /\ Cardinality(SUBSET (1..(k + 1))) = 2 * Cardinality(SUBSET (1..k))
<1> DEFINE S == SUBSET (1..k)
           T == {s \cup {k + 1} : s \in S}
           f == [s \in S |-> s \cup {k + 1}]
<1>1. IsFiniteSet(S)
  <2>1. 1 \in Int /\ k \in Int
    OBVIOUS
  <2>2. IsFiniteSet(1..k)
    BY <2>1, FS_Interval
  <2> QED BY <2>2, FS_SUBSET
<1>2. SUBSET (1..(k + 1)) = S \cup T
  <2>1. ASSUME NEW s, s \subseteq 1..(k + 1) PROVE s \in S \cup T
    <3>1. CASE k + 1 \in s
      <4>1. s \ {k + 1} \in S
        BY <2>1
      <4>2. s = (s \ {k + 1}) \cup {k + 1}
        BY <3>1
      <4> QED BY <4>1, <4>2
    <3>2. CASE k + 1 \notin s
      BY <2>1, <3>2
    <3> QED BY <3>1, <3>2
  <2>2. ASSUME NEW s, s \subseteq 1..k
        PROVE  s \subseteq 1..(k + 1) /\ s \cup {k + 1} \subseteq 1..(k + 1)
    <3>1. 1..k \subseteq 1..(k + 1) /\ k + 1 \in 1..(k + 1)
      OBVIOUS
    <3> QED BY <2>2, <3>1
  <2>3. ASSUME NEW s \in S \cup T PROVE s \in SUBSET (1..(k + 1))
    BY <2>2
  <2>4. \A s : s \in SUBSET (1..(k + 1)) <=> s \in S \cup T
    <3> HIDE DEF S, T
    <3> QED BY <2>1, <2>3
  <2> QED BY <2>4, Zenon
<1>3. S \cap T = {}
  <2> SUFFICES ASSUME NEW s \in S, s \cup {k + 1} \subseteq 1..k PROVE FALSE
    OBVIOUS
  <2> QED OBVIOUS
<1>4. f \in Bijection(S, T)
  <2>1. \A s, t \in S : f[s] = f[t] => s = t
    <3> SUFFICES ASSUME NEW s \in S, NEW t \in S,
                        s \cup {k + 1} = t \cup {k + 1}
                 PROVE  s = t
      OBVIOUS
    <3>1. k + 1 \notin s /\ k + 1 \notin t
      OBVIOUS
    <3> QED BY <3>1
  <2>2. f \in [S -> T] /\ \A t \in T : \E s \in S : f[s] = t
    OBVIOUS
  <2> HIDE DEF S, T, f
  <2> QED BY <2>1, <2>2, Fun_IsBij
<1> HIDE DEF S, T, f
<1>5. IsFiniteSet(T) /\ Cardinality(T) = Cardinality(S)
  BY <1>1, <1>4, FS_Bijection DEF ExistsBijection
<1>6. /\ Cardinality(S \cup T) =
            Cardinality(S) + Cardinality(T) - Cardinality(S \cap T)
      /\ Cardinality(S \cap T) = 0
  BY <1>1, <1>3, <1>5, FS_Union, FS_EmptySet
<1>7. Cardinality(S) \in Nat
  BY <1>1, FS_CardinalityType
<1>8. Cardinality(S \cup T) = 2 * Cardinality(S)
  BY <1>5, <1>6, <1>7
<1> QED BY <1>2, <1>7, <1>8 DEF S

LEMMA BackoffIs ==
    /\ Backoff[0] = initial_RTO_ms
    /\ \A k \in Nat : Backoff[k] \in Nat /\ Backoff[k + 1] = 2 * Backoff[k]
<1> DEFINE Step(f) == [k \in Nat |-> IF k = 0 THEN initial_RTO_ms
                                     ELSE 2 * f[k - 1]]
           c == [k \in Nat |-> Cardinality(SUBSET (1..k))]
           g == [k \in Nat |-> initial_RTO_ms * c[k]]
<1>1. initial_RTO_ms \in Nat
  BY SenderAssumption
<1>2. c[0] = 1
  <2>1. SUBSET (1..0) = {{}}
    OBVIOUS
  <2> QED BY <2>1, FS_Singleton
<1>3. \A k \in Nat : c[k] \in Nat /\ c[k + 1] = 2 * c[k]
  <2> TAKE k \in Nat
  <2>1. k + 1 \in Nat /\ c[k] = Cardinality(SUBSET (1..k))
        /\ c[k + 1] = Cardinality(SUBSET (1..(k + 1)))
    OBVIOUS
  <2> QED BY <2>1, SubsetsDouble
<1> HIDE DEF c
<1>4. g = Step(g)
  <2>1. ASSUME NEW k \in Nat PROVE g[k] = Step(g)[k]
    <3>1. CASE k = 0
      BY <1>1, <1>2, <3>1
    <3>2. CASE k # 0
      <4>1. k - 1 \in Nat /\ (k - 1) + 1 = k
        BY <3>2
      <4>2. c[k] = 2 * c[k - 1] /\ c[k - 1] \in Nat
        BY <1>3, <4>1
      <4>3. initial_RTO_ms * (2 * c[k - 1]) = 2 * (initial_RTO_ms * c[k - 1])
        BY <1>1, <4>2
      <4> QED BY <3>2, <4>1, <4>2, <4>3
    <3> QED BY <3>1, <3>2
  <2> QED BY <2>1
<1>5. Backoff = Step(Backoff)
  <2>1. \E f : f = Step(f)
    BY <1>4
  <2>2. Backoff = CHOOSE f : f = Step(f)
    BY DEF Backoff
  <2> HIDE DEF Step
  <2> QED BY <2>1, <2>2
<1>6. Backoff[0] = initial_RTO_ms
  BY <1>5
<1>7. \A k \in Nat : Backoff[k + 1] = 2 * Backoff[k]
  <2> TAKE k \in Nat
  <2>1. k + 1 \in Nat /\ k + 1 # 0 /\ (k + 1) - 1 = k
    OBVIOUS
  <2> QED BY <1>5, <2>1
<1>8. ASSUME NEW k \in Nat PROVE Backoff[k] \in Nat
  <2> DEFINE D == {i \in 0..k : Backoff[i] \in Nat}
  <2>1. 0 \in D
    BY <1>1, <1>6
  <2>2. \A i \in 0..(k - 1) : i \in D => i + 1 \in D
    BY <1>7
  <2>3. 0..k \subseteq D
    <3> HIDE DEF D
    <3> QED BY <2>1, <2>2, InductionUpTo
  <2> QED BY <2>3
<1> QED BY <1>6, <1>7, <1>8
-----------------------------------------------------------------------------
(* What one call of push() makes of n bytes of the stream.                   *)
LEMMA SegmentCountIs ==
    ASSUME NEW n \in Nat
    PROVE  LET c == SegmentCount(n)
           IN  /\ c \in Nat
               /\ n > 0 => c >= 1
               /\ n = 0 => c = Bit(FinFits(n))
               /\ c * MAX_PAYLOAD_SIZE >= n
               /\ \A i \in 1..(c - 1) : i * MAX_PAYLOAD_SIZE < n
<1> DEFINE c == SegmentCount(n)
           M == MAX_PAYLOAD_SIZE
<1>1. M \in Nat \ {0}
  BY SenderAssumption
<1> HIDE DEF M
<1>2. CASE n = 0
  <2>1. c \in {0, 1} /\ c = Bit(FinFits(n))
    BY <1>2, Zenon DEF SegmentCount, Bit
  <2> HIDE DEF c
  <2>2. c * M >= n
    BY <1>1, <1>2, <2>1
  <2>3. 1..(c - 1) = {}
    BY <2>1
  <2> QED BY <1>2, <2>1, <2>2, <2>3 DEF c, M
<1>3. CASE n > 0
  <2> DEFINE a == n + M - 1
             r == a % M
  <2>1. a \in Int /\ c = a \div M
    BY <1>1, <1>3 DEF SegmentCount, M
  <2>2. r \in 0..(M - 1) /\ c \in Int /\ a = M * c + r
    BY <1>1, <2>1, DivisionAlgorithm
  <2> HIDE DEF c, r
  <2>3. c >= 1
    <3>1. ASSUME c <= 0 PROVE FALSE
      <4>1. M * c <= 0 /\ M * c \in Int
        BY <1>1, <2>2, <3>1
      <4> QED BY <1>1, <1>3, <2>2, <4>1
    <3> QED BY <2>2, <3>1
  <2>4. M * c \in Int /\ M * c >= n /\ M * c - M < n
    BY <1>1, <2>2
  <2>5. c * M = M * c
    BY <1>1, <2>2
  <2>6. ASSUME NEW i \in 1..(c - 1) PROVE i * M < n
    <3> DEFINE x == (c - 1 - i) * M
               y == M * c
               z == i * M
    <3>1. x >= 0 /\ x \in Int
      BY <1>1, <2>2
    <3>2. z \in Int /\ z = (y - M) - x
      BY <1>1, <2>2
    <3>3. y \in Int /\ y - M < n
      BY <2>4
    <3> HIDE DEF x, y, z
    <3>4. z < n
      BY <1>1, <3>1, <3>2, <3>3
    <3> QED BY <3>4 DEF z
  <2> QED BY <1>3, <2>2, <2>3, <2>4, <2>5, <2>6 DEF c, M
<1> QED BY <1>2, <1>3

(* Segment i of the call starts i - 1 full payloads into what is taken, and  *)
(* carries a full payload or the rest.                                       *)
LEMMA PayloadsAre ==
    ASSUME NEW n \in Nat, NEW i \in 1..SegmentCount(n)
    PROVE  /\ (i - 1) * MAX_PAYLOAD_SIZE \in 0..n
           /\ PayloadEnd(i, n) \in 0..n
           /\ PayloadEnd(i, n) - (i - 1) * MAX_PAYLOAD_SIZE
                 \in 0..MAX_PAYLOAD_SIZE
           /\ n > 0 => PayloadEnd(i, n) > (i - 1) * MAX_PAYLOAD_SIZE
           /\ i < SegmentCount(n) => PayloadEnd(i, n) = i * MAX_PAYLOAD_SIZE
           /\ i = SegmentCount(n) => PayloadEnd(i, n) = n
           /\ i * MAX_PAYLOAD_SIZE = (i - 1) * MAX_PAYLOAD_SIZE + MAX_PAYLOAD_SIZE
<1> DEFINE c == SegmentCount(n)
           M == MAX_PAYLOAD_SIZE
           lo == (i - 1) * M
           hi == i * M
<1>1. M \in Nat \ {0}
  BY SenderAssumption
<1>2. c \in Nat /\ c * M >= n /\ \A j \in 1..(c - 1) : j * M < n
  BY SegmentCountIs
<1>3. n = 0 => c \in {0, 1}
  BY SegmentCountIs, Zenon DEF Bit
<1>4. PayloadEnd(i, n) = IF hi <= n THEN hi ELSE n
  BY DEF PayloadEnd, Smaller
<1> HIDE DEF c, M
<1>5. i \in 1..c
  BY DEF c
<1>6. lo \in Nat /\ hi \in Nat /\ hi = lo + M
  BY <1>1, <1>2, <1>5
<1>7. lo <= n /\ (n > 0 => lo < n)
  <2>1. CASE i = 1
    BY <1>1, <2>1
  <2>2. CASE i > 1
    <3>1. i - 1 \in 1..(c - 1)
      BY <1>2, <1>5, <2>2
    <3>2. lo < n
      BY <1>2, <3>1
    <3> QED BY <3>2, <1>6
  <2> QED BY <1>5, <2>1, <2>2
<1>8. i < c => hi < n
  BY <1>2, <1>5
<1>9. i = c => hi >= n
  BY <1>2
<1> HIDE DEF lo, hi
<1>10. /\ lo \in 0..n /\ PayloadEnd(i, n) \in 0..n
       /\ PayloadEnd(i, n) - lo \in 0..M
       /\ n > 0 => PayloadEnd(i, n) > lo
       /\ i < c => PayloadEnd(i, n) = hi
       /\ i = c => PayloadEnd(i, n) = n
  BY <1>1, <1>4, <1>6, <1>7, <1>8, <1>9
<1> QED BY <1>6, <1>10 DEF lo, hi, c, M

LEMMA NewSegmentsAre ==
    ASSUME Types, NEW n \in 0..BytesBuffered(outbound)
    PROVE  LET segs == NewSegments(n)
               c == SegmentCount(n)
               lo(i) == (i - 1) * MAX_PAYLOAD_SIZE
           IN  /\ segs \in Seq(Segments) /\ Len(segs) = c
               /\ \A i \in 1..c :
                     /\ segs[i].seqno = Wrap(Seqno + lo(i), isn_)
                     /\ segs[i].SYN = FALSE
                     /\ segs[i].FIN = (i = c /\ FinFits(n))
                     /\ Len(segs[i].payload) = PayloadEnd(i, n) - lo(i)
                     /\ \A j \in 1..Len(segs[i].payload) :
                           /\ lo(i) + j \in 1..BytesBuffered(outbound)
                           /\ segs[i].payload[j] = outbound.queue[lo(i) + j]
<1> DEFINE segs == NewSegments(n)
           c == SegmentCount(n)
           lo(i) == (i - 1) * MAX_PAYLOAD_SIZE
           bytes(i) == SubSeq(outbound.queue, lo(i) + 1, PayloadEnd(i, n))
           fin(i) == i = c /\ FinFits(n)
           seg(i) == Segment(Wrap(Seqno + lo(i), isn_), FALSE, bytes(i), fin(i))
<1>1. /\ outbound.queue \in Seq(Nat) /\ Seqno \in Nat /\ isn_ \in Wrap32
      /\ n \in Nat /\ n <= Len(outbound.queue)
      /\ BytesBuffered(outbound) = Len(outbound.queue)
  <2>1. outbound.queue \in Seq(Nat) /\ Seqno \in Nat /\ isn_ \in Wrap32
    BY DEF Types, Streams
  <2>2. Len(outbound.queue) \in Nat
    BY <2>1, LenProperties
  <2> QED BY <2>1, <2>2 DEF BytesBuffered
<1>2. segs = [i \in 1..c |-> seg(i)]
  BY DEF NewSegments, SegmentNo
<1>3. c \in Nat
  BY <1>1, SegmentCountIs
<1>4. ASSUME NEW i \in 1..c
      PROVE  /\ bytes(i) \in Seq(Nat) /\ Len(bytes(i)) = PayloadEnd(i, n) - lo(i)
             /\ \A j \in 1..Len(bytes(i)) :
                   /\ lo(i) + j \in 1..Len(outbound.queue)
                   /\ bytes(i)[j] = outbound.queue[lo(i) + j]
             /\ Seqno + lo(i) \in Nat
  <2> DEFINE a == lo(i)
             e == PayloadEnd(i, n)
             b == SubSeq(outbound.queue, a + 1, e)
  <2>1. a \in 0..n /\ e \in 0..n /\ e - a >= 0
    <3>1. e - a \in 0..MAX_PAYLOAD_SIZE /\ a \in 0..n /\ e \in 0..n
      BY <1>1, PayloadsAre
    <3> QED BY <3>1
  <2> HIDE DEF a, e
  <2>2. \A k \in 1..Len(outbound.queue) : outbound.queue[k] \in Nat
    BY <1>1, LenProperties
  <2>3. /\ b \in Seq(Nat)
        /\ Len(b) = IF a + 1 <= e THEN e - (a + 1) + 1 ELSE 0
        /\ \A j \in 1 .. e - (a + 1) + 1 : b[j] = outbound.queue[(a + 1) + j - 1]
    <3>1. a + 1 \in Int /\ e \in Int
          /\ \A k \in (a + 1)..e : k \in 1..Len(outbound.queue)
      BY <1>1, <2>1, LenProperties
    <3>2. \A k \in (a + 1)..e : outbound.queue[k] \in Nat
      BY <2>2, <3>1
    <3> QED BY <3>1, <3>2, SubSeqProperties
  <2>4. Len(b) = e - a
    BY <1>1, <2>1, <2>3
  <2>5. ASSUME NEW j \in 1..Len(b)
        PROVE  /\ a + j \in 1..Len(outbound.queue)
               /\ b[j] = outbound.queue[a + j]
    <3>1. j \in 1 .. e - (a + 1) + 1 /\ (a + 1) + j - 1 = a + j
          /\ a + j \in 1..n
      BY <1>1, <2>1, <2>4
    <3>2. a + j \in 1..Len(outbound.queue)
      BY <1>1, <3>1, LenProperties
    <3> QED BY <2>3, <3>1, <3>2
  <2>6. Seqno + a \in Nat
    BY <1>1, <2>1
  <2> QED BY <2>3, <2>4, <2>5, <2>6 DEF a, e
<1> HIDE DEF bytes, fin, lo
<1>5. ASSUME NEW i \in 1..c PROVE seg(i) \in Segments
  <2>1. Wrap(Seqno + lo(i), isn_) \in Wrap32
    BY <1>1, <1>4, WrapOfSum, 0 \in Nat
  <2>2. fin(i) \in BOOLEAN /\ bytes(i) \in Seq(Nat)
    BY <1>4 DEF fin
  <2> QED BY <2>1, <2>2 DEF Segment, Segments
<1>6. segs \in Seq(Segments) /\ Len(segs) = c
  <2> HIDE DEF seg
  <2>1. segs \in [1..c -> Segments]
    BY <1>2, <1>5
  <2>2. segs \in Seq(Segments)
    BY <1>3, <2>1, SeqDef
  <2> HIDE DEF segs, c
  <2> QED BY <1>3, <2>1, <2>2
<1>7. ASSUME NEW i \in 1..c
      PROVE  /\ segs[i].seqno = Wrap(Seqno + lo(i), isn_)
             /\ segs[i].SYN = FALSE /\ segs[i].payload = bytes(i)
             /\ segs[i].FIN = fin(i)
  BY <1>2 DEF Segment
<1> QED BY <1>1, <1>4, <1>6, <1>7 DEF fin, lo

LEMMA NewNumbersAre ==
    ASSUME Types, NEW n \in 0..BytesBuffered(outbound)
    PROVE  LET segs == NewSegments(n)
               c == SegmentCount(n)
           IN  /\ \A i \in 1..c :
                     /\ SequenceLength(segs[i]) > 0
                     /\ SequenceNumbers(SubSeq(segs, 1, i - 1))
                           = (i - 1) * MAX_PAYLOAD_SIZE
               /\ SequenceNumbers(segs) = n + Bit(FinFits(n))
<1> DEFINE segs == NewSegments(n)
           c == SegmentCount(n)
           M == MAX_PAYLOAD_SIZE
           lo(i) == (i - 1) * MAX_PAYLOAD_SIZE
           last == Bit(FinFits(n))
<1>1. /\ segs \in Seq(Segments) /\ Len(segs) = c
      /\ \A i \in 1..c :
            /\ segs[i].SYN = FALSE
            /\ segs[i].FIN = (i = c /\ FinFits(n))
            /\ Len(segs[i].payload) = PayloadEnd(i, n) - lo(i)
      /\ \A i \in 1..c : segs[i] \in Segments
  BY NewSegmentsAre, ElementOfSeq
<1>2. /\ n \in Nat /\ c \in Nat /\ M \in Nat \ {0}
      /\ n = 0 => c = last
  <2>1. n \in Nat
    OBVIOUS
  <2> QED BY <2>1, SegmentCountIs, SenderAssumption
<1>3. last \in {0, 1}
  BY Zenon DEF Bit
<1>4. ASSUME NEW i \in 1..c
      PROVE  /\ lo(i) \in 0..n /\ PayloadEnd(i, n) \in 0..n
             /\ n > 0 => PayloadEnd(i, n) > lo(i)
             /\ i < c => PayloadEnd(i, n) = i * M /\ i * M = lo(i) + M
             /\ i = c => PayloadEnd(i, n) = n
  BY <1>2, PayloadsAre
<1>5. ASSUME NEW i \in 1..c
      PROVE  /\ SequenceLength(segs[i]) =
                   PayloadEnd(i, n) - lo(i) + (IF i = c THEN last ELSE 0)
             /\ SequenceLength(segs[i]) > 0
  <2>1. SequenceLength(segs[i]) = Bit(segs[i].SYN) + Len(segs[i].payload)
                                      + Bit(segs[i].FIN)
    BY <1>1, LengthIsNat
  <2>2. Bit(segs[i].SYN) = 0
    BY <1>1 DEF Bit
  <2>3. Bit(segs[i].FIN) = IF i = c THEN last ELSE 0
    BY <1>1, Zenon DEF Bit
  <2>4. Len(segs[i].payload) = PayloadEnd(i, n) - lo(i)
    BY <1>1
  <2> HIDE DEF segs, c, lo, last
  <2>5. SequenceLength(segs[i]) =
            PayloadEnd(i, n) - lo(i) + (IF i = c THEN last ELSE 0)
    BY <1>3, <1>4, <2>1, <2>2, <2>3, <2>4
  <2>6. SequenceLength(segs[i]) > 0
    <3>1. n \in Nat /\ c \in Nat /\ (n = 0 => c = last)
      BY <1>2
    <3>2. CASE n > 0
      BY <1>3, <1>4, <2>5, <3>2
    <3>3. CASE n = 0
      <4>1. last = 1 /\ i = c
        BY <1>3, <3>1, <3>3
      <4> QED BY <1>4, <2>5, <3>3, <4>1
    <3> QED BY <3>1, <3>2, <3>3
  <2> QED BY <2>5, <2>6
<1> HIDE DEF segs, c, last
<1> DEFINE D == {k \in 0..c : k = c \/ SequenceNumbers(SubSeq(segs, 1, k)) = k * M}
<1>6. 0..c \subseteq D
  <2>1. SequenceNumbers(SubSeq(segs, 1, 0)) = 0
    <3>1. SubSeq(segs, 1, 0) = <<>>
      BY SubSeqEmpty
    <3> QED BY <3>1, NumbersOfNone
  <2>2. 0 \in D
    <3>1. 0 * M = 0 /\ 0 \in 0..c
      BY <1>2
    <3> QED BY <2>1, <3>1
  <2>3. ASSUME NEW k \in 0..(c - 1), k \in D PROVE k + 1 \in D
    <3>1. CASE k + 1 = c
      BY <1>2, <3>1
    <3>2. CASE k + 1 # c
      <4>1. k + 1 \in 1..c /\ k + 1 < c /\ k # c /\ k \in 0..Len(segs)
            /\ k < Len(segs) /\ (k + 1) - 1 = k
        BY <1>1, <1>2, <3>2
      <4>2. SequenceNumbers(SubSeq(segs, 1, k)) = k * M
        BY <2>3, <4>1
      <4>3. SequenceNumbers(SubSeq(segs, 1, k + 1)) =
                SequenceNumbers(SubSeq(segs, 1, k)) + SequenceLength(segs[k + 1])
        BY <1>1, <4>1, NumbersOfPrefix
      <4>4. SequenceLength(segs[k + 1]) = PayloadEnd(k + 1, n) - lo(k + 1)
            /\ PayloadEnd(k + 1, n) = (k + 1) * M
            /\ lo(k + 1) = k * M
        <5>1. SequenceLength(segs[k + 1]) = PayloadEnd(k + 1, n) - lo(k + 1) + 0
              /\ PayloadEnd(k + 1, n) = (k + 1) * M
          BY <1>4, <1>5, <4>1
        <5>2. lo(k + 1) \in 0..n /\ PayloadEnd(k + 1, n) \in 0..n
          BY <1>4, <4>1
        <5> QED BY <4>1, <5>1, <5>2
      <4>5. k * M \in Int /\ (k + 1) * M \in Int
        <5>1. M \in Int /\ k \in Int /\ k + 1 \in Int
          BY <1>2
        <5> HIDE DEF M
        <5> QED BY <5>1
      <4>6. SequenceNumbers(SubSeq(segs, 1, k + 1)) = (k + 1) * M
        <5> DEFINE x == k * M
                   y == (k + 1) * M
        <5> HIDE DEF x, y
        <5> QED BY <4>2, <4>3, <4>4, <4>5 DEF x, y
      <4> QED BY <1>2, <4>1, <4>6
    <3> QED BY <3>1, <3>2
  <2> HIDE DEF D
  <2> QED BY <1>2, <2>2, <2>3, InductionUpTo
<1>7. ASSUME NEW i \in 1..c
      PROVE  SequenceNumbers(SubSeq(segs, 1, i - 1)) = lo(i)
  <2>1. i - 1 \in 0..c /\ i - 1 # c
    BY <1>2
  <2>2. i - 1 \in D
    BY <1>6, <2>1
  <2> QED BY <2>1, <2>2
<1>8. SequenceNumbers(segs) = n + last
  <2> HIDE DEF D
  <2>1. CASE c = 0
    <3>1. segs = <<>>
      BY <1>1, <2>1, EmptySeq
    <3>2. n = 0
      <4>1. n > 0 => c >= 1
        BY <1>2, SegmentCountIs DEF c
      <4> QED BY <1>2, <2>1, <4>1
    <3> QED BY <1>2, <1>3, <2>1, <3>1, <3>2, NumbersOfNone
  <2>2. CASE c > 0
    <3>1. c \in 1..c /\ c - 1 \in 0..Len(segs) /\ c - 1 < Len(segs)
          /\ (c - 1) + 1 = c
      BY <1>1, <1>2, <2>2
    <3>2. SequenceNumbers(SubSeq(segs, 1, (c - 1) + 1)) =
              SequenceNumbers(SubSeq(segs, 1, c - 1))
                  + SequenceLength(segs[(c - 1) + 1])
      BY <1>1, <3>1, NumbersOfPrefix
    <3>3. SequenceNumbers(SubSeq(segs, 1, c - 1)) = lo(c)
      BY <1>7, <3>1
    <3>4. SequenceLength(segs[c]) = n - lo(c) + last /\ lo(c) \in 0..n
      BY <1>4, <1>5, <3>1
    <3>5. SubSeq(segs, 1, c) = segs
      BY <1>1, SubSeqFull
    <3>6. SequenceNumbers(segs) = lo(c) + (n - lo(c) + last)
      BY <3>1, <3>2, <3>3, <3>4, <3>5
    <3> HIDE DEF lo
    <3> QED BY <1>2, <1>3, <3>4, <3>6
  <2> QED BY <1>2, <2>1, <2>2
<1> QED BY <1>5, <1>7, <1>8 DEF segs, c, last
-----------------------------------------------------------------------------
(* Consequences of the invariant that more than one step needs.              *)
LEMMA InRange ==
    ASSUME Types, Windowed, StreamInOrder, StreamAccounted
    PROVE  /\ Seqno \in Nat /\ Seqno < Word \div 2
           /\ num_in_flight \in Nat /\ num_in_flight < Base \div 2
<1>1. Bit(SynSent) \in {0, 1} /\ Bit(FinSent) \in {0, 1}
  BY Zenon DEF Bit
<1>2. outbound.popped \in Nat /\ Len(outbound.queue) \in Nat
  <2>1. outbound.popped \in Nat /\ outbound.queue \in Seq(Nat)
    BY DEF Types, Streams
  <2> QED BY <2>1, LenProperties
<1>3. outbound.popped + Len(outbound.queue) <= StreamLen
      /\ Seqno = Bit(SynSent) + outbound.popped + Bit(FinSent)
  BY DEF StreamInOrder, StreamAccounted, BytesPushed, BytesPopped
<1>4. Seqno \in Nat /\ num_in_flight \in Nat
      /\ num_in_flight <= Larger(MaxWindow, 2)
  BY DEF Types, Windowed
<1>5. Seqno <= StreamLen + 2
  <2> HIDE DEF SynSent, FinSent
  <2> QED BY <1>1, <1>2, <1>3, PeerAssumption
<1> QED BY <1>4, <1>5, HalfLap, PeerAssumption DEF Larger

(* The sender finds the place of each outstanding segment from its seqno.    *)
LEMMA PlacesRecovered ==
    ASSUME Types, Tiled, Windowed, StreamInOrder, StreamAccounted,
           NEW i \in 1..Len(out_Noackqueue)
    PROVE  /\ Place(out_Noackqueue, LeftEdge, i) \in Nat
           /\ Place(out_Noackqueue, LeftEdge, i) >= LeftEdge
           /\ AbsoluteNo(out_Noackqueue[i].seqno)
                 = Place(out_Noackqueue, LeftEdge, i)
           /\ EndNo(out_Noackqueue[i]) = Place(out_Noackqueue, LeftEdge, i + 1)
           /\ EndNo(out_Noackqueue[i]) <= Seqno
           /\ EndNo(out_Noackqueue[i]) \in Nat
           /\ i = Len(out_Noackqueue) => EndNo(out_Noackqueue[i]) = Seqno
<1> DEFINE q == out_Noackqueue
           a == SequenceNumbers(SubSeq(q, 1, i - 1))
           b == SequenceNumbers(SubSeq(q, 1, i))
           w == SequenceLength(q[i])
<1>1. q \in Seq(Segments) /\ Len(q) \in Nat /\ DOMAIN q = 1..Len(q)
      /\ q[i] \in Segments /\ isn_ \in Wrap32
  BY LenProperties, ElementOfSeq DEF Types
<1>2. /\ Seqno \in Nat /\ Seqno < Word \div 2
      /\ num_in_flight \in Nat /\ num_in_flight < Base \div 2
      /\ num_in_flight = SequenceNumbers(q) /\ num_in_flight <= Seqno
  BY InRange DEF Tiled
<1>3. a \in Nat /\ b \in Nat /\ w \in Nat /\ b = a + w
  <2>1. i - 1 \in 0..Len(q) /\ i \in 0..Len(q) /\ i - 1 < Len(q)
        /\ (i - 1) + 1 = i
    BY <1>1
  <2>2. a \in Nat /\ SequenceNumbers(SubSeq(q, 1, (i - 1) + 1))
                         = a + SequenceLength(q[(i - 1) + 1])
    BY <1>1, <2>1, NumbersOfPrefix
  <2>3. b \in Nat
    BY <1>1, <2>1, NumbersOfPrefix
  <2>4. w \in Nat
    BY <1>1, LengthIsNat
  <2> QED BY <2>1, <2>2, <2>3, <2>4
<1>4. b <= num_in_flight /\ (i = Len(q) => b = num_in_flight)
  <2>1. SubSeq(q, 1, Len(q)) = q
    BY <1>1, SubSeqFull
  <2>2. Len(q) \in 0..Len(q) /\ i \in 0..Len(q)
    BY <1>1
  <2>3. b <= SequenceNumbers(SubSeq(q, 1, Len(q)))
    BY <1>1, <2>2, LongerUsesMore
  <2> QED BY <1>2, <2>1, <2>3
<1>5. Place(q, LeftEdge, i) = LeftEdge + a
      /\ Place(q, LeftEdge, i + 1) = LeftEdge + b
  BY <1>1 DEF Place
<1>6. q[i].seqno = Wrap(LeftEdge + a, isn_)
  BY <1>1, <1>5 DEF Tiled
<1> HIDE DEF a, b, w, q
<1>7. /\ LeftEdge + a \in Nat /\ LeftEdge + a >= LeftEdge
      /\ LeftEdge + b \in Nat /\ LeftEdge + b <= Seqno
      /\ LeftEdge + b = (LeftEdge + a) + w
      /\ i = Len(q) => LeftEdge + b = Seqno
      /\ LeftEdge + a <= Seqno /\ Seqno - (LeftEdge + a) < Base \div 2
  <2> DEFINE e == LeftEdge
             h == Base \div 2
  <2>1. /\ e \in Nat /\ e + num_in_flight = Seqno
        /\ num_in_flight \in Nat /\ Seqno \in Nat /\ h \in Nat
        /\ num_in_flight < h
    BY <1>2, HalfLap DEF LeftEdge
  <2> HIDE DEF e, h
  <2>2. /\ e + a \in Nat /\ e + a >= e
        /\ e + b \in Nat /\ e + b <= Seqno /\ e + b = (e + a) + w
        /\ e + a <= Seqno /\ Seqno - (e + a) < h
    BY <1>3, <1>4, <2>1
  <2>3. i = Len(q) => e + b = Seqno
    BY <1>4, <2>1
  <2> QED BY <2>2, <2>3 DEF e, h
<1>8. Unwrap(Wrap(LeftEdge + a, isn_), isn_, Seqno) = LeftEdge + a
  <2> DEFINE n == LeftEdge + a
  <2>1. /\ n \in Nat /\ isn_ \in Wrap32 /\ Seqno \in Nat
        /\ Seqno < Word \div 2 /\ n <= Seqno /\ Seqno - n < Base \div 2
    BY <1>1, <1>2, <1>7
  <2> HIDE DEF n
  <2>2. Unwrap(Wrap(n, isn_), isn_, Seqno) = n
    BY <2>1, UnwrapRecovers
  <2> QED BY <2>2 DEF n
<1>9. AbsoluteNo(q[i].seqno) = LeftEdge + a
  BY <1>6, <1>8 DEF AbsoluteNo
<1>10. EndNo(q[i]) = LeftEdge + b
  BY <1>7, <1>9 DEF EndNo, w
<1> QED BY <1>5, <1>7, <1>9, <1>10 DEF q

(* receive() stops at the first segment that is not acknowledged as a whole. *)
LEMMA AckedCountIs ==
    ASSUME Types, NEW ack \in Nat,
           \A i \in 1..Len(out_Noackqueue) : EndNo(out_Noackqueue[i]) \in Nat
    PROVE  LET k == AckedCount(ack)
           IN  /\ k \in 0..Len(out_Noackqueue)
               /\ \A i \in 1..k : EndNo(out_Noackqueue[i]) <= ack
               /\ k < Len(out_Noackqueue) => EndNo(out_Noackqueue[k + 1]) > ack
<1> DEFINE q == out_Noackqueue
           Stops(k) == k < Len(q) => EndNo(q[k + 1]) > ack
           Good(k) == /\ \A i \in 1..k : EndNo(q[i]) <= ack
                      /\ Stops(k)
           T == {k \in 0..Len(q) : Stops(k)}
<1>1. q \in Seq(Segments) /\ Len(q) \in Nat
  BY LenProperties DEF Types
<1>2. T \in SUBSET Nat /\ Len(q) \in T
  BY <1>1
<1>3. PICK x \in T : \A y \in T : x <= y
  <2> HIDE DEF T
  <2> QED BY <1>2, LeastNumber
<1>4. ASSUME NEW i \in 1..x PROVE EndNo(q[i]) <= ack
  <2>1. x \in 0..Len(q) /\ i - 1 \in 0..Len(q) /\ (i - 1) + 1 = i
        /\ i \in 1..Len(q) /\ i - 1 < x /\ i - 1 < Len(q)
    BY <1>1
  <2>2. i - 1 \notin T
    BY <1>1, <1>3, <2>1
  <2>3. ~(EndNo(q[i]) > ack)
    BY <2>1, <2>2
  <2> HIDE DEF q
  <2>4. EndNo(q[i]) \in Nat
    BY <2>1 DEF q
  <2> QED BY <2>3, <2>4
<1>5. x \in 0..Len(q) /\ Good(x)
  BY <1>4
<1>6. \E k \in 0..Len(q) : Good(k)
  BY <1>5, Zenon
<1>7. AckedCount(ack) = CHOOSE k \in 0..Len(q) : Good(k)
  BY DEF AckedCount
<1> HIDE DEF Good
<1>8. AckedCount(ack) \in 0..Len(q) /\ Good(AckedCount(ack))
  BY <1>6, <1>7, Zenon
<1> QED BY <1>8 DEF Good
-----------------------------------------------------------------------------
(* push_msg(): new segments that start where the last one ended.             *)
LEMMA PushTypes ==
    ASSUME Types, TimerRunsIffOutstanding, NEW msgs \in Seq(Segments),
           push_msgs(msgs), isn_' = isn_,
           UNCHANGED <<Now_RTO_, Num_Resend>>
    PROVE  /\ num_in_flight' \in Nat /\ Seqno' \in Nat
           /\ timer_' \in [open : BOOLEAN, left : Int]
           /\ out_Noackqueue' \in Seq(Segments)
           /\ out_Readyqueue' \in Seq(Segments)
           /\ TimerRunsIffOutstanding'
<1>1. /\ out_Noackqueue \in Seq(Segments) /\ out_Readyqueue \in Seq(Segments)
      /\ timer_ \in [open : BOOLEAN, left : Int]
      /\ num_in_flight \in Nat /\ Seqno \in Nat /\ Now_RTO_ \in Nat
  BY DEF Types
<1>2. SequenceNumbers(msgs) \in Nat
  BY NumbersFinite
<1>3. num_in_flight' \in Nat /\ Seqno' \in Nat
  BY <1>1, <1>2 DEF push_msgs
<1>4. out_Noackqueue' \in Seq(Segments) /\ out_Readyqueue' \in Seq(Segments)
  BY <1>1, ConcatProperties DEF push_msgs
<1>5. timer_' = IF msgs # <<>> /\ ~timer_.open THEN StartedTimer(Now_RTO_)
                ELSE timer_
  BY DEF push_msgs, StartsTimer
<1>6. timer_' \in [open : BOOLEAN, left : Int]
  BY <1>1, <1>5 DEF StartedTimer
<1>7. timer_'.open <=> out_Noackqueue' # <<>>
  <2>1. timer_.open <=> out_Noackqueue # <<>>
    BY DEF TimerRunsIffOutstanding
  <2>2. out_Noackqueue' = <<>> <=> out_Noackqueue = <<>> /\ msgs = <<>>
    BY <1>1, ConcatEqualIffEmpty DEF push_msgs
  <2> QED BY <1>5, <2>1, <2>2 DEF StartedTimer
<1>8. TimerRunsIffOutstanding'
  BY <1>7 DEF TimerRunsIffOutstanding
<1> QED BY <1>3, <1>4, <1>6, <1>8

LEMMA PushTiles ==
    ASSUME Types, Tiled, NEW msgs \in Seq(Segments),
           \A i \in 1..Len(msgs) :
               msgs[i].seqno =
                   Wrap(Seqno + SequenceNumbers(SubSeq(msgs, 1, i - 1)), isn_),
           push_msgs(msgs), isn_' = isn_
    PROVE  Tiled' /\ LeftEdge' = LeftEdge
<1> DEFINE q == out_Noackqueue
           both == q \o msgs
<1>1. /\ q \in Seq(Segments) /\ Len(q) \in Nat /\ Len(msgs) \in Nat
      /\ num_in_flight \in Nat /\ Seqno \in Nat
      /\ num_in_flight = SequenceNumbers(q) /\ num_in_flight <= Seqno
  BY LenProperties DEF Types, Tiled
<1>2. /\ SequenceNumbers(msgs) \in Nat
      /\ SequenceNumbers(both) = SequenceNumbers(q) + SequenceNumbers(msgs)
  BY <1>1, NumbersFinite, NumbersOfBoth
<1>3. out_Noackqueue' = both
      /\ num_in_flight' = num_in_flight + SequenceNumbers(msgs)
      /\ Seqno' = Seqno + SequenceNumbers(msgs)
  BY DEF push_msgs
<1>4. LeftEdge' = LeftEdge /\ LeftEdge + SequenceNumbers(q) = Seqno
      /\ LeftEdge \in Nat
  BY <1>1, <1>2, <1>3 DEF LeftEdge
<1>5. /\ both \in Seq(Segments) /\ DOMAIN both = 1..Len(both)
      /\ Len(both) = Len(q) + Len(msgs)
      /\ \A i \in 1 .. Len(q) + Len(msgs) :
            both[i] = IF i <= Len(q) THEN q[i] ELSE msgs[i - Len(q)]
  BY <1>1, ConcatProperties, LenProperties
<1>6. /\ \A j \in 0..Len(q) : SubSeq(both, 1, j) = SubSeq(q, 1, j)
      /\ \A j \in 0..Len(msgs) :
            SequenceNumbers(SubSeq(both, 1, Len(q) + j)) =
                SequenceNumbers(q) + SequenceNumbers(SubSeq(msgs, 1, j))
  BY <1>1, NumbersOfLonger
<1>7. \A i \in 1..Len(q) : q[i].seqno = Wrap(Place(q, LeftEdge, i), isn_)
  BY <1>1, LenProperties DEF Tiled
<1>8. ASSUME NEW i \in 1..Len(both)
      PROVE  both[i].seqno = Wrap(Place(both, LeftEdge, i), isn_)
  <2> HIDE DEF both, q
  <2>1. CASE i <= Len(q)
    <3>1. i \in 1..Len(q) /\ i - 1 \in 0..Len(q) /\ both[i] = q[i]
      BY <1>1, <1>5, <2>1
    <3> QED BY <1>6, <1>7, <3>1 DEF Place
  <2>2. CASE ~(i <= Len(q))
    <3> DEFINE j == i - Len(q)
    <3>1. j \in 1..Len(msgs) /\ j - 1 \in 0..Len(msgs) /\ both[i] = msgs[j]
          /\ Len(q) + (j - 1) = i - 1
      BY <1>1, <1>5, <2>2
    <3> HIDE DEF j
    <3>2. SequenceNumbers(SubSeq(both, 1, i - 1)) =
              SequenceNumbers(q) + SequenceNumbers(SubSeq(msgs, 1, j - 1))
      BY <1>6, <3>1
    <3>3. SequenceNumbers(SubSeq(msgs, 1, j - 1)) \in Nat
      BY <3>1, NumbersOfPrefix
    <3>4. Place(both, LeftEdge, i)
              = Seqno + SequenceNumbers(SubSeq(msgs, 1, j - 1))
      BY <1>1, <1>4, <3>2, <3>3 DEF Place
    <3> QED BY <3>1, <3>4
  <2> QED BY <2>1, <2>2
<1>9. num_in_flight' = SequenceNumbers(out_Noackqueue')
      /\ num_in_flight' <= Seqno'
  BY <1>1, <1>2, <1>3
<1>10. \A i \in DOMAIN out_Noackqueue' :
          out_Noackqueue'[i].seqno = Wrap(Place(out_Noackqueue', LeftEdge', i), isn_')
  BY <1>3, <1>4, <1>5, <1>8
<1>11. Tiled'
  BY <1>9, <1>10 DEF Tiled
<1> QED BY <1>4, <1>11

(* A queue whose segments carry their bytes, put behind another.             *)
Carries(msg, isn) ==
    /\ Len(msg.payload) <= MAX_PAYLOAD_SIZE
    /\ SequenceLength(msg) > 0
    /\ msg.SYN => msg.seqno = isn /\ msg.payload = <<>>
    /\ \A j \in DOMAIN msg.payload :
          Wrap(msg.payload[j], isn) = Plus(msg.seqno, j - 1)
AllCarry(msgs, isn) == \A i \in DOMAIN msgs : Carries(msgs[i], isn)

LEMMA CarryIs ==
    /\ SegmentsCarryTheirBytes
          <=> AllCarry(out_Noackqueue, isn_) /\ AllCarry(out_Readyqueue, isn_)
    /\ SegmentsCarryTheirBytes'
          <=> AllCarry(out_Noackqueue', isn_') /\ AllCarry(out_Readyqueue', isn_')
BY DEF SegmentsCarryTheirBytes, CarriesItsBytes, AllCarry, Carries

LEMMA BothCarry ==
    ASSUME NEW s \in Seq(Segments), NEW t \in Seq(Segments),
           NEW isn, AllCarry(s, isn), AllCarry(t, isn)
    PROVE  AllCarry(s \o t, isn)
<1>1. /\ DOMAIN s = 1..Len(s) /\ DOMAIN t = 1..Len(t)
      /\ s \o t \in Seq(Segments) /\ Len(s \o t) = Len(s) + Len(t)
      /\ Len(s) \in Nat /\ Len(t) \in Nat
      /\ \A i \in 1 .. Len(s) + Len(t) :
            (s \o t)[i] = IF i <= Len(s) THEN s[i] ELSE t[i - Len(s)]
  BY ConcatProperties, LenProperties
<1>2. DOMAIN (s \o t) = 1 .. Len(s) + Len(t)
  BY <1>1, LenProperties
<1>3. ASSUME NEW i \in 1 .. Len(s) + Len(t)
      PROVE  Carries((s \o t)[i], isn)
  <2>1. CASE i <= Len(s)
    <3>1. i \in DOMAIN s /\ (s \o t)[i] = s[i]
      BY <1>1, <2>1
    <3> QED BY <3>1 DEF AllCarry
  <2>2. CASE ~(i <= Len(s))
    <3>1. i - Len(s) \in DOMAIN t /\ (s \o t)[i] = t[i - Len(s)]
      BY <1>1, <2>2
    <3> QED BY <3>1 DEF AllCarry
  <2> QED BY <2>1, <2>2
<1> QED BY <1>2, <1>3 DEF AllCarry

-----------------------------------------------------------------------------
(* One lemma for each step of the sender.                                    *)
LEMMA PushSynKeeps ==
    ASSUME IInv, PushSyn, edge' = edge
    PROVE  IInv' /\ LeftEdge' = LeftEdge /\ Seqno' >= Seqno
<1> DEFINE msg == Segment(Wrap(Seqno, isn_), TRUE, <<>>, FinWithSyn)
           msgs == <<msg>>
           f == Bit(FinWithSyn)
<1>1. /\ Types /\ Tiled /\ Windowed /\ StreamInOrder /\ NothingSentYet
      /\ TimerRunsIffOutstanding /\ SegmentsCarryTheirBytes /\ StreamAccounted
      /\ StatusMatchesOutstanding
  BY DEF IInv
<1>2. /\ status_ = "CLOSED" /\ push_msgs(msgs)
      /\ status_' = IF FinWithSyn THEN "FIN_WAIT" ELSE "SYN_SENT"
      /\ isn_' = isn_ /\ Now_RTO_' = Now_RTO_ /\ Num_Resend' = Num_Resend
      /\ window_size_' = window_size_ /\ outbound' = outbound
  BY DEF PushSyn, StatusAfterSyn
<1>3. /\ isn_ \in Wrap32 /\ out_Noackqueue = <<>> /\ outbound.popped = 0
      /\ Seqno = 0 /\ num_in_flight = 0
  <2>1. isn_ \in Wrap32 /\ out_Noackqueue = <<>> /\ outbound.popped = 0
    BY <1>1, <1>2 DEF Types, NothingSentYet, BytesPopped
  <2>2. Seqno = 0
    BY <1>1, <1>2, <2>1
       DEF StreamAccounted, SynSent, FinSent, Bit, BytesPopped
  <2>3. num_in_flight = 0
    BY <1>1, <2>1, NumbersOfNone DEF Tiled
  <2> QED BY <2>1, <2>2, <2>3
<1>4. f \in {0, 1} /\ FinWithSyn \in BOOLEAN
  BY Zenon DEF Bit, FinWithSyn, IsFinished
<1>5. msg \in Segments /\ msg.seqno = isn_ /\ msg.payload = <<>>
      /\ msg.SYN = TRUE /\ msg.FIN = FinWithSyn
  <2>1. Wrap(Seqno, isn_) = isn_
    BY <1>3, WrapOfSum, 0 \in Nat
  <2>2. <<>> \in Seq(Nat)
    BY EmptySeq
  <2> HIDE DEF f
  <2> QED BY <1>3, <1>4, <2>1, <2>2 DEF Segment, Segments
<1>6. SequenceLength(msg) = 1 + f
  <2>1. Bit(TRUE) = 1 /\ Len(<<>>) = 0
    BY EmptySeq DEF Bit
  <2>2. SequenceLength(msg) = 1 + 0 + f
    <3> HIDE DEF msg
    <3> QED BY <1>5, <2>1, Zenon DEF SequenceLength
  <2> HIDE DEF msg, f
  <2> QED BY <1>4, <2>2
<1> HIDE DEF msg, f
<1>7. msgs \in Seq(Segments) /\ Len(msgs) = 1 /\ msgs[1] = msg
      /\ SequenceNumbers(msgs) = 1 + f
  BY <1>5, <1>6, NumbersOfOne
<1>8. out_Noackqueue' = msgs /\ num_in_flight' = 1 + f /\ Seqno' = 1 + f
  <2> HIDE DEF msgs
  <2>1. <<>> \o msgs = msgs
    BY <1>7, ConcatEmptySeq
  <2> QED BY <1>2, <1>3, <1>4, <1>7, <2>1 DEF push_msgs
<1> HIDE DEF msgs
<1>9. Types' /\ TimerRunsIffOutstanding'
  <2>1. /\ num_in_flight' \in Nat /\ Seqno' \in Nat
        /\ timer_' \in [open : BOOLEAN, left : Int]
        /\ out_Noackqueue' \in Seq(Segments)
        /\ out_Readyqueue' \in Seq(Segments)
        /\ TimerRunsIffOutstanding'
    BY <1>1, <1>2, <1>7, PushTypes
  <2>2. status_' \in Status
    BY <1>2 DEF Status
  <2> QED BY <1>1, <1>2, <2>1, <2>2 DEF Types
<1>10. Tiled' /\ LeftEdge' = LeftEdge
  <2>1. ASSUME NEW i \in 1..Len(msgs)
        PROVE  msgs[i].seqno =
                   Wrap(Seqno + SequenceNumbers(SubSeq(msgs, 1, i - 1)), isn_)
    <3>1. i = 1 /\ SubSeq(msgs, 1, 0) = <<>>
      BY <1>7, SubSeqEmpty
    <3>2. Wrap(0, isn_) = isn_
      BY <1>3, WrapOfSum, 0 \in Nat
    <3>3. i - 1 = 0 /\ Seqno + SequenceNumbers(<<>>) = 0
      BY <1>3, <3>1, NumbersOfNone
    <3> QED BY <1>5, <1>7, <3>1, <3>2, <3>3
  <2> QED BY <1>1, <1>2, <1>7, <2>1, PushTiles
<1>11. Windowed'
  <2>1. Larger(MaxWindow, 2) >= 2 /\ edge >= 2
        /\ LeftEdge + Larger(window_size_, 1) <= edge
    BY <1>1, PeerAssumption DEF Windowed, Larger
  <2>2. num_in_flight' <= Larger(MaxWindow, 2) /\ Seqno' <= edge' /\ edge' >= 2
    <3>1. Larger(MaxWindow, 2) \in Int /\ edge \in Nat
      BY <1>1, PeerAssumption DEF Types, Larger
    <3> QED BY <1>4, <1>8, <2>1, <3>1
  <2>3. LeftEdge' + Larger(window_size_, 1)' <= edge'
    BY <1>2, <1>10, <2>1
  <2> QED BY <2>2, <2>3 DEF Windowed
<1>12. StreamInOrder' /\ NothingSentYet'
  BY <1>1, <1>2, <1>3 DEF StreamInOrder, NothingSentYet, BytesPushed, BytesPopped
<1>13. SegmentsCarryTheirBytes'
  <2>1. AllCarry(msgs, isn_)
    <3>1. DOMAIN msgs = {1}
      BY <1>7, LenProperties
    <3>2. Len(<<>>) = 0 /\ DOMAIN (<<>>) = {}
      BY EmptySeq
    <3>3. 1 + f > 0 /\ 0 <= MAX_PAYLOAD_SIZE
      BY <1>4, SenderAssumption
    <3>4. Carries(msg, isn_)
      BY <1>5, <1>6, <3>2, <3>3 DEF Carries
    <3> QED BY <1>7, <3>1, <3>4 DEF AllCarry
  <2>2. AllCarry(out_Readyqueue, isn_) /\ out_Readyqueue \in Seq(Segments)
        /\ out_Readyqueue' = out_Readyqueue \o msgs
    BY <1>1, <1>2, CarryIs DEF Types, push_msgs
  <2>3. AllCarry(out_Readyqueue', isn_)
    BY <1>7, <2>1, <2>2, BothCarry
  <2> QED BY <1>2, <1>8, <2>1, <2>3, CarryIs
<1>14. FinSent' <=> FinWithSyn
  BY <1>2 DEF FinSent
<1>15. StreamAccounted'
  <2>1. Bit(SynSent)' = 1
    BY <1>2 DEF SynSent, Bit
  <2>2. Bit(FinSent)' = f
    BY <1>14, Zenon DEF Bit, f
  <2>3. Seqno' = Bit(SynSent)' + BytesPopped(outbound)' + Bit(FinSent)'
    BY <1>2, <1>3, <1>4, <1>8, <2>1, <2>2 DEF BytesPopped
  <2>4. FinSent' => IsFinished(outbound)'
    BY <1>2, <1>14 DEF FinWithSyn
  <2>5. \A i \in DOMAIN out_Noackqueue' : out_Noackqueue'[i].FIN =>
            FinSent' /\ i = Len(out_Noackqueue')
    <3>1. DOMAIN msgs = {1}
      BY <1>7, LenProperties
    <3> QED BY <1>5, <1>7, <1>8, <1>14, <3>1
  <2> QED BY <2>3, <2>4, <2>5 DEF StreamAccounted
<1>16. StatusMatchesOutstanding'
  <2>1. out_Noackqueue' # <<>>
    BY <1>7, <1>8, EmptySeq
  <2> QED BY <1>2, <2>1 DEF StatusMatchesOutstanding
<1>17. Seqno' >= Seqno
  BY <1>3, <1>4, <1>8
<1> QED BY <1>9, <1>10, <1>11, <1>12, <1>13, <1>15, <1>16, <1>17 DEF IInv

(* What is left of the stream when n of its bytes have been taken.           *)
LEMMA StreamAfterPop ==
    ASSUME Types, StreamInOrder, NEW n \in 0..BytesBuffered(outbound)
    PROVE  LET s == Pop(outbound, n)
           IN  /\ s \in Streams
               /\ s.popped = outbound.popped + n
               /\ s.popped + Len(s.queue) <= StreamLen
               /\ \A i \in DOMAIN s.queue : s.queue[i] = s.popped + i
<1> DEFINE queue == outbound.queue
           rest == SubSeq(queue, n + 1, Len(queue))
           s == Pop(outbound, n)
<1>1. /\ outbound \in Streams /\ queue \in Seq(Nat) /\ outbound.popped \in Nat
      /\ Len(queue) \in Nat /\ DOMAIN queue = 1..Len(queue)
      /\ \A i \in 1..Len(queue) : queue[i] \in Nat
  <2>1. outbound \in Streams /\ queue \in Seq(Nat) /\ outbound.popped \in Nat
    BY DEF Types, Streams
  <2> QED BY <2>1, LenProperties
<1>2. /\ outbound.popped + Len(queue) <= StreamLen
      /\ \A i \in 1..Len(queue) : queue[i] = outbound.popped + i
  BY <1>1 DEF StreamInOrder, BytesPushed, BytesPopped
<1>3. n \in Nat /\ n <= Len(queue)
  BY <1>1 DEF BytesBuffered
<1>4. s = [outbound EXCEPT !.queue = rest, !.popped = outbound.popped + n]
  <2>1. Smaller(n, Len(queue)) = n
    BY <1>1, <1>3 DEF Smaller
  <2> QED BY <2>1 DEF Pop
<1>5. rest \in Seq(Nat) /\ Len(rest) = Len(queue) - n
      /\ \A i \in 1..Len(rest) : rest[i] = queue[n + i]
  <2>1. n + 1 \in Int /\ Len(queue) \in Int
        /\ \A i \in (n + 1)..Len(queue) : queue[i] \in Nat
    BY <1>1, <1>3
  <2>2. /\ rest \in Seq(Nat)
        /\ Len(rest) = IF n + 1 <= Len(queue) THEN Len(queue) - (n + 1) + 1 ELSE 0
        /\ \A i \in 1 .. Len(queue) - (n + 1) + 1 : rest[i] = queue[(n + 1) + i - 1]
    BY <2>1, SubSeqProperties
  <2>3. Len(rest) = Len(queue) - n
    <3> DEFINE l == Len(queue)
    <3>1. l \in Nat /\ n \in Nat /\ n <= l
      BY <1>1, <1>3
    <3>2. Len(rest) = IF n + 1 <= l THEN l - (n + 1) + 1 ELSE 0
      BY <2>2
    <3> HIDE DEF l, rest
    <3>3. Len(rest) = l - n
      BY <3>1, <3>2
    <3> QED BY <3>3 DEF l
  <2> HIDE DEF rest, queue
  <2>4. ASSUME NEW i \in 1..Len(rest) PROVE rest[i] = queue[n + i]
    <3>1. i \in 1 .. Len(queue) - (n + 1) + 1 /\ (n + 1) + i - 1 = n + i
      BY <1>1, <1>3, <2>3
    <3> QED BY <2>2, <3>1
  <2> QED BY <2>2, <2>3, <2>4
<1>6. DOMAIN rest = 1..Len(rest) /\ Len(rest) \in Nat
  <2> HIDE DEF rest
  <2> QED BY <1>5, LenProperties
<1> HIDE DEF rest
<1>7. s.queue = rest /\ s.popped = outbound.popped + n
  BY <1>1, <1>4 DEF Streams
<1>8. s \in Streams
  <2>1. outbound.popped + n \in Nat
    BY <1>1, <1>3
  <2> HIDE DEF s
  <2> QED BY <1>1, <1>4, <1>5, <2>1 DEF Streams
<1> HIDE DEF s
<1>9. ASSUME NEW i \in 1..Len(rest) PROVE rest[i] = (outbound.popped + n) + i
  <2> DEFINE l == Len(queue)
             p == outbound.popped
  <2>1. l \in Nat /\ n \in Nat /\ n <= l /\ i \in 1..(l - n) /\ p \in Nat
    BY <1>1, <1>3, <1>5
  <2> HIDE DEF l, p
  <2>2. n + i \in 1..l /\ p + (n + i) = (p + n) + i
    BY <2>1
  <2>3. rest[i] = queue[n + i]
    BY <1>5
  <2>4. queue[n + i] = p + (n + i)
    BY <1>2, <2>2 DEF l, p
  <2> QED BY <2>2, <2>3, <2>4 DEF p
<1>10. (outbound.popped + n) + Len(rest) <= StreamLen
  <2> HIDE DEF queue
  <2> QED BY <1>1, <1>2, <1>3, <1>5, PeerAssumption
<1> QED BY <1>6, <1>7, <1>8, <1>9, <1>10 DEF s

LEMMA AbleSendIs ==
    ASSUME Types, num_in_flight <= window_size_
    PROVE  AbleSend \in Nat
           /\ num_in_flight + AbleSend = Larger(window_size_, 1)
BY DEF Types, AbleSend, Larger

LEMMA PushDataKeeps ==
    ASSUME IInv, PushData, edge' = edge
    PROVE  IInv' /\ LeftEdge' = LeftEdge /\ Seqno' >= Seqno
<1> DEFINE n == Smaller(AbleSend, BytesBuffered(outbound))
           msgs == NewSegments(n)
           c == SegmentCount(n)
           fin == FinFits(n)
           f == Bit(fin)
           lo(i) == (i - 1) * MAX_PAYLOAD_SIZE
<1>1. /\ Types /\ Tiled /\ Windowed /\ StreamInOrder /\ NothingSentYet
      /\ TimerRunsIffOutstanding /\ SegmentsCarryTheirBytes /\ StreamAccounted
      /\ StatusMatchesOutstanding
  BY DEF IInv
<1>2. /\ status_ = "ESTABLISHED" /\ num_in_flight <= window_size_
      /\ push_msgs(msgs) /\ outbound' = Pop(outbound, n)
      /\ status_' = IF fin THEN "FIN_WAIT" ELSE "ESTABLISHED"
      /\ isn_' = isn_ /\ Now_RTO_' = Now_RTO_ /\ Num_Resend' = Num_Resend
      /\ window_size_' = window_size_
  BY Zenon DEF PushData
<1>3. fin <=> IsFinished(outbound') /\ AbleSend > n
  BY <1>2 DEF FinFits
<1>4. f \in {0, 1} /\ (f = 1 <=> fin)
  <2>1. CASE fin
    <3>1. f = 1
      BY <2>1, Zenon DEF Bit
    <3> QED BY <2>1, <3>1
  <2>2. CASE ~fin
    <3>1. f = 0
      BY <2>2, Zenon DEF Bit
    <3> HIDE DEF f, fin
    <3> QED BY <2>2, <3>1
  <2> QED BY <2>1, <2>2
<1>5. /\ isn_ \in Wrap32 /\ outbound.queue \in Seq(Nat)
      /\ outbound.popped \in Nat /\ Seqno \in Nat /\ num_in_flight \in Nat
      /\ BytesBuffered(outbound) \in Nat /\ window_size_ \in Nat
      /\ window_size_ <= Larger(MaxWindow, 1) /\ edge \in Nat
  <2>1. outbound.queue \in Seq(Nat) /\ outbound.popped \in Nat
    BY <1>1 DEF Types, Streams
  <2>2. BytesBuffered(outbound) \in Nat
    BY <2>1, LenProperties DEF BytesBuffered
  <2> QED BY <1>1, <2>1, <2>2 DEF Types
<1>6. AbleSend \in Nat /\ num_in_flight + AbleSend = Larger(window_size_, 1)
  BY <1>1, <1>2, AbleSendIs
<1>7. n \in 0..BytesBuffered(outbound) /\ n <= AbleSend
  BY <1>5, <1>6 DEF Smaller
<1>8. n + f <= AbleSend /\ n + f \in Nat
  BY <1>3, <1>4, <1>6, <1>7
<1> HIDE DEF n, f, fin
<1>9. /\ msgs \in Seq(Segments) /\ Len(msgs) = c
      /\ \A i \in 1..c :
            /\ msgs[i].seqno = Wrap(Seqno + lo(i), isn_)
            /\ msgs[i].SYN = FALSE
            /\ msgs[i].FIN = (i = c /\ FinFits(n))
            /\ Len(msgs[i].payload) = PayloadEnd(i, n) - lo(i)
            /\ \A j \in 1..Len(msgs[i].payload) :
                  /\ lo(i) + j \in 1..BytesBuffered(outbound)
                  /\ msgs[i].payload[j] = outbound.queue[lo(i) + j]
  BY <1>1, <1>7, NewSegmentsAre
<1>10. /\ \A i \in 1..c :
             /\ SequenceLength(msgs[i]) > 0
             /\ SequenceNumbers(SubSeq(msgs, 1, i - 1)) = lo(i)
       /\ SequenceNumbers(msgs) = n + f
  BY <1>1, <1>7, NewNumbersAre DEF f, fin
<1>11. c \in Nat /\ \A i \in 1..c : lo(i) \in Nat
                        /\ PayloadEnd(i, n) - lo(i) \in 0..MAX_PAYLOAD_SIZE
  <2>1. n \in Nat
    BY <1>7
  <2>2. c \in Nat
    BY <2>1, SegmentCountIs
  <2>3. ASSUME NEW i \in 1..c
        PROVE  lo(i) \in 0..n /\ PayloadEnd(i, n) - lo(i) \in 0..MAX_PAYLOAD_SIZE
    BY <2>1, PayloadsAre
  <2> QED BY <2>1, <2>2, <2>3
<1> HIDE DEF msgs, c, lo
<1>12. Seqno' = Seqno + n + f /\ num_in_flight' = num_in_flight + n + f
       /\ out_Noackqueue' = out_Noackqueue \o msgs
       /\ out_Readyqueue' = out_Readyqueue \o msgs
  BY <1>2, <1>4, <1>5, <1>7, <1>10 DEF push_msgs
<1>13. Pop(outbound, n) \in Streams
       /\ outbound'.popped = outbound.popped + n
       /\ outbound'.popped + Len(outbound'.queue) <= StreamLen
       /\ \A i \in DOMAIN outbound'.queue :
             outbound'.queue[i] = outbound'.popped + i
  BY <1>1, <1>2, <1>7, StreamAfterPop
<1>14. Types' /\ TimerRunsIffOutstanding'
  <2>1. /\ num_in_flight' \in Nat /\ Seqno' \in Nat
        /\ timer_' \in [open : BOOLEAN, left : Int]
        /\ out_Noackqueue' \in Seq(Segments)
        /\ out_Readyqueue' \in Seq(Segments)
        /\ TimerRunsIffOutstanding'
    BY <1>1, <1>2, <1>9, PushTypes
  <2>2. status_' \in Status /\ outbound' \in Streams
    BY <1>2, <1>13 DEF Status
  <2> QED BY <1>1, <1>2, <2>1, <2>2 DEF Types
<1>15. Tiled' /\ LeftEdge' = LeftEdge
  <2>1. \A i \in 1..Len(msgs) :
           msgs[i].seqno =
               Wrap(Seqno + SequenceNumbers(SubSeq(msgs, 1, i - 1)), isn_)
    BY <1>9, <1>10
  <2> QED BY <1>1, <1>2, <1>9, <2>1, PushTiles
<1>16. Windowed'
  <2>1. Larger(MaxWindow, 2) \in Nat /\ Larger(window_size_, 1) \in Nat
        /\ Larger(window_size_, 1) <= Larger(MaxWindow, 2)
    BY <1>5, PeerAssumption DEF Larger
  <2>2. /\ LeftEdge \in Int /\ LeftEdge + num_in_flight = Seqno
        /\ LeftEdge + Larger(window_size_, 1) <= edge /\ edge >= 2
    BY <1>1, <1>5 DEF Windowed, LeftEdge
  <2>3. num_in_flight' <= Larger(MaxWindow, 2)
    BY <1>4, <1>5, <1>6, <1>7, <1>8, <1>12, <2>1
  <2>4. Seqno' <= edge' /\ edge' >= 2
    BY <1>4, <1>5, <1>6, <1>7, <1>8, <1>12, <2>1, <2>2
  <2>5. LeftEdge' + Larger(window_size_, 1)' <= edge'
    BY <1>2, <1>15, <2>2
  <2> QED BY <2>3, <2>4, <2>5 DEF Windowed
<1>17. StreamInOrder' /\ NothingSentYet'
  <2>1. StreamInOrder'
    BY <1>13 DEF StreamInOrder, BytesPushed, BytesPopped
  <2> QED BY <1>2, <2>1 DEF NothingSentYet
<1>18. Seqno = 1 + outbound.popped
  <2>1. Seqno = Bit(SynSent) + BytesPopped(outbound) + Bit(FinSent)
    BY <1>1 DEF StreamAccounted
  <2>2. Bit(SynSent) = 1 /\ Bit(FinSent) = 0
    BY <1>2 DEF SynSent, FinSent, Bit
  <2> QED BY <1>5, <2>1, <2>2 DEF BytesPopped
<1>19. ASSUME NEW i \in 1..c PROVE Carries(msgs[i], isn_)
  <2> DEFINE msg == msgs[i]
  <2>1. msg \in Segments /\ msg.payload \in Seq(Nat)
        /\ DOMAIN msg.payload = 1..Len(msg.payload)
    <3>1. msg \in Segments
      BY <1>9, ElementOfSeq
    <3>2. msg.payload \in Seq(Nat)
      BY <3>1 DEF Segments
    <3> QED BY <3>1, <3>2, LenProperties
  <2>2. Len(msg.payload) <= MAX_PAYLOAD_SIZE /\ SequenceLength(msg) > 0
        /\ msg.SYN = FALSE
    BY <1>9, <1>10, <1>11, SenderAssumption
  <2>3. ASSUME NEW j \in 1..Len(msg.payload)
        PROVE  Wrap(msg.payload[j], isn_) = Plus(msg.seqno, j - 1)
    <3> DEFINE k == lo(i) + j
    <3>1. k \in 1..BytesBuffered(outbound) /\ msg.payload[j] = outbound.queue[k]
          /\ msg.seqno = Wrap(Seqno + lo(i), isn_)
      BY <1>9
    <3>2. outbound.queue[k] = outbound.popped + k
      BY <1>1, <1>5, <3>1, LenProperties
         DEF StreamInOrder, BytesPopped, BytesBuffered
    <3>3. Seqno + lo(i) \in Nat /\ j - 1 \in Nat
          /\ (Seqno + lo(i)) + (j - 1) = outbound.popped + k
      <4> DEFINE l == lo(i)
                 p == outbound.popped
      <4>1. l \in Nat /\ j \in Nat /\ j >= 1
        <5>1. Len(msg.payload) \in Nat
          BY <2>1, LenProperties
        <5> QED BY <1>11, <5>1
      <4>2. k = l + j
        OBVIOUS
      <4>3. p \in Nat /\ Seqno = 1 + p
        BY <1>5, <1>18
      <4> HIDE DEF l, k, p
      <4>4. Seqno + l \in Nat /\ j - 1 \in Nat
        BY <4>1, <4>3
      <4>5. (Seqno + l) + (j - 1) = p + k
        BY <4>1, <4>2, <4>3
      <4> QED BY <4>4, <4>5 DEF l, p
    <3> HIDE DEF k, msg
    <3>4. Plus(Wrap(Seqno + lo(i), isn_), j - 1)
              = Wrap((Seqno + lo(i)) + (j - 1), isn_)
      BY <1>5, <3>3, WrapOfSum
    <3> QED BY <3>1, <3>2, <3>3, <3>4
  <2> HIDE DEF msg
  <2>4. Carries(msg, isn_)
    BY <2>1, <2>2, <2>3 DEF Carries
  <2> QED BY <2>4 DEF msg
<1>20. SegmentsCarryTheirBytes'
  <2>1. AllCarry(msgs, isn_)
    BY <1>9, <1>19, LenProperties DEF AllCarry
  <2>2. out_Noackqueue \in Seq(Segments) /\ out_Readyqueue \in Seq(Segments)
        /\ AllCarry(out_Noackqueue, isn_) /\ AllCarry(out_Readyqueue, isn_)
    BY <1>1, CarryIs DEF Types
  <2>3. AllCarry(out_Noackqueue', isn_)
    BY <1>9, <1>12, <2>1, <2>2, BothCarry
  <2>4. AllCarry(out_Readyqueue', isn_)
    BY <1>9, <1>12, <2>1, <2>2, BothCarry
  <2> QED BY <1>2, <2>3, <2>4, CarryIs
<1>21. FinSent' <=> fin
  BY <1>2 DEF FinSent
<1>22. /\ Len(out_Noackqueue') = Len(out_Noackqueue) + c
       /\ DOMAIN out_Noackqueue' = 1 .. Len(out_Noackqueue) + c
       /\ Len(out_Noackqueue) \in Nat
       /\ \A i \in 1 .. Len(out_Noackqueue) + c :
             out_Noackqueue'[i] =
                 IF i <= Len(out_Noackqueue) THEN out_Noackqueue[i]
                 ELSE msgs[i - Len(out_Noackqueue)]
  <2>1. out_Noackqueue \in Seq(Segments) /\ out_Noackqueue' \in Seq(Segments)
    BY <1>1, <1>14 DEF Types
  <2>2. DOMAIN out_Noackqueue' = 1..Len(out_Noackqueue')
    BY <2>1, LenProperties
  <2>3. Len(out_Noackqueue) \in Nat
    BY <2>1, LenProperties
  <2> QED BY <1>9, <1>12, <2>1, <2>2, <2>3, ConcatProperties
<1>23. ASSUME NEW i \in DOMAIN out_Noackqueue'
       PROVE  /\ i <= Len(out_Noackqueue) =>
                    i \in DOMAIN out_Noackqueue
                    /\ out_Noackqueue'[i] = out_Noackqueue[i]
              /\ i > Len(out_Noackqueue) =>
                    /\ out_Noackqueue'[i].SYN = FALSE
                    /\ out_Noackqueue'[i].FIN
                          = (i = Len(out_Noackqueue') /\ fin)
  <2>1. DOMAIN out_Noackqueue = 1..Len(out_Noackqueue)
    BY <1>1, LenProperties DEF Types
  <2>2. CASE i <= Len(out_Noackqueue)
    BY <1>22, <2>1, <2>2
  <2>3. CASE i > Len(out_Noackqueue)
    <3> DEFINE k == i - Len(out_Noackqueue)
    <3>1. k \in 1..c /\ out_Noackqueue'[i] = msgs[k]
          /\ (k = c <=> i = Len(out_Noackqueue'))
      BY <1>11, <1>22, <2>3
    <3> HIDE DEF k
    <3>2. msgs[k].SYN = FALSE /\ msgs[k].FIN = (k = c /\ fin)
      BY <1>9, <3>1 DEF fin
    <3> QED BY <1>22, <2>3, <3>1, <3>2
  <2> QED BY <1>22, <2>2, <2>3
<1>24. StreamAccounted'
  <2>1. Bit(SynSent)' = 1
    BY <1>2 DEF SynSent, Bit
  <2>2. Bit(FinSent)' = f
    BY <1>21, Zenon DEF Bit, f
  <2>3. Seqno' = Bit(SynSent)' + BytesPopped(outbound)' + Bit(FinSent)'
    BY <1>4, <1>5, <1>7, <1>12, <1>13, <1>18, <2>1, <2>2 DEF BytesPopped
  <2>4. FinSent' => IsFinished(outbound)'
    BY <1>3, <1>21
  <2>5. ASSUME NEW i \in DOMAIN out_Noackqueue', out_Noackqueue'[i].FIN
        PROVE  FinSent' /\ i = Len(out_Noackqueue')
    <3>1. i \in Int /\ Len(out_Noackqueue) \in Int
      BY <1>22
    <3>2. ~(i <= Len(out_Noackqueue))
      <4>1. ~FinSent
        BY <1>2 DEF FinSent
      <4> QED BY <1>1, <1>23, <2>5, <4>1 DEF StreamAccounted
    <3>3. i > Len(out_Noackqueue)
      BY <3>1, <3>2
    <3>4. out_Noackqueue'[i].FIN = (i = Len(out_Noackqueue') /\ fin)
      BY <1>23, <3>3
    <3> QED BY <1>21, <2>5, <3>4, Zenon
  <2> QED BY <2>3, <2>4, <2>5 DEF StreamAccounted
<1>25. StatusMatchesOutstanding'
  <2>1. ASSUME fin PROVE out_Noackqueue' # <<>>
    <3>1. SequenceNumbers(msgs) > 0
      BY <1>4, <1>7, <1>10, <2>1
    <3>2. msgs # <<>>
      BY <3>1, NumbersOfNone
    <3> QED BY <1>1, <1>9, <1>12, <3>2, ConcatEqualIffEmpty DEF Types
  <2>2. ASSUME NEW i \in DOMAIN out_Noackqueue', ~fin
        PROVE  ~out_Noackqueue'[i].SYN
    <3>1. i \in Int /\ Len(out_Noackqueue) \in Int
      BY <1>22
    <3>2. CASE i <= Len(out_Noackqueue)
      BY <1>1, <1>2, <1>23, <3>2 DEF StatusMatchesOutstanding
    <3>3. CASE i > Len(out_Noackqueue)
      BY <1>23, <3>3
    <3> QED BY <3>1, <3>2, <3>3
  <2> QED BY <1>2, <2>1, <2>2 DEF StatusMatchesOutstanding
<1>26. Seqno' >= Seqno
  BY <1>4, <1>5, <1>7, <1>12
<1> QED BY <1>14, <1>15, <1>16, <1>17, <1>20, <1>24, <1>25, <1>26 DEF IInv

(* The left edge after an acknowledgement, and what stays outstanding.       *)
LEMMA AckIs ==
    ASSUME IInv, NEW raw \in Wrap32, NEW window \in 0..MaxWindow,
           PeerAcks(raw, window)
    PROVE  LET ack  == AbsoluteNo(raw)
               k    == AckedCount(ack)
               a    == SequenceNumbers(SubSeq(out_Noackqueue, 1, k))
               rest == SubSeq(out_Noackqueue, k + 1, Len(out_Noackqueue))
           IN  /\ ack \in Nat /\ ack <= Seqno
               /\ k \in 0..Len(out_Noackqueue)
               /\ a \in 0..num_in_flight
               /\ LeftEdge + a <= ack
               /\ rest \in Seq(Segments) /\ Len(rest) = Len(out_Noackqueue) - k
               /\ \A i \in 1..Len(rest) : rest[i] = out_Noackqueue[k + i]
               /\ rest = <<>> <=> k = Len(out_Noackqueue)
               /\ k = 0 => rest = out_Noackqueue
               /\ ack = Seqno => rest = <<>>
               /\ rest = <<>> /\ out_Noackqueue # <<>> => ack = Seqno
               /\ rest # <<>> /\ k > 0 => Head(rest) # Head(out_Noackqueue)
               /\ out_Noackqueue' = rest
               /\ num_in_flight' = num_in_flight - a
               /\ IF k > 0
                  THEN /\ Now_RTO_' = initial_RTO_ms /\ Num_Resend' = 0
                       /\ timer_' = TimerAfterAck(rest)
                  ELSE UNCHANGED <<Now_RTO_, Num_Resend, timer_>>
<1> DEFINE q    == out_Noackqueue
           ack  == AbsoluteNo(raw)
           k    == AckedCount(ack)
           a    == SequenceNumbers(SubSeq(q, 1, k))
           rest == SubSeq(q, k + 1, Len(q))
<1>1. /\ Types /\ Tiled /\ Windowed /\ StreamInOrder /\ NothingSentYet
      /\ TimerRunsIffOutstanding /\ SegmentsCarryTheirBytes /\ StreamAccounted
      /\ StatusMatchesOutstanding
  BY DEF IInv
<1>2. /\ q \in Seq(Segments) /\ Len(q) \in Nat /\ isn_ \in Wrap32
      /\ Seqno \in Nat /\ num_in_flight \in Nat /\ Seqno < Word \div 2
      /\ num_in_flight = SequenceNumbers(q) /\ num_in_flight <= Seqno
      /\ DOMAIN q = 1..Len(q)
  BY <1>1, LenProperties, InRange DEF Types, Tiled
<1>3. ack \in Nat
  BY <1>2, UnwrapIsNat DEF AbsoluteNo
<1>4. /\ Acceptable(raw)
      /\ num_in_flight' = num_in_flight - a
      /\ out_Noackqueue' = rest
      /\ IF k > 0
         THEN /\ Now_RTO_' = initial_RTO_ms /\ Num_Resend' = 0
              /\ timer_' = TimerAfterAck(rest)
         ELSE UNCHANGED <<Now_RTO_, Num_Resend, timer_>>
  BY DEF PeerAcks, receive, Ack, Useful
<1>5. ack <= Seqno /\ LeftEdge <= ack
  BY <1>4 DEF Acceptable, LeftEdge
<1>6. \A i \in 1..Len(q) :
         /\ Place(q, LeftEdge, i) \in Nat
         /\ AbsoluteNo(q[i].seqno) = Place(q, LeftEdge, i)
         /\ EndNo(q[i]) = Place(q, LeftEdge, i + 1)
         /\ EndNo(q[i]) <= Seqno /\ EndNo(q[i]) \in Nat
         /\ i = Len(q) => EndNo(q[i]) = Seqno
  BY <1>1, PlacesRecovered
<1> HIDE DEF ack
<1>7. /\ k \in 0..Len(q)
      /\ \A i \in 1..k : EndNo(q[i]) <= ack
      /\ k < Len(q) => EndNo(q[k + 1]) > ack
  BY <1>1, <1>3, <1>6, AckedCountIs
<1> HIDE DEF k
<1> DEFINE l == Len(q)
<1>0. l \in Nat /\ k \in Nat /\ k <= l
  BY <1>2, <1>7
<1> HIDE DEF l
<1>8. a \in Nat /\ a <= num_in_flight
  <2>1. k \in 0..Len(q) /\ Len(q) \in 0..Len(q)
    BY <1>2, <1>7
  <2>2. a <= SequenceNumbers(SubSeq(q, 1, Len(q)))
    <3>1. k \in 0..Len(q)
      BY <2>1
    <3> QED BY <1>2, <2>1, LongerUsesMore
  <2>3. SubSeq(q, 1, Len(q)) = q
    BY <1>2, SubSeqFull
  <2>4. a \in Nat
    BY <1>2, <2>1, NumbersOfPrefix
  <2> QED BY <1>2, <2>2, <2>3, <2>4
<1>9. LeftEdge + a <= ack
  <2>1. CASE k = 0
    <3>1. SubSeq(q, 1, 0) = <<>>
      BY SubSeqEmpty
    <3>2. a = 0
      BY <2>1, <3>1, NumbersOfNone
    <3> HIDE DEF a
    <3> QED BY <1>2, <1>5, <3>2 DEF LeftEdge
  <2>2. CASE k # 0
    <3>1. k \in 1..k /\ k \in 1..Len(q) /\ (k + 1) - 1 = k
      BY <1>2, <1>7, <2>2
    <3>2. EndNo(q[k]) <= ack /\ EndNo(q[k]) = Place(q, LeftEdge, k + 1)
      BY <1>6, <1>7, <3>1
    <3> QED BY <3>1, <3>2 DEF Place
  <2> QED BY <2>1, <2>2
<1>10. /\ rest \in Seq(Segments) /\ Len(rest) = Len(q) - k
       /\ \A i \in 1..Len(rest) : rest[i] = q[k + i]
  BY <1>2, <1>7, NumbersOfRest
<1>11. rest = <<>> <=> k = Len(q)
  <2> HIDE DEF rest
  <2>1. rest = <<>> <=> Len(rest) = 0
    BY <1>10, EmptySeq
  <2>2. Len(rest) = l - k
    BY <1>10 DEF l
  <2> QED BY <1>0, <2>1, <2>2 DEF l
<1>12. k = 0 => rest = q
  BY <1>2, SubSeqFull
<1> HIDE DEF a, rest
<1>13. ack = Seqno => rest = <<>>
  <2> SUFFICES ASSUME ack = Seqno, k # Len(q) PROVE FALSE
    BY <1>11
  <2>1. k + 1 \in 1..l /\ k < l
    BY <1>0 DEF l
  <2> DEFINE e == EndNo(q[k + 1])
  <2>2. e > ack /\ e <= Seqno /\ e \in Nat
    BY <1>6, <1>7, <2>1 DEF l
  <2>3. Seqno \in Nat /\ ack = Seqno
    BY <1>2
  <2> HIDE DEF e
  <2> QED BY <2>2, <2>3
<1>14. rest = <<>> /\ q # <<>> => ack = Seqno
  <2> SUFFICES ASSUME k = Len(q), q # <<>> PROVE ack = Seqno
    BY <1>11
  <2>1. Len(q) \in 1..k /\ Len(q) \in 1..Len(q)
    BY <1>2, EmptySeq
  <2>2. EndNo(q[Len(q)]) = Seqno /\ EndNo(q[Len(q)]) <= ack
    BY <1>6, <1>7, <2>1
  <2> QED BY <1>2, <1>3, <1>5, <2>2
<1>15. ASSUME rest # <<>>, k > 0 PROVE Head(rest) # Head(q)
  <2>1. /\ 1 \in 1..Len(q) /\ k + 1 \in 1..Len(q) /\ 1 \in 1..Len(rest)
        /\ 0 \in 0..k /\ 0 < k /\ k \in 0..Len(q)
        /\ 1 - 1 = 0 /\ (k + 1) - 1 = k /\ 0 + 1 = 1
    <3>1. k > 0 /\ k # l /\ Len(rest) = l - k
      BY <1>10, <1>11, <1>15 DEF l
    <3> QED BY <1>0, <3>1 DEF l
  <2>2. Head(rest) = q[k + 1] /\ Head(q) = q[1]
    BY <1>10, <2>1
  <2>3. SequenceLength(q[1]) > 0
    BY <1>1, <1>2, <2>1 DEF SegmentsCarryTheirBytes, CarriesItsBytes
  <2>4. SequenceNumbers(SubSeq(q, 1, 0)) < SequenceNumbers(SubSeq(q, 1, k))
    BY <1>2, <2>1, <2>3, LongerUsesMore
  <2>5. SequenceNumbers(SubSeq(q, 1, 0)) \in Nat
        /\ SequenceNumbers(SubSeq(q, 1, k)) \in Nat
    BY <1>2, <2>1, NumbersOfPrefix
  <2>6. AbsoluteNo(q[1].seqno) = LeftEdge + SequenceNumbers(SubSeq(q, 1, 0))
        /\ AbsoluteNo(q[k + 1].seqno)
               = LeftEdge + SequenceNumbers(SubSeq(q, 1, k))
    BY <1>6, <2>1 DEF Place
  <2>7. AbsoluteNo(q[1].seqno) # AbsoluteNo(q[k + 1].seqno)
    BY <1>2, <2>4, <2>5, <2>6 DEF LeftEdge
  <2> QED BY <2>2, <2>7
<1>16. a \in 0..num_in_flight
  BY <1>2, <1>8
<1>17. k > 0 => (rest # <<>> => Head(rest) # Head(q))
  BY <1>15
<1> QED BY <1>3, <1>4, <1>5, <1>7, <1>16, <1>9, <1>10, <1>11, <1>12, <1>13,
           <1>14, <1>17, Zenon DEF q, ack, k, a, rest

LEMMA AckKeeps ==
    ASSUME IInv, NEW raw \in Wrap32, NEW window \in 0..MaxWindow,
           PeerAcks(raw, window)
    PROVE  /\ IInv'
           /\ LeftEdge' >= LeftEdge /\ Seqno' >= Seqno
           /\ Rank[status_'] >= Rank[status_]
           /\ out_Noackqueue # <<>> /\ out_Noackqueue' # <<>>
                  /\ Head(out_Noackqueue') = Head(out_Noackqueue)
              => timer_' = timer_
<1> DEFINE q    == out_Noackqueue
           ack  == AbsoluteNo(raw)
           k    == AckedCount(ack)
           a    == SequenceNumbers(SubSeq(q, 1, k))
           rest == SubSeq(q, k + 1, Len(q))
           w    == Larger(window, 1)
<1>1. /\ Types /\ Tiled /\ Windowed /\ StreamInOrder /\ NothingSentYet
      /\ TimerRunsIffOutstanding /\ SegmentsCarryTheirBytes /\ StreamAccounted
      /\ StatusMatchesOutstanding
  BY DEF IInv
<1>2. /\ ack \in Nat /\ ack <= Seqno
      /\ k \in 0..Len(q)
      /\ a \in 0..num_in_flight
      /\ LeftEdge + a <= ack
      /\ rest \in Seq(Segments) /\ Len(rest) = Len(q) - k
      /\ \A i \in 1..Len(rest) : rest[i] = q[k + i]
      /\ rest = <<>> <=> k = Len(q)
      /\ k = 0 => rest = q
      /\ ack = Seqno => rest = <<>>
      /\ rest = <<>> /\ q # <<>> => ack = Seqno
      /\ rest # <<>> /\ k > 0 => Head(rest) # Head(q)
      /\ q' = rest
      /\ num_in_flight' = num_in_flight - a
      /\ IF k > 0
         THEN /\ Now_RTO_' = initial_RTO_ms /\ Num_Resend' = 0
              /\ timer_' = TimerAfterAck(rest)
         ELSE UNCHANGED <<Now_RTO_, Num_Resend, timer_>>
  BY AckIs, Zenon
<1>3. \A j \in 0..Len(rest) :
         SequenceNumbers(SubSeq(q, 1, k + j)) = a + SequenceNumbers(SubSeq(rest, 1, j))
      /\ SequenceNumbers(q) = a + SequenceNumbers(rest)
  <2>1. q \in Seq(Segments)
    BY <1>1 DEF Types
  <2>2. k \in 0..Len(q)
    BY <1>2
  <2> QED BY <2>1, <2>2, NumbersOfRest, Zenon
<1>4. /\ status_' = StatusAfterAck(Ack(raw, window))
      /\ window_size_' = window
      /\ edge' = Larger(edge, ack + w)
      /\ isn_' = isn_ /\ Seqno' = Seqno
      /\ out_Readyqueue' = out_Readyqueue /\ outbound' = outbound
  BY DEF PeerAcks, receive, Ack
<1>5. /\ isn_ \in Wrap32 /\ q \in Seq(Segments) /\ Len(q) \in Nat
      /\ DOMAIN q = 1..Len(q) /\ (q = <<>> <=> Len(q) = 0)
      /\ Seqno \in Nat /\ num_in_flight \in Nat /\ edge \in Nat
      /\ num_in_flight <= Seqno /\ status_ \in Status
  BY <1>1, LenProperties, EmptySeq DEF Types, Tiled
<1> HIDE DEF ack
<1>6. status_' = IF status_ = "SYN_SENT" /\ raw = Wrap(1, isn_) THEN "ESTABLISHED"
                 ELSE IF status_ = "FIN_WAIT" /\ ack = Seqno THEN "FINISH"
                 ELSE status_
  BY <1>4 DEF StatusAfterAck, Ack, ack
<1> HIDE DEF k
<1> HIDE DEF a, rest
<1>7. DOMAIN rest = 1..Len(rest) /\ k \in Nat /\ k <= Len(q) /\ Len(rest) \in Nat
      /\ (rest = <<>> <=> Len(rest) = 0)
  BY <1>2, <1>5, LenProperties, EmptySeq
<1>28. ASSUME NEW i \in 1..Len(rest)
       PROVE  /\ k + i \in 1..Len(q) /\ k + i \in DOMAIN q
              /\ i - 1 \in 0..Len(rest) /\ (k + i) - 1 = k + (i - 1)
              /\ rest[i] = q[k + i]
              /\ k + i = Len(q) <=> i = Len(rest)
  <2> DEFINE l == Len(q)
             m == Len(rest)
  <2>1. l \in Nat /\ m \in Nat /\ m = l - k /\ k \in Nat /\ i \in 1..m
    BY <1>2, <1>5, <1>7
  <2>2. rest[i] = q[k + i] /\ DOMAIN q = 1..l
    BY <1>2, <1>5
  <2> HIDE DEF l, m
  <2>3. /\ k + i \in 1..l /\ i - 1 \in 0..m /\ (k + i) - 1 = k + (i - 1)
        /\ k + i = l <=> i = m
    BY <2>1
  <2> QED BY <2>2, <2>3 DEF l, m
<1>8. LeftEdge' = LeftEdge + a /\ a \in Nat /\ a <= num_in_flight
      /\ LeftEdge \in Nat /\ num_in_flight' \in Nat
      /\ num_in_flight' <= num_in_flight
  <2>1. a \in Nat /\ a <= num_in_flight /\ num_in_flight' = num_in_flight - a
    BY <1>2, <1>5
  <2> QED BY <1>4, <1>5, <2>1 DEF LeftEdge
<1>9. w \in Nat /\ w >= 1 /\ w = Larger(window_size_, 1)'
      /\ window \in Nat /\ window <= MaxWindow
  BY <1>4, PeerAssumption DEF Larger
<1> HIDE DEF w
<1>10. edge' \in Nat /\ edge' >= edge /\ edge' >= ack + w
  <2>1. ack \in Nat
    BY <1>2
  <2> QED BY <1>4, <1>5, <1>9, <2>1 DEF Larger
<1>11. k > 0 \/ k = 0
  BY <1>7
<1>12. timer_' \in [open : BOOLEAN, left : Int]
       /\ Now_RTO_' \in Nat /\ Num_Resend' \in Nat
  <2>1. CASE k > 0
    <3>1. initial_RTO_ms \in Nat
      BY SenderAssumption
    <3>2. TimerAfterAck(rest) \in [open : BOOLEAN, left : Int]
      BY <3>1 DEF TimerAfterAck, ClosedTimer, StartedTimer
    <3> QED BY <1>2, <2>1, <3>1, <3>2
  <2>2. CASE k = 0
    BY <1>1, <1>2, <2>2 DEF Types
  <2> QED BY <1>11, <2>1, <2>2
<1>13. Types'
  <2>1. status_' \in Status
    BY <1>5, <1>6 DEF Status
  <2>2. window_size_' \in Nat /\ window_size_' <= Larger(MaxWindow, 1)'
    BY <1>4, <1>9, PeerAssumption DEF Larger
  <2>3. q' \in Seq(Segments)
    BY <1>2
  <2>4. out_Readyqueue' \in Seq(Segments) /\ outbound' \in Streams
        /\ isn_' \in Wrap32 /\ Seqno' \in Nat
    BY <1>1, <1>4 DEF Types
  <2> QED BY <1>8, <1>10, <1>12, <2>1, <2>2, <2>3, <2>4, Zenon DEF Types
<1>14. Tiled'
  <2>1. num_in_flight' = SequenceNumbers(out_Noackqueue')
    <3>1. num_in_flight = SequenceNumbers(q)
      BY <1>1 DEF Tiled
    <3>2. SequenceNumbers(rest) \in Nat
      BY <1>2, NumbersFinite
    <3>3. SequenceNumbers(q) = a + SequenceNumbers(rest)
          /\ num_in_flight' = num_in_flight - a /\ q' = rest
      BY <1>2, <1>3
    <3> QED BY <1>5, <1>8, <3>1, <3>2, <3>3
  <2>2. ASSUME NEW i \in 1..Len(rest)
        PROVE  rest[i].seqno = Wrap(Place(rest, LeftEdge + a, i), isn_)
    <3>1. k + i \in 1..Len(q) /\ i - 1 \in 0..Len(rest)
          /\ (k + i) - 1 = k + (i - 1) /\ rest[i] = q[k + i]
      BY <1>28
    <3>2. q[k + i].seqno = Wrap(Place(q, LeftEdge, k + i), isn_)
      BY <1>1, <1>5, <3>1 DEF Tiled
    <3>3. SequenceNumbers(SubSeq(q, 1, (k + i) - 1)) =
              a + SequenceNumbers(SubSeq(rest, 1, i - 1))
      BY <1>3, <3>1
    <3>4. SequenceNumbers(SubSeq(rest, 1, i - 1)) \in Nat
      BY <1>2, <3>1, NumbersOfPrefix
    <3>5. Place(q, LeftEdge, k + i) = Place(rest, LeftEdge + a, i)
      <4> DEFINE x == SequenceNumbers(SubSeq(rest, 1, i - 1))
      <4>1. LeftEdge + (a + x) = (LeftEdge + a) + x
        <5>1. x \in Nat
          BY <3>4
        <5> HIDE DEF x
        <5> QED BY <1>8, <5>1
      <4> QED BY <3>3, <4>1 DEF Place
    <3> QED BY <3>1, <3>2, <3>5
  <2>3. num_in_flight' <= Seqno'
    BY <1>4, <1>5, <1>8
  <2>4. DOMAIN out_Noackqueue' = 1..Len(rest) /\ out_Noackqueue' = rest
    BY <1>2, <1>7
  <2> QED BY <1>4, <1>8, <2>1, <2>2, <2>3, <2>4 DEF Tiled
<1>15. Windowed'
  <2>1. num_in_flight <= Larger(MaxWindow, 2) /\ Larger(MaxWindow, 2) \in Nat
        /\ Seqno <= edge /\ edge >= 2
    BY <1>1, PeerAssumption DEF Windowed, Larger
  <2>2. num_in_flight' <= Larger(MaxWindow, 2)
    BY <1>5, <1>8, <2>1
  <2>3. ack \in Nat /\ LeftEdge + a <= ack
    BY <1>2
  <2>4. LeftEdge' + w <= edge'
    BY <1>8, <1>9, <1>10, <2>3
  <2>5. Seqno' <= edge' /\ edge' >= 2
    BY <1>4, <1>5, <1>10, <2>1
  <2> QED BY <1>9, <2>2, <2>4, <2>5 DEF Windowed
<1>16. StreamInOrder'
  BY <1>1, <1>4 DEF StreamInOrder, BytesPushed, BytesPopped
<1>17. NothingSentYet'
  <2>1. q = <<>> => rest = <<>>
    BY <1>2, <1>5, <1>7
  <2> QED BY <1>1, <1>2, <1>4, <1>6, <2>1 DEF NothingSentYet
<1>18. TimerRunsIffOutstanding'
  <2>1. CASE k > 0
    <3>1. Backoff[0] = initial_RTO_ms
      BY BackoffIs
    <3>2. timer_' = TimerAfterAck(rest) /\ q' = rest
          /\ Now_RTO_' = Backoff[Num_Resend']
      BY <1>2, <2>1, <3>1
    <3> QED BY <3>2
            DEF TimerRunsIffOutstanding, TimerAfterAck, ClosedTimer, StartedTimer
  <2>2. CASE k = 0
    <3>1. timer_' = timer_ /\ Now_RTO_' = Now_RTO_ /\ Num_Resend' = Num_Resend
          /\ q' = q
      BY <1>2, <2>2
    <3> QED BY <1>1, <3>1 DEF TimerRunsIffOutstanding
  <2> QED BY <1>11, <2>1, <2>2
<1>19. SegmentsCarryTheirBytes'
  <2>1. AllCarry(q, isn_) /\ AllCarry(out_Readyqueue, isn_)
    BY <1>1, CarryIs
  <2>2. ASSUME NEW i \in 1..Len(rest) PROVE Carries(rest[i], isn_)
    <3>1. k + i \in DOMAIN q /\ rest[i] = q[k + i]
      BY <1>28
    <3> QED BY <2>1, <3>1 DEF AllCarry
  <2>3. AllCarry(rest, isn_)
    BY <1>7, <2>2 DEF AllCarry
  <2> QED BY <1>2, <1>4, <2>1, <2>3, CarryIs
<1>20. (SynSent' <=> SynSent) /\ (FinSent' <=> FinSent)
  BY <1>6 DEF SynSent, FinSent
<1>21. StreamAccounted'
  <2>1. ASSUME NEW i \in 1..Len(rest), rest[i].FIN
        PROVE  FinSent /\ i = Len(rest)
    <3>1. /\ k + i \in DOMAIN q /\ rest[i] = q[k + i]
          /\ k + i = Len(q) <=> i = Len(rest)
      BY <1>28
    <3>2. q[k + i].FIN
      BY <2>1, <3>1
    <3>3. FinSent /\ k + i = Len(q)
      BY <1>1, <3>1, <3>2 DEF StreamAccounted
    <3> QED BY <3>1, <3>3
  <2>2. Bit(SynSent)' = Bit(SynSent) /\ Bit(FinSent)' = Bit(FinSent)
    BY <1>20, Zenon DEF Bit
  <2>3. Seqno' = Bit(SynSent)' + BytesPopped(outbound)' + Bit(FinSent)'
    <3>1. Seqno = Bit(SynSent) + BytesPopped(outbound) + Bit(FinSent)
      BY <1>1 DEF StreamAccounted
    <3>2. BytesPopped(outbound)' = BytesPopped(outbound)
      BY <1>4
    <3> QED BY <1>4, <2>2, <3>1, <3>2, Zenon
  <2>4. FinSent' => IsFinished(outbound)'
    BY <1>1, <1>4, <1>20 DEF StreamAccounted
  <2>5. out_Noackqueue' = rest /\ DOMAIN out_Noackqueue' = 1..Len(rest)
    BY <1>2, <1>7
  <2> QED BY <1>20, <2>1, <2>3, <2>4, <2>5 DEF StreamAccounted
<1>22. ASSUME status_ = "SYN_SENT", status_' = "ESTABLISHED" PROVE rest = <<>>
  <2>1. raw = Wrap(1, isn_)
    BY <1>6, <1>22
  <2>2. Seqno = 1
    BY <1>1, <1>22 DEF StreamAccounted, NothingSentYet, SynSent, FinSent, Bit
  <2>3. ack = 1
    <3>1. Seqno < Word \div 2
      BY <1>1, InRange
    <3>2. 1 - 1 < Base \div 2 /\ 1 <= 1 /\ 1 \in Nat
      BY HalfLap
    <3>3. Unwrap(Wrap(1, isn_), isn_, 1) = 1
      BY <1>5, <2>2, <3>1, <3>2, UnwrapRecovers
    <3> QED BY <2>1, <2>2, <3>3 DEF ack, AbsoluteNo
  <2> QED BY <1>2, <2>2, <2>3
<1>23. StatusMatchesOutstanding'
  <2>1. ASSUME status_' = "FINISH" PROVE rest = <<>> /\ ~timer_'.open
    <3>1. CASE status_ = "FINISH"
      <4>1. q = <<>> /\ ~timer_.open
        BY <1>1, <3>1 DEF StatusMatchesOutstanding
      <4>2. k = 0
        BY <1>5, <1>7, <4>1
      <4> QED BY <1>2, <4>1, <4>2
    <3>2. CASE status_ # "FINISH"
      <4>1. status_ = "FIN_WAIT" /\ ack = Seqno
        BY <1>6, <2>1, <3>2
      <4>2. rest = <<>> /\ q # <<>>
        BY <1>1, <1>2, <4>1 DEF StatusMatchesOutstanding
      <4>3. k > 0
        BY <1>2, <1>5, <1>7, <4>2
      <4> QED BY <1>2, <4>2, <4>3 DEF TimerAfterAck, ClosedTimer
    <3> QED BY <3>1, <3>2
  <2>2. ASSUME status_' = "FIN_WAIT" PROVE rest # <<>>
    <3>1. status_ = "FIN_WAIT" /\ ack # Seqno
      BY <1>6, <2>2
    <3>2. q # <<>>
      BY <1>1, <3>1 DEF StatusMatchesOutstanding
    <3> QED BY <1>2, <3>1, <3>2
  <2>3. ASSUME status_' = "ESTABLISHED", NEW i \in 1..Len(rest)
        PROVE  ~rest[i].SYN
    <3>1. CASE status_ = "ESTABLISHED"
      <4>1. k + i \in DOMAIN q /\ rest[i] = q[k + i]
        BY <1>28
      <4> QED BY <1>1, <3>1, <4>1 DEF StatusMatchesOutstanding
    <3>2. CASE status_ = "SYN_SENT"
      BY <1>7, <1>22, <2>3, <3>2
    <3> QED BY <1>6, <2>3, <3>1, <3>2
  <2>4. out_Noackqueue' = rest /\ DOMAIN out_Noackqueue' = 1..Len(rest)
    BY <1>2, <1>7
  <2> QED BY <2>1, <2>2, <2>3, <2>4 DEF StatusMatchesOutstanding
<1>24. IInv'
  BY <1>13, <1>14, <1>15, <1>16, <1>17, <1>18, <1>19, <1>21, <1>23 DEF IInv
<1>25. LeftEdge' >= LeftEdge /\ Seqno' >= Seqno
  BY <1>4, <1>5, <1>8
<1>26. Rank[status_'] >= Rank[status_]
  BY <1>5, <1>6 DEF Status, Rank
<1>27. ASSUME q # <<>>, q' # <<>>, Head(q') = Head(q) PROVE timer_' = timer_
  <2>1. ~(k > 0)
    BY <1>2, <1>27
  <2> QED BY <1>2, <2>1
<1> QED BY <1>24, <1>25, <1>26, <1>27

(* Whatever leaves the sender's numbers and queues alone keeps its tiling,   *)
(* its window and the account of its stream.                                 *)
LEMMA QuietKeeps ==
    ASSUME IInv,
           UNCHANGED <<isn_, Seqno, num_in_flight, window_size_, status_,
                       out_Noackqueue, edge>>
    PROVE  /\ Tiled' /\ Windowed' /\ LeftEdge' = LeftEdge
           /\ outbound' = outbound =>
                 StreamInOrder' /\ NothingSentYet' /\ StreamAccounted'
<1>1. LeftEdge' = LeftEdge
  BY DEF LeftEdge
<1>2. Tiled'
  BY <1>1 DEF IInv, Tiled
<1>3. Windowed'
  BY <1>1 DEF IInv, Windowed
<1>4. ASSUME outbound' = outbound
      PROVE  StreamInOrder' /\ NothingSentYet' /\ StreamAccounted'
  <2>1. StreamInOrder' /\ NothingSentYet'
    BY <1>4 DEF IInv, StreamInOrder, NothingSentYet, BytesPushed, BytesPopped
  <2>2. (SynSent' <=> SynSent) /\ (FinSent' <=> FinSent)
    BY DEF SynSent, FinSent
  <2>3. Bit(SynSent)' = Bit(SynSent) /\ Bit(FinSent)' = Bit(FinSent)
    BY <2>2, Zenon DEF Bit
  <2>4. StreamAccounted
    BY DEF IInv
  <2>5. Seqno' = Bit(SynSent)' + BytesPopped(outbound)' + Bit(FinSent)'
    BY <1>4, <2>3, <2>4, Zenon DEF StreamAccounted
  <2>6. FinSent' => IsFinished(outbound)'
    BY <1>4, <2>2, <2>4 DEF StreamAccounted
  <2>7. \A i \in DOMAIN out_Noackqueue' : out_Noackqueue'[i].FIN =>
            FinSent' /\ i = Len(out_Noackqueue')
    BY <2>2, <2>4 DEF StreamAccounted
  <2> QED BY <2>1, <2>5, <2>6, <2>7 DEF StreamAccounted
<1> QED BY <1>1, <1>2, <1>3, <1>4

LEMMA RetransmitKeeps ==
    ASSUME IInv, NEW ms \in Nat, Retransmit(ms), edge' = edge
    PROVE  IInv' /\ LeftEdge' = LeftEdge
<1> DEFINE one == <<Head(out_Noackqueue)>>
<1>1. /\ Types /\ TimerRunsIffOutstanding /\ SegmentsCarryTheirBytes
      /\ StatusMatchesOutstanding
  BY DEF IInv
<1>2. /\ out_Noackqueue # <<>>
      /\ out_Readyqueue' = one \o out_Readyqueue
      /\ Now_RTO_' = NextRTO
      /\ Num_Resend' = IF window_size_ # 0 THEN Num_Resend + 1 ELSE Num_Resend
      /\ timer_' = StartedTimer(NextRTO)
      /\ isn_' = isn_ /\ Seqno' = Seqno /\ num_in_flight' = num_in_flight
      /\ window_size_' = window_size_ /\ status_' = status_
      /\ out_Noackqueue' = out_Noackqueue /\ outbound' = outbound
  BY <1>1 DEF Retransmit, Overtime, TimerRunsIffOutstanding
<1>3. /\ Tiled' /\ Windowed' /\ StreamInOrder' /\ NothingSentYet'
      /\ StreamAccounted' /\ LeftEdge' = LeftEdge
  BY <1>2, QuietKeeps
<1>4. Head(out_Noackqueue) \in Segments /\ AllCarry(one, isn_)
      /\ one \in Seq(Segments)
  <2>1. /\ out_Noackqueue \in Seq(Segments)
        /\ 1 \in DOMAIN out_Noackqueue
        /\ Head(out_Noackqueue) = out_Noackqueue[1]
    <3>1. out_Noackqueue \in Seq(Segments) /\ Len(out_Noackqueue) \in Nat
          /\ Len(out_Noackqueue) # 0
          /\ DOMAIN out_Noackqueue = 1..Len(out_Noackqueue)
      BY <1>1, <1>2, EmptySeq, LenProperties DEF Types
    <3> QED BY <3>1
  <2>2. Carries(out_Noackqueue[1], isn_)
    BY <1>1, <2>1, CarryIs DEF AllCarry
  <2>3. Head(out_Noackqueue) \in Segments
    BY <2>1, ElementOfSeq, LenProperties
  <2> DEFINE h == Head(out_Noackqueue)
  <2>4. h \in Segments /\ Carries(h, isn_)
    BY <2>1, <2>2, <2>3
  <2> HIDE DEF h
  <2>5. <<h>> \in Seq(Segments) /\ DOMAIN (<<h>>) = {1} /\ <<h>>[1] = h
    BY <2>4
  <2>6. AllCarry(<<h>>, isn_)
    BY <2>4, <2>5 DEF AllCarry
  <2> QED BY <2>3, <2>5, <2>6 DEF h
<1> HIDE DEF one
<1>5. out_Readyqueue' \in Seq(Segments)
  BY <1>1, <1>2, <1>4, ConcatProperties DEF Types
<1>6. NextRTO \in Nat /\ NextRTO = Backoff[Num_Resend'] /\ Num_Resend' \in Nat
  <2>1. Num_Resend \in Nat /\ Now_RTO_ = Backoff[Num_Resend]
    BY <1>1 DEF Types, TimerRunsIffOutstanding
  <2>2. Backoff[Num_Resend] \in Nat
        /\ Backoff[Num_Resend + 1] = 2 * Backoff[Num_Resend]
    BY <2>1, BackoffIs
  <2> QED BY <1>2, <2>1, <2>2 DEF NextRTO
<1>7. Types'
  <2>1. timer_' \in [open : BOOLEAN, left : Int]
    <3> DEFINE next == NextRTO
    <3>1. next \in Int /\ timer_' = [open |-> TRUE, left |-> next]
      BY <1>2, <1>6 DEF StartedTimer
    <3> HIDE DEF next
    <3> QED BY <3>1
  <2>2. Now_RTO_' \in Nat /\ Num_Resend' \in Nat
    BY <1>2, <1>6
  <2> HIDE DEF Segments, Streams
  <2> QED BY <1>1, <1>2, <1>5, <2>1, <2>2 DEF Types
<1>8. TimerRunsIffOutstanding'
  BY <1>2, <1>6 DEF TimerRunsIffOutstanding, StartedTimer
<1>9. SegmentsCarryTheirBytes'
  <2>1. AllCarry(out_Readyqueue, isn_) /\ AllCarry(out_Noackqueue, isn_)
        /\ out_Readyqueue \in Seq(Segments)
    BY <1>1, CarryIs DEF Types
  <2>2. AllCarry(one \o out_Readyqueue, isn_)
    BY <1>4, <2>1, BothCarry
  <2> QED BY <1>2, <2>1, <2>2, CarryIs
<1>10. StatusMatchesOutstanding'
  BY <1>1, <1>2 DEF StatusMatchesOutstanding
<1> QED BY <1>3, <1>7, <1>8, <1>9, <1>10 DEF IInv

LEMMA TimePassesKeeps ==
    ASSUME IInv, NEW ms \in Nat, TimePasses(ms), edge' = edge
    PROVE  IInv' /\ LeftEdge' = LeftEdge /\ timer_'.left <= timer_.left
<1>1. /\ Types /\ TimerRunsIffOutstanding /\ SegmentsCarryTheirBytes
      /\ StatusMatchesOutstanding
  BY DEF IInv
<1>2. /\ timer_' = [timer_ EXCEPT !.left = @ - ms]
      /\ isn_' = isn_ /\ Now_RTO_' = Now_RTO_ /\ Num_Resend' = Num_Resend
      /\ Seqno' = Seqno /\ num_in_flight' = num_in_flight
      /\ window_size_' = window_size_ /\ status_' = status_
      /\ out_Noackqueue' = out_Noackqueue
      /\ out_Readyqueue' = out_Readyqueue /\ outbound' = outbound
  BY DEF TimePasses
<1>3. /\ Tiled' /\ Windowed' /\ StreamInOrder' /\ NothingSentYet'
      /\ StreamAccounted' /\ LeftEdge' = LeftEdge
  BY <1>2, QuietKeeps
<1>4. /\ timer_' \in [open : BOOLEAN, left : Int]
      /\ timer_'.open = timer_.open /\ timer_'.left <= timer_.left
  <2>1. timer_ \in [open : BOOLEAN, left : Int]
    BY <1>1 DEF Types
  <2> QED BY <1>2, <2>1
<1>5. Types'
  <2> HIDE DEF Segments, Streams
  <2> QED BY <1>1, <1>2, <1>4 DEF Types
<1>6. TimerRunsIffOutstanding' /\ StatusMatchesOutstanding'
  BY <1>1, <1>2, <1>4 DEF TimerRunsIffOutstanding, StatusMatchesOutstanding
<1>7. SegmentsCarryTheirBytes'
  BY <1>1, <1>2, CarryIs
<1> QED BY <1>3, <1>4, <1>5, <1>6, <1>7 DEF IInv

LEMMA SendKeeps ==
    ASSUME IInv, maybe_send, edge' = edge
    PROVE  IInv' /\ LeftEdge' = LeftEdge
<1>1. /\ Types /\ TimerRunsIffOutstanding /\ SegmentsCarryTheirBytes
      /\ StatusMatchesOutstanding
  BY DEF IInv
<1>2. /\ out_Readyqueue # <<>> /\ out_Readyqueue' = Tail(out_Readyqueue)
      /\ isn_' = isn_ /\ Now_RTO_' = Now_RTO_ /\ Num_Resend' = Num_Resend
      /\ Seqno' = Seqno /\ num_in_flight' = num_in_flight
      /\ window_size_' = window_size_ /\ status_' = status_
      /\ timer_' = timer_ /\ out_Noackqueue' = out_Noackqueue
      /\ outbound' = outbound
  BY DEF maybe_send
<1>3. /\ Tiled' /\ Windowed' /\ StreamInOrder' /\ NothingSentYet'
      /\ StreamAccounted' /\ LeftEdge' = LeftEdge
  BY <1>2, QuietKeeps
<1>4. /\ out_Readyqueue \in Seq(Segments)
      /\ out_Readyqueue' \in Seq(Segments)
      /\ Len(out_Readyqueue') = Len(out_Readyqueue) - 1
      /\ Len(out_Readyqueue) \in Nat
      /\ \A i \in 1..Len(out_Readyqueue') :
            out_Readyqueue'[i] = out_Readyqueue[i + 1]
  BY <1>1, <1>2, HeadTailProperties, LenProperties DEF Types
<1>5. AllCarry(out_Readyqueue', isn_)
  <2>1. DOMAIN out_Readyqueue' = 1..Len(out_Readyqueue')
        /\ DOMAIN out_Readyqueue = 1..Len(out_Readyqueue)
    BY <1>4, LenProperties
  <2>2. AllCarry(out_Readyqueue, isn_)
    BY <1>1, CarryIs
  <2>3. ASSUME NEW i \in 1..Len(out_Readyqueue')
        PROVE  Carries(out_Readyqueue'[i], isn_)
    <3>1. i + 1 \in 1..Len(out_Readyqueue)
          /\ out_Readyqueue'[i] = out_Readyqueue[i + 1]
      BY <1>4
    <3> QED BY <2>1, <2>2, <3>1 DEF AllCarry
  <2> QED BY <2>1, <2>3 DEF AllCarry
<1>6. Types'
  <2> HIDE DEF Segments, Streams
  <2> QED BY <1>1, <1>2, <1>4 DEF Types
<1>7. TimerRunsIffOutstanding' /\ StatusMatchesOutstanding'
  BY <1>1, <1>2 DEF TimerRunsIffOutstanding, StatusMatchesOutstanding
<1>8. SegmentsCarryTheirBytes'
  BY <1>1, <1>2, <1>5, CarryIs
<1> QED BY <1>3, <1>6, <1>7, <1>8 DEF IInv

(* What the application writes follows what it wrote before, however much of *)
(* it the stream has room for.                                               *)
LEMMA StreamAfterPush ==
    ASSUME Types, StreamInOrder, NEW n \in Nat,
           BytesPushed(outbound) + n <= StreamLen
    PROVE  LET data == [i \in 1..n |-> BytesPushed(outbound) + i]
               s == Push(outbound, data)
           IN  /\ s \in Streams
               /\ s.popped = outbound.popped /\ s.closed = outbound.closed
               /\ s.popped + Len(s.queue) <= StreamLen
               /\ \A i \in DOMAIN s.queue : s.queue[i] = s.popped + i
<1> DEFINE q    == outbound.queue
           p    == outbound.popped
           data == [i \in 1..n |-> BytesPushed(outbound) + i]
           m    == Smaller(Len(data), AvailableCapacity(outbound))
           more == SubSeq(data, 1, m)
           s    == Push(outbound, data)
<1>1. outbound \in Streams /\ q \in Seq(Nat) /\ p \in Nat
      /\ outbound.capacity = OutboundCapacity /\ OutboundCapacity \in Nat
  BY SenderAssumption DEF Types, Streams
<1>2. Len(q) \in Nat /\ DOMAIN q = 1..Len(q)
  BY <1>1, LenProperties
<1>3. BytesPushed(outbound) = p + Len(q) /\ p + Len(q) + n <= StreamLen
      /\ p + Len(q) \in Nat
  BY <1>1, <1>2 DEF BytesPushed
<1>4. data \in Seq(Nat) /\ Len(data) = n
      /\ \A i \in 1..n : data[i] = (p + Len(q)) + i
  <2> DEFINE e(i) == BytesPushed(outbound) + i
  <2>1. \A i \in 1..n : e(i) \in Nat /\ e(i) = (p + Len(q)) + i
    BY <1>3
  <2> HIDE DEF e
  <2>2. [i \in 1..n |-> e(i)] \in [1..n -> Nat]
    BY <2>1
  <2>3. [i \in 1..n |-> e(i)] \in Seq(Nat) /\ Len([i \in 1..n |-> e(i)]) = n
    BY <2>2, SeqDef, LenProperties
  <2>4. \A i \in 1..n : [j \in 1..n |-> e(j)][i] = (p + Len(q)) + i
    BY <2>1
  <2> QED BY <2>3, <2>4 DEF e
<1> HIDE DEF data
<1>5. m \in Int /\ m <= n
  BY <1>1, <1>2, <1>4 DEF Smaller, AvailableCapacity
<1> HIDE DEF m
<1>6. /\ more \in Seq(Nat) /\ Len(more) \in 0..n
      /\ DOMAIN more = 1..Len(more)
      /\ \A i \in 1..Len(more) : more[i] = (p + Len(q)) + i
  <2>1. CASE m <= 0
    <3>1. more = <<>>
      BY <1>4, <1>5, <2>1, SubSeqEmpty
    <3>2. more \in Seq(Nat) /\ Len(more) = 0
      BY <3>1, EmptySeq
    <3> HIDE DEF more
    <3> QED BY <3>2, LenProperties
  <2>2. CASE m > 0
    <3>1. \A i \in 1..m : data[i] \in Nat
      BY <1>4, <1>5, <2>2, ElementOfSeq
    <3>2. more \in Seq(Nat) /\ Len(more) = m
          /\ \A i \in 1..m : more[i] = data[i]
      <4>1. m \in Nat /\ 1 \in Nat /\ 1 \in Int /\ m \in Int
            /\ 1..m \subseteq 1..Len(data) /\ 1 + m - 1 = m /\ m - 1 + 1 = m
        BY <1>4, <1>5, <2>2
      <4> QED BY <1>4, <3>1, <4>1, SubSeqProperties
    <3> HIDE DEF more
    <3> QED BY <1>4, <1>5, <2>2, <3>2, LenProperties
  <2> QED BY <1>5, <2>1, <2>2
<1> DEFINE r == q \o more
<1>7. s = [outbound EXCEPT !.queue = r]
  BY DEF Push, m
<1> HIDE DEF more
<1>8. /\ r \in Seq(Nat) /\ Len(r) = Len(q) + Len(more)
      /\ DOMAIN r = 1..Len(r)
      /\ \A i \in 1..Len(r) : r[i] = IF i <= Len(q) THEN q[i]
                                     ELSE more[i - Len(q)]
  <2>1. r \in Seq(Nat)
    BY <1>1, <1>6, ConcatProperties
  <2>2. DOMAIN r = 1..Len(r)
    BY <2>1, LenProperties
  <2> QED BY <1>1, <1>6, <2>1, <2>2, ConcatProperties
<1> HIDE DEF r, s
<1>9. /\ s \in Streams /\ s.popped = p /\ s.closed = outbound.closed
      /\ s.queue = r
  BY <1>1, <1>7, <1>8 DEF Streams
<1>10. s.popped + Len(s.queue) <= StreamLen
  <2>1. Len(r) = Len(q) + Len(more) /\ Len(more) \in Nat /\ Len(more) <= n
        /\ StreamLen \in Nat
    BY <1>6, <1>8, PeerAssumption
  <2> QED BY <1>1, <1>2, <1>3, <1>9, <2>1
<1>11. ASSUME NEW i \in 1..Len(r) PROVE r[i] = p + i
  <2>1. CASE i <= Len(q)
    <3>1. i \in DOMAIN q /\ r[i] = q[i]
      BY <1>2, <1>8, <2>1
    <3> QED BY <3>1 DEF StreamInOrder, BytesPopped
  <2>2. CASE ~(i <= Len(q))
    <3>1. i - Len(q) \in 1..Len(more) /\ r[i] = more[i - Len(q)]
      BY <1>2, <1>6, <1>8, <2>2
    <3>2. r[i] = (p + Len(q)) + (i - Len(q))
      BY <1>6, <3>1
    <3> QED BY <1>1, <1>2, <3>2
  <2> QED BY <2>1, <2>2
<1> QED BY <1>8, <1>9, <1>10, <1>11 DEF s, data

LEMMA WriteKeeps ==
    ASSUME IInv, NEW n \in Nat, AppWrite(n)
    PROVE  IInv' /\ LeftEdge' = LeftEdge
<1> DEFINE data == [i \in 1..n |-> BytesPushed(outbound) + i]
           s == Push(outbound, data)
<1>1. /\ Types /\ StreamInOrder /\ NothingSentYet /\ StreamAccounted
      /\ TimerRunsIffOutstanding /\ SegmentsCarryTheirBytes
      /\ StatusMatchesOutstanding
  BY DEF IInv
<1>2. /\ BytesPushed(outbound) + n <= StreamLen /\ ~outbound.closed
      /\ outbound' = s
      /\ UNCHANGED <<isn_, Now_RTO_, Num_Resend, Seqno, num_in_flight,
                     window_size_, status_, timer_, out_Noackqueue,
                     out_Readyqueue, edge>>
  BY DEF AppWrite, WriteOutbound, IsClosed
<1>3. /\ s \in Streams
      /\ s.popped = outbound.popped /\ s.closed = outbound.closed
      /\ s.popped + Len(s.queue) <= StreamLen
      /\ \A i \in DOMAIN s.queue : s.queue[i] = s.popped + i
  BY <1>1, <1>2, StreamAfterPush
<1> HIDE DEF s
<1>4. Tiled' /\ Windowed' /\ LeftEdge' = LeftEdge
  BY <1>2, QuietKeeps
<1>5. StreamInOrder' /\ NothingSentYet'
  BY <1>1, <1>2, <1>3
     DEF StreamInOrder, NothingSentYet, BytesPushed, BytesPopped
<1>6. ~FinSent
  BY <1>1, <1>2 DEF StreamAccounted, IsFinished
<1>7. StreamAccounted'
  <2>1. (SynSent' <=> SynSent) /\ (FinSent' <=> FinSent)
    BY <1>2 DEF SynSent, FinSent
  <2>2. Bit(SynSent)' = Bit(SynSent) /\ Bit(FinSent)' = Bit(FinSent)
    BY <2>1, Zenon DEF Bit
  <2>3. Seqno = Bit(SynSent) + BytesPopped(outbound) + Bit(FinSent)
    BY <1>1 DEF StreamAccounted
  <2>4. BytesPopped(outbound)' = BytesPopped(outbound)
    BY <1>2, <1>3 DEF BytesPopped
  <2>5. Seqno' = Bit(SynSent)' + BytesPopped(outbound)' + Bit(FinSent)'
    BY <1>2, <2>2, <2>3, <2>4, Zenon
  <2>6. \A i \in DOMAIN out_Noackqueue' : ~out_Noackqueue'[i].FIN
    BY <1>1, <1>2, <1>6 DEF StreamAccounted
  <2> QED BY <1>6, <2>1, <2>5, <2>6 DEF StreamAccounted
<1>8. Types'
  <2> HIDE DEF Segments, Streams
  <2> QED BY <1>1, <1>2, <1>3 DEF Types
<1>9. TimerRunsIffOutstanding' /\ StatusMatchesOutstanding'
  BY <1>1, <1>2 DEF TimerRunsIffOutstanding, StatusMatchesOutstanding
<1>10. SegmentsCarryTheirBytes'
  BY <1>1, <1>2, CarryIs
<1> QED BY <1>4, <1>5, <1>7, <1>8, <1>9, <1>10 DEF IInv

LEMMA CloseKeeps ==
    ASSUME IInv, AppClose
    PROVE  IInv' /\ LeftEdge' = LeftEdge
<1>1. /\ Types /\ StreamInOrder /\ NothingSentYet /\ StreamAccounted
      /\ TimerRunsIffOutstanding /\ SegmentsCarryTheirBytes
      /\ StatusMatchesOutstanding
  BY DEF IInv
<1>2. /\ ~outbound.closed
      /\ outbound' = [outbound EXCEPT !.closed = TRUE]
      /\ UNCHANGED <<isn_, Now_RTO_, Num_Resend, Seqno, num_in_flight,
                     window_size_, status_, timer_, out_Noackqueue,
                     out_Readyqueue, edge>>
  BY DEF AppClose, CloseOutbound, IsClosed, Close
<1>3. /\ outbound' \in Streams
      /\ outbound'.popped = outbound.popped /\ outbound'.queue = outbound.queue
  <2>1. outbound \in Streams
    BY <1>1 DEF Types
  <2> QED BY <1>2, <2>1 DEF Streams
<1>4. Tiled' /\ Windowed' /\ LeftEdge' = LeftEdge
  BY <1>2, QuietKeeps
<1>5. StreamInOrder' /\ NothingSentYet'
  BY <1>1, <1>2, <1>3
     DEF StreamInOrder, NothingSentYet, BytesPushed, BytesPopped
<1>6. ~FinSent
  BY <1>1, <1>2 DEF StreamAccounted, IsFinished
<1>7. StreamAccounted'
  <2>1. (SynSent' <=> SynSent) /\ (FinSent' <=> FinSent)
    BY <1>2 DEF SynSent, FinSent
  <2>2. Bit(SynSent)' = Bit(SynSent) /\ Bit(FinSent)' = Bit(FinSent)
    BY <2>1, Zenon DEF Bit
  <2>3. Seqno = Bit(SynSent) + BytesPopped(outbound) + Bit(FinSent)
    BY <1>1 DEF StreamAccounted
  <2>4. BytesPopped(outbound)' = BytesPopped(outbound)
    BY <1>3 DEF BytesPopped
  <2>5. Seqno' = Bit(SynSent)' + BytesPopped(outbound)' + Bit(FinSent)'
    BY <1>2, <2>2, <2>3, <2>4, Zenon
  <2>6. \A i \in DOMAIN out_Noackqueue' : ~out_Noackqueue'[i].FIN
    BY <1>1, <1>2, <1>6 DEF StreamAccounted
  <2> QED BY <1>6, <2>1, <2>5, <2>6 DEF StreamAccounted
<1>8. Types'
  <2> HIDE DEF Segments, Streams
  <2> QED BY <1>1, <1>2, <1>3 DEF Types
<1>9. TimerRunsIffOutstanding' /\ StatusMatchesOutstanding'
  BY <1>1, <1>2 DEF TimerRunsIffOutstanding, StatusMatchesOutstanding
<1>10. SegmentsCarryTheirBytes'
  BY <1>1, <1>2, CarryIs
<1> QED BY <1>4, <1>5, <1>7, <1>8, <1>9, <1>10 DEF IInv
-----------------------------------------------------------------------------
LEMMA StartHolds ==
    ASSUME SenderInit, edge \in Nat, edge >= 2
    PROVE  IInv
<1>1. /\ isn_ \in Wrap32 /\ Now_RTO_ = initial_RTO_ms /\ Num_Resend = 0
      /\ Seqno = 0 /\ num_in_flight = 0 /\ window_size_ = 1
      /\ status_ = "CLOSED" /\ timer_ = [open |-> FALSE, left |-> 0]
      /\ out_Noackqueue = <<>> /\ out_Readyqueue = <<>>
      /\ outbound = [capacity |-> OutboundCapacity, queue |-> <<>>,
                     popped |-> 0, closed |-> FALSE, error |-> FALSE]
  BY DEF SenderInit, ClosedTimer, NewStream
<1>2. /\ DOMAIN (<<>>) = {} /\ Len(<<>>) = 0
      /\ <<>> \in Seq(Segments) /\ <<>> \in Seq(Nat)
  BY EmptySeq
<1> DEFINE none == <<>>
<1>3. none \in Seq(Segments) /\ none \in Seq(Nat) /\ DOMAIN none = {}
      /\ Len(none) = 0
  BY <1>2
<1>4. outbound \in Streams /\ outbound.queue = none /\ outbound.popped = 0
  <2>1. outbound = [capacity |-> OutboundCapacity, queue |-> none,
                    popped |-> 0, closed |-> FALSE, error |-> FALSE]
    BY <1>1
  <2> HIDE DEF none
  <2> QED BY <1>3, <2>1 DEF Streams
<1>5. Types
  <2>1. out_Noackqueue = none /\ out_Readyqueue = none
    BY <1>1
  <2>2. window_size_ <= Larger(MaxWindow, 1)
    BY <1>1, PeerAssumption DEF Larger
  <2>3. timer_ \in [open : BOOLEAN, left : Int] /\ status_ \in Status
    BY <1>1 DEF Status
  <2>4. Now_RTO_ \in Nat /\ Num_Resend \in Nat
    BY <1>1, SenderAssumption
  <2> HIDE DEF none, Segments, Streams
  <2> QED BY <1>1, <1>3, <1>4, <2>1, <2>2, <2>3, <2>4 DEF Types
<1>6. Tiled
  BY <1>1, <1>2, NumbersOfNone DEF Tiled
<1>7. Windowed
  BY <1>1, PeerAssumption DEF Windowed, Larger, LeftEdge
<1>8. StreamInOrder /\ NothingSentYet
  <2>1. DOMAIN outbound.queue = {} /\ Len(outbound.queue) = 0
    BY <1>3, <1>4
  <2> QED BY <1>1, <1>4, <2>1, PeerAssumption
          DEF StreamInOrder, NothingSentYet, BytesPushed, BytesPopped
<1>9. TimerRunsIffOutstanding
  BY <1>1, BackoffIs DEF TimerRunsIffOutstanding
<1>10. SegmentsCarryTheirBytes
  BY <1>1, <1>2 DEF SegmentsCarryTheirBytes
<1>11. StreamAccounted
  <2>1. Bit(SynSent) = 0 /\ Bit(FinSent) = 0 /\ ~FinSent
    BY <1>1 DEF SynSent, FinSent, Bit
  <2> QED BY <1>1, <1>2, <1>4, <2>1 DEF StreamAccounted, BytesPopped
<1>12. StatusMatchesOutstanding
  BY <1>1 DEF StatusMatchesOutstanding
<1> QED BY <1>5, <1>6, <1>7, <1>8, <1>9, <1>10, <1>11, <1>12 DEF IInv

LEMMA InitHolds == Init => IInv
<1> SUFFICES ASSUME Init PROVE IInv
  OBVIOUS
<1>1. SenderInit /\ edge = 2
  BY DEF Init
<1>2. edge \in Nat /\ edge >= 2
  BY <1>1
<1> QED BY <1>1, <1>2, StartHolds

(* What NeverBackwards and DeadlineNotPostponed say of one step.             *)
Forward ==
    /\ LeftEdge' >= LeftEdge
    /\ Seqno' >= Seqno
    /\ Rank[status_'] >= Rank[status_]

Punctual ==
    /\ out_Noackqueue # <<>> /\ out_Noackqueue' # <<>>
    /\ Head(out_Noackqueue') = Head(out_Noackqueue)
    /\ timer_'.left > timer_.left
    => /\ out_Readyqueue' = <<Head(out_Noackqueue)>> \o out_Readyqueue
       /\ timer_'.left = Backoff[Num_Resend + Bit(window_size_ # 0)]

(* A retransmission starts the timer with the interval due.                  *)
LEMMA IntervalIs ==
    ASSUME IInv, NEW ms \in Nat, Retransmit(ms)
    PROVE  timer_'.left = Backoff[Num_Resend + Bit(window_size_ # 0)]
<1>1. Num_Resend \in Nat /\ Now_RTO_ = Backoff[Num_Resend]
  BY DEF IInv, Types, TimerRunsIffOutstanding
<1>2. timer_'.left = NextRTO
  BY DEF Retransmit, StartedTimer
<1>3. CASE window_size_ # 0
  <2>1. Backoff[Num_Resend + 1] = 2 * Backoff[Num_Resend]
    BY <1>1, BackoffIs
  <2>2. NextRTO = 2 * Now_RTO_ /\ Bit(window_size_ # 0) = 1
    BY <1>3 DEF NextRTO, Bit
  <2> QED BY <1>1, <1>2, <2>1, <2>2
<1>4. CASE window_size_ = 0
  <2>1. NextRTO = Now_RTO_ /\ Bit(window_size_ # 0) = 0
    BY <1>4 DEF NextRTO, Bit
  <2>2. Num_Resend + 0 = Num_Resend
    BY <1>1
  <2> QED BY <1>1, <1>2, <2>1, <2>2
<1> QED BY <1>3, <1>4

LEMMA StillForward ==
    ASSUME IInv, LeftEdge' = LeftEdge, Seqno' >= Seqno,
           \/ status_' = status_
           \/ status_ = "CLOSED" /\ status_' \in Status
           \/ status_ = "ESTABLISHED" /\ status_' = "FIN_WAIT"
    PROVE  Forward
<1>1. LeftEdge \in Int /\ status_ \in Status
  BY DEF IInv, Types, LeftEdge
<1>2. Rank[status_'] >= Rank[status_]
  BY <1>1 DEF Status, Rank
<1> QED BY <1>1, <1>2 DEF Forward

LEMMA SameTimer ==
    ASSUME IInv, timer_'.left <= timer_.left, timer_'.left \in Int
    PROVE  Punctual
<1>1. timer_.left \in Int
  BY DEF IInv, Types
<1> QED BY <1>1 DEF Punctual

LEMMA PushSteps ==
    ASSUME IInv, OwnerPush
    PROVE  IInv' /\ Forward /\ Punctual
<1>1. edge' = edge /\ (PushSyn \/ PushData)
  BY DEF OwnerPush, push
<1>2. timer_.left \in Int /\ (timer_.open <=> out_Noackqueue # <<>>)
  BY DEF IInv, Types, TimerRunsIffOutstanding
<1>3. CASE PushSyn
  <2>1. IInv' /\ LeftEdge' = LeftEdge /\ Seqno' >= Seqno
    BY <1>1, <1>3, PushSynKeeps
  <2>2. status_ = "CLOSED" /\ status_' \in Status /\ out_Noackqueue = <<>>
    BY <1>3 DEF IInv, NothingSentYet, PushSyn, StatusAfterSyn, Status
  <2>3. Forward
    BY <2>1, <2>2, StillForward
  <2> QED BY <2>1, <2>2, <2>3 DEF Punctual
<1>4. CASE PushData
  <2>1. IInv' /\ LeftEdge' = LeftEdge /\ Seqno' >= Seqno
    BY <1>1, <1>4, PushDataKeeps
  <2>2. /\ status_ = "ESTABLISHED"
        /\ status_' = status_ \/ status_' = "FIN_WAIT"
        /\ out_Noackqueue # <<>> => timer_' = timer_
    BY <1>2, <1>4, Zenon DEF PushData, push_msgs, StartsTimer
  <2>3. Forward
    BY <2>1, <2>2, StillForward
  <2> QED BY <1>2, <2>1, <2>2, <2>3 DEF Punctual
<1> QED BY <1>1, <1>3, <1>4

LEMMA NextKeeps ==
    ASSUME IInv, Next
    PROVE  IInv' /\ Forward /\ Punctual
<1>1. timer_.left \in Int /\ Seqno \in Nat
  BY DEF IInv, Types
<1>2. CASE \E n \in 1..2 : AppWrite(n)
  <2>1. PICK n \in 1..2 : AppWrite(n)
    BY <1>2
  <2>2. IInv' /\ LeftEdge' = LeftEdge
    BY <2>1, WriteKeeps
  <2>3. timer_' = timer_ /\ Seqno' = Seqno /\ status_' = status_
    BY <2>1 DEF AppWrite, WriteOutbound
  <2> QED BY <1>1, <2>2, <2>3, StillForward, SameTimer
<1>3. CASE AppClose
  <2>1. IInv' /\ LeftEdge' = LeftEdge
    BY <1>3, CloseKeeps
  <2>2. timer_' = timer_ /\ Seqno' = Seqno /\ status_' = status_
    BY <1>3 DEF AppClose, CloseOutbound
  <2> QED BY <1>1, <2>1, <2>2, StillForward, SameTimer
<1>4. CASE OwnerPush
  BY <1>4, PushSteps
<1>5. CASE OwnerSends
  <2>1. maybe_send /\ edge' = edge
    BY <1>5 DEF OwnerSends
  <2>2. IInv' /\ LeftEdge' = LeftEdge
    BY <2>1, SendKeeps
  <2>3. timer_' = timer_ /\ Seqno' = Seqno /\ status_' = status_
    BY <2>1 DEF maybe_send
  <2> QED BY <1>1, <2>2, <2>3, StillForward, SameTimer
<1>6. CASE \E raw \in Wrap32, window \in 0..MaxWindow : PeerAcks(raw, window)
  <2>1. PICK raw \in Wrap32, window \in 0..MaxWindow : PeerAcks(raw, window)
    BY <1>6
  <2>2. /\ IInv' /\ Forward
        /\ out_Noackqueue # <<>> /\ out_Noackqueue' # <<>>
               /\ Head(out_Noackqueue') = Head(out_Noackqueue)
           => timer_' = timer_
    BY <2>1, AckKeeps DEF Forward
  <2> QED BY <1>1, <2>2 DEF Punctual
<1>7. CASE \E ms \in 1..MaxTick : TimePassing(ms)
  <2>1. PICK ms \in 1..MaxTick : TimePassing(ms)
    BY <1>7
  <2>2. ms \in Nat /\ edge' = edge /\ (TimePasses(ms) \/ Retransmit(ms))
    BY <2>1, PeerAssumption DEF TimePassing, tick
  <2>3. CASE TimePasses(ms)
    <3>1. IInv' /\ LeftEdge' = LeftEdge /\ timer_'.left <= timer_.left
      BY <2>2, <2>3, TimePassesKeeps
    <3>2. timer_'.left \in Int
      BY <3>1 DEF IInv, Types
    <3>3. Seqno' = Seqno /\ status_' = status_
      BY <2>3 DEF TimePasses
    <3> QED BY <1>1, <3>1, <3>2, <3>3, StillForward, SameTimer
  <2>4. CASE Retransmit(ms)
    <3>1. IInv' /\ LeftEdge' = LeftEdge
      BY <2>2, <2>4, RetransmitKeeps
    <3>2. /\ Seqno' = Seqno /\ status_' = status_
          /\ out_Readyqueue' = <<Head(out_Noackqueue)>> \o out_Readyqueue
      BY <2>4 DEF Retransmit
    <3>3. timer_'.left = Backoff[Num_Resend + Bit(window_size_ # 0)]
      BY <2>2, <2>4, IntervalIs
    <3>4. Forward
      BY <1>1, <3>1, <3>2, StillForward
    <3> QED BY <3>1, <3>2, <3>3, <3>4 DEF Punctual
  <2> QED BY <2>2, <2>3, <2>4
<1> QED BY <1>2, <1>3, <1>4, <1>5, <1>6, <1>7 DEF Next

(* The sender stands still while the furthest edge moves on.                 *)
LEMMA EdgeMovesOn ==
    ASSUME IInv, UNCHANGED senderVars, edge' \in Nat, edge <= edge'
    PROVE  IInv'
<1>1. /\ UNCHANGED <<isn_, Now_RTO_, Num_Resend, Seqno, num_in_flight,
                     window_size_, status_, timer_, out_Noackqueue,
                     out_Readyqueue, outbound>>
  BY DEF senderVars
<1>2. /\ Types /\ Tiled /\ Windowed /\ StreamInOrder /\ NothingSentYet
      /\ TimerRunsIffOutstanding /\ SegmentsCarryTheirBytes /\ StreamAccounted
      /\ StatusMatchesOutstanding
  BY DEF IInv
<1>3. LeftEdge' = LeftEdge /\ LeftEdge \in Int
  BY <1>1, <1>2 DEF LeftEdge, Types
<1>4. Types'
  <2> HIDE DEF Segments, Streams
  <2> QED BY <1>1, <1>2 DEF Types
<1>5. Tiled'
  BY <1>1, <1>2, <1>3 DEF Tiled
<1>6. Windowed'
  <2>1. Larger(window_size_, 1) \in Nat /\ Seqno \in Nat /\ edge \in Nat
    BY <1>2 DEF Types, Larger
  <2>2. Larger(window_size_, 1)' = Larger(window_size_, 1)
    BY <1>1 DEF Larger
  <2> QED BY <1>1, <1>2, <1>3, <2>1, <2>2 DEF Windowed
<1>7. StreamInOrder' /\ NothingSentYet'
  BY <1>1, <1>2 DEF StreamInOrder, NothingSentYet, BytesPushed, BytesPopped
<1>8. StreamAccounted'
  <2>1. (SynSent' <=> SynSent) /\ (FinSent' <=> FinSent)
    BY <1>1 DEF SynSent, FinSent
  <2>2. Bit(SynSent)' = Bit(SynSent) /\ Bit(FinSent)' = Bit(FinSent)
    BY <2>1, Zenon DEF Bit
  <2>3. Seqno' = Bit(SynSent)' + BytesPopped(outbound)' + Bit(FinSent)'
    BY <1>1, <1>2, <2>2, Zenon DEF StreamAccounted
  <2>4. FinSent' => IsFinished(outbound)'
    BY <1>1, <1>2, <2>1 DEF StreamAccounted
  <2>5. \A i \in DOMAIN out_Noackqueue' : out_Noackqueue'[i].FIN =>
            FinSent' /\ i = Len(out_Noackqueue')
    BY <1>1, <1>2, <2>1 DEF StreamAccounted
  <2> QED BY <2>3, <2>4, <2>5 DEF StreamAccounted
<1>9. /\ TimerRunsIffOutstanding' /\ StatusMatchesOutstanding'
      /\ SegmentsCarryTheirBytes'
  BY <1>1, <1>2, CarryIs DEF TimerRunsIffOutstanding, StatusMatchesOutstanding
<1> QED BY <1>4, <1>5, <1>6, <1>7, <1>8, <1>9 DEF IInv

LEMMA StandStill ==
    ASSUME IInv, UNCHANGED vars
    PROVE  IInv' /\ Forward /\ Punctual
<1>1. /\ UNCHANGED <<isn_, Now_RTO_, Num_Resend, Seqno, num_in_flight,
                     window_size_, status_, timer_, out_Noackqueue,
                     out_Readyqueue, outbound, edge>>
  BY DEF vars, senderVars
<1>2. /\ Tiled' /\ Windowed' /\ StreamInOrder' /\ NothingSentYet'
      /\ StreamAccounted' /\ LeftEdge' = LeftEdge
  BY <1>1, QuietKeeps
<1>3. Types'
  <2> HIDE DEF Segments, Streams
  <2> QED BY <1>1 DEF IInv, Types
<1>4. /\ TimerRunsIffOutstanding' /\ StatusMatchesOutstanding'
      /\ SegmentsCarryTheirBytes'
  BY <1>1, CarryIs DEF IInv, TimerRunsIffOutstanding, StatusMatchesOutstanding
<1>5. IInv'
  BY <1>2, <1>3, <1>4 DEF IInv
<1>6. timer_'.left <= timer_.left /\ timer_'.left \in Int /\ Seqno' >= Seqno
  BY <1>1 DEF IInv, Types
<1> QED BY <1>1, <1>2, <1>5, <1>6, StillForward, SameTimer

LEMMA AlwaysHolds == Spec => []IInv /\ [][Forward /\ Punctual]_vars
<1>1. Init => IInv
  BY InitHolds
<1>2. IInv /\ [Next]_vars => IInv' /\ Forward /\ Punctual
  BY NextKeeps, StandStill
<1> QED BY <1>1, <1>2, PTL DEF Spec

(* The retransmission timer runs exactly while segments are outstanding, and *)
(* its interval is the initial one doubled once per retransmission, whatever *)
(* acknowledgements, windows and pauses push(), receive() and tick() meet.   *)
THEOREM TimerRuns == Spec => []TimerRunsIffOutstanding
<1>1. IInv => TimerRunsIffOutstanding
  BY DEF IInv
<1> QED BY <1>1, AlwaysHolds, PTL

(* The outstanding segments are consecutive, end where the next one starts   *)
(* and are counted by num_in_flight, also after receive() met an             *)
(* acknowledgement in the middle of a segment, repeated or late.             *)
THEOREM Contiguous == Spec => []OutstandingIsContiguous
<1>1. ASSUME IInv PROVE OutstandingIsContiguous
  <2>1. /\ Types /\ Tiled /\ Windowed /\ StreamInOrder /\ StreamAccounted
    BY <1>1 DEF IInv
  <2>2. DOMAIN out_Noackqueue = 1..Len(out_Noackqueue)
    BY <2>1, LenProperties DEF Types
  <2>3. \A i \in 1..Len(out_Noackqueue) :
           AbsoluteNo(out_Noackqueue[i].seqno)
               = Place(out_Noackqueue, LeftEdge, i)
    BY <2>1, PlacesRecovered
  <2> QED BY <2>1, <2>2, <2>3 DEF OutstandingIsContiguous, Tiled, Place
<1> QED BY <1>1, AlwaysHolds, PTL

(* Every queued segment, sent for the first time or again, carries the bytes *)
(* that belong at its sequence number: push() never cuts the stream wrongly. *)
THEOREM CarryTheirBytes == Spec => []SegmentsCarryTheirBytes
<1>1. IInv => SegmentsCarryTheirBytes
  BY DEF IInv
<1> QED BY <1>1, AlwaysHolds, PTL

(* The next sequence number counts the SYN, the bytes taken from the stream  *)
(* and the FIN, and push() sends the FIN once, after the last byte.          *)
THEOREM Accounted == Spec => []StreamAccounted
<1>1. IInv => StreamAccounted
  BY DEF IInv
<1> QED BY <1>1, AlwaysHolds, PTL

(* push() never uses a number beyond the furthest right edge an              *)
(* acknowledgement announced, although receive() takes any window.           *)
THEOREM WithinWindow == Spec => []WithinAdvertisedWindow
<1>1. IInv => WithinAdvertisedWindow
  BY DEF IInv, Windowed, WithinAdvertisedWindow
<1> QED BY <1>1, AlwaysHolds, PTL

(* The state receive() and push() assign agrees with what is outstanding.    *)
THEOREM StatusMatches == Spec => []StatusMatchesOutstanding
<1>1. IInv => StatusMatchesOutstanding
  BY DEF IInv
<1> QED BY <1>1, AlwaysHolds, PTL

(* Neither the left edge nor the next number nor the state of the connection *)
(* ever goes back, however receive() is given its acknowledgements.          *)
THEOREM ForwardOnly == Spec => NeverBackwards
<1>1. Forward /\ Punctual =>
         /\ LeftEdge' >= LeftEdge /\ Seqno' >= Seqno
         /\ Rank[status_'] >= Rank[status_]
  BY DEF Forward
<1> QED BY <1>1, AlwaysHolds, PTL DEF NeverBackwards

(* Only tick()'s sending it again gives the oldest outstanding segment more  *)
(* time, neither push() nor a useless acknowledgement does; and what it gives*)
(* is the interval due, not doubled for a probe of a closed window.          *)
THEOREM Deadlines == Spec => DeadlineNotPostponed
<1>1. Forward /\ Punctual =>
         (/\ out_Noackqueue # <<>> /\ out_Noackqueue' # <<>>
          /\ Head(out_Noackqueue') = Head(out_Noackqueue)
          /\ timer_'.left > timer_.left
          => /\ out_Readyqueue' = <<Head(out_Noackqueue)>> \o out_Readyqueue
             /\ timer_'.left = Backoff[Num_Resend + Bit(window_size_ # 0)])
  BY DEF Punctual
<1> QED BY <1>1, AlwaysHolds, PTL DEF DeadlineNotPostponed
============================================================================
