--------------------------- MODULE ReceiverProofs ---------------------------
(* Proofs about src/src/reassembler.cc and src/src/tcp_receiver.cc for       *)
(* streams, substrings, windows and initial sequence numbers of every size.  *)
(* The stored blocks stay separate and within the window, their bytes are    *)
(* counted, and insert() makes known exactly the bytes that fit and writes   *)
(* all it can.  The loops of insert() and update_output() are folds: each is *)
(* first shown to go one block at a time, and what it does is then an        *)
(* induction over the blocks in order.                                       *)
(* A receiver before the SYN, between SYN and FIN and after the FIN keeps    *)
(* its reassembler so that what it acknowledges is what has arrived.         *)
EXTENDS ReceiverWithPeer, Reassembler, WrappingProofs

(* The greatest of a set of numbers, which a fold takes last.                *)
LEMMA MaxIs ==
    ASSUME NEW n \in Nat, NEW s \in SUBSET (1..(n + 1)), n + 1 \in s
    PROVE  Max(s) = n + 1
<1>1. \A x \in s : n + 1 >= x
  OBVIOUS
<1>2. \E x \in s : \A y \in s : x >= y
  BY <1>1
<1>3. Max(s) \in s /\ \A y \in s : Max(s) >= y
  BY <1>2 DEF Max
<1> DEFINE m == Max(s)
<1> HIDE DEF m
<1>4. m \in 1..(n + 1) /\ m >= n + 1
  BY <1>3 DEF m
<1>5. m = n + 1
  BY <1>4
<1> QED BY <1>5 DEF m

(* The greatest of a set of numbers up to n.                                 *)
LEMMA SubsetMax ==
    ASSUME NEW n \in Nat, NEW s \in SUBSET (1..n), s # {}
    PROVE  Max(s) \in s
<1> DEFINE T == {n - x : x \in s}
<1>1. T \in SUBSET Nat /\ T # {}
  <2>1. \A x \in s : n - x \in Nat
    OBVIOUS
  <2> QED BY <2>1
<1>2. PICK y \in T : \A z \in T : y <= z
  <2> HIDE DEF T
  <2> QED BY <1>1, LeastNumber
<1>3. PICK x \in s : y = n - x
  OBVIOUS
<1>4. ASSUME NEW z \in s PROVE x >= z
  <2>1. n - x <= n - z
    BY <1>2, <1>3
  <2>2. x \in 1..n /\ z \in 1..n
    OBVIOUS
  <2> QED BY <2>1, <2>2
<1> QED BY <1>4 DEF Max

(* The numbers up to k without the greatest.                                 *)
LEMMA UpTo ==
    ASSUME NEW n \in Nat, NEW k \in 1..n
    PROVE  /\ 1..k \in SUBSET (1..n) /\ 1..k # {}
           /\ Max(1..k) = k
           /\ (1..k) \ {k} = 1..(k - 1)
<1>1. k \in Nat /\ k - 1 \in Nat /\ (k - 1) + 1 = k
  OBVIOUS
<1>2. 1..k \in SUBSET (1..((k - 1) + 1)) /\ (k - 1) + 1 \in 1..k
  BY <1>1
<1>3. Max(1..k) = (k - 1) + 1
  BY <1>1, <1>2, MaxIs
<1> QED BY <1>1, <1>3

(* A fold is well defined: its recursion ends.                               *)
FoldsTo(f, n, base, step) ==
    \A s \in SUBSET (1..n) :
        f[s] = IF s = {} THEN base ELSE step[Max(s)][f[s \ {Max(s)}]]

LEMMA FoldExists ==
    ASSUME NEW n \in Nat, NEW S, NEW base \in S,
           NEW step \in [1..n -> [S -> S]]
    PROVE  \E f \in [SUBSET (1..n) -> S] : FoldsTo(f, n, base, step)
<1> DEFINE Good(f, k) ==
               \A s \in SUBSET (1..k) :
                   f[s] = IF s = {} THEN base
                          ELSE step[Max(s)][f[s \ {Max(s)}]]
           T == {k \in 0..n : \E f \in [SUBSET (1..k) -> S] : Good(f, k)}
<1>1. 0 \in T
  <2> DEFINE f == [s \in SUBSET (1..0) |-> base]
  <2>1. f \in [SUBSET (1..0) -> S]
    OBVIOUS
  <2>2. \A s \in SUBSET (1..0) : s = {}
    OBVIOUS
  <2>3. Good(f, 0)
    BY <2>2
  <2>4. \E h \in [SUBSET (1..0) -> S] : Good(h, 0)
    BY <2>1, <2>3
  <2> HIDE DEF f
  <2>5. 0 \in 0..n
    OBVIOUS
  <2> QED BY <2>4, <2>5
<1>2. ASSUME NEW k \in 0..(n - 1), k \in T PROVE k + 1 \in T
  <2>1. PICK f \in [SUBSET (1..k) -> S] : Good(f, k)
    BY <1>2
  <2> DEFINE m == k + 1
             g == [s \in SUBSET (1..m) |->
                      IF m \in s THEN step[m][f[s \ {m}]] ELSE f[s]]
  <2>2. \A s \in SUBSET (1..m) :
           /\ m \in s => s \ {m} \in SUBSET (1..k) /\ Max(s) = m
           /\ m \notin s => s \in SUBSET (1..k)
    BY MaxIs
  <2>3. step[m] \in [S -> S] /\ m \in 0..n
    OBVIOUS
  <2> HIDE DEF m
  <2>4. g \in [SUBSET (1..m) -> S]
    BY <2>2, <2>3
  <2>5. ASSUME NEW s \in SUBSET (1..m)
        PROVE  g[s] = IF s = {} THEN base ELSE step[Max(s)][g[s \ {Max(s)}]]
    <3>1. CASE m \in s
      <4>1. g[s \ {m}] = f[s \ {m}]
        OBVIOUS
      <4> QED BY <2>2, <3>1, <4>1
    <3>2. CASE m \notin s
      <4>1. g[s] = f[s] /\ s \in SUBSET (1..k)
        BY <2>2, <3>2
      <4>3. s # {} => g[s \ {Max(s)}] = f[s \ {Max(s)}]
        BY <3>2, <4>1
      <4> QED BY <2>1, <4>1, <4>3
    <3> QED BY <3>1, <3>2
  <2> QED BY <2>3, <2>4, <2>5 DEF m
<1>3. 0..n \subseteq T
  <2> HIDE DEF T
  <2> QED BY <1>1, <1>2, InductionUpTo
<1>4. n \in T
  <2> HIDE DEF T
  <2> QED BY <1>3
<1> QED BY <1>4 DEF FoldsTo

(* The loops of insert() go one block at a time.  These operators say that   *)
(* g is what has been computed after each block of q: the bytes counted, the *)
(* block merged, the reassembler and stream written to.                      *)
Merged(base, q)   == FoldLeft(merge_block, base, q)
WriteAll(base, q) == FoldLeft(WriteIfNext, base, q)

PendingTo(g, n, q) ==
    /\ PendingIn(q) = g[n] /\ g[0] = 0
    /\ \A k \in 1..n : g[k] = g[k - 1] + Len(q[k].data)

MergesTo(g, n, base, q) ==
    /\ Merged(base, q) = g[n] /\ g[0] = base
    /\ \A k \in 1..n : g[k] = merge_block(g[k - 1], q[k])

WritesTo(g, n, base, q) ==
    /\ WriteAll(base, q) = g[n] /\ g[0] = base
    /\ \A k \in 1..n : g[k] = WriteIfNext(g[k - 1], q[k])

(* The loop that subtracts the bytes of the blocks to absorb.                *)
LEMMA PendingSteps ==
    ASSUME NEW n \in Nat, NEW q, DOMAIN q = 1..n,
           \A i \in 1..n : Len(q[i].data) \in Nat
    PROVE  \E g \in [0..n -> Nat] : PendingTo(g, n, q)
<1> DEFINE Rec(f) == [s \in SUBSET (1..n) |->
                         IF s = {} THEN 0
                         ELSE f[s \ {Max(s)}] + Len(q[Max(s)].data)]
           step == [i \in 1..n |-> [x \in Nat |-> x + Len(q[i].data)]]
           iter == CHOOSE f : f = Rec(f)
           g == [k \in 0..n |-> iter[1..k]]
<1>1. PendingIn(q) = iter[1..n]
  BY DEF PendingIn, FoldLeft, MapThenFoldSet
<1>2. step \in [1..n -> [Nat -> Nat]]
  OBVIOUS
<1>3. PICK f \in [SUBSET (1..n) -> Nat] : FoldsTo(f, n, 0, step)
  <2> HIDE DEF step
  <2>1. 0 \in Nat
    OBVIOUS
  <2> QED BY <1>2, <2>1, FoldExists, Zenon
<1>4. \A s \in SUBSET (1..n) : s # {} => Max(s) \in s
  BY SubsetMax
<1>5. f = Rec(f)
  BY <1>3, <1>4 DEF FoldsTo
<1> HIDE DEF Rec, step
<1>6. iter = Rec(iter)
  BY <1>5
<1> HIDE DEF iter
<1>7. iter[{}] = 0
  BY <1>6 DEF Rec
<1>8. ASSUME NEW k \in 1..n
      PROVE  iter[1..k] = iter[1..(k - 1)] + Len(q[k].data)
  <2>1. \A s \in SUBSET (1..n) : s # {} =>
           iter[s] = iter[s \ {Max(s)}] + Len(q[Max(s)].data)
    BY <1>6 DEF Rec
  <2>2. /\ 1..k \in SUBSET (1..n) /\ 1..k # {}
        /\ Max(1..k) = k /\ (1..k) \ {k} = 1..(k - 1)
    BY UpTo
  <2> QED BY <2>1, <2>2
<1>9. /\ g[0] = 0
      /\ \A k \in 1..n : g[k] = g[k - 1] + Len(q[k].data)
  <2>1. 1..0 = {}
    OBVIOUS
  <2> QED BY <1>7, <1>8, <2>1
<1>10. PendingIn(q) = g[n]
  BY <1>1
<1>11. g \in [0..n -> Nat]
  <2> DEFINE T == {k \in 0..n : g[k] \in Nat}
  <2> HIDE DEF g
  <2>1. 0 \in T
    BY <1>9
  <2>2. \A k \in 0..(n - 1) : k \in T => k + 1 \in T
    <3> SUFFICES ASSUME NEW k \in 0..(n - 1), g[k] \in Nat
                 PROVE  g[k + 1] \in Nat
      OBVIOUS
    <3>1. k + 1 \in 1..n /\ (k + 1) - 1 = k
      OBVIOUS
    <3>2. g[k + 1] = g[k] + Len(q[k + 1].data)
      BY <1>9, <3>1
    <3>3. Len(q[k + 1].data) \in Nat
      BY <3>1
    <3> QED BY <3>2, <3>3
  <2>3. 0..n \subseteq T
    <3> HIDE DEF T
    <3> QED BY <2>1, <2>2, InductionUpTo
  <2> QED BY <2>3 DEF g
<1> QED BY <1>9, <1>10, <1>11 DEF PendingTo

(* The loop that merges a new block with those it overlaps.                  *)
LEMMA MergeSteps ==
    ASSUME NEW n \in Nat, NEW q, DOMAIN q = 1..n, NEW S, NEW base \in S,
           \A x \in S : \A i \in 1..n : merge_block(x, q[i]) \in S
    PROVE  \E g \in [0..n -> S] : MergesTo(g, n, base, q)
<1> DEFINE Rec(f) == [s \in SUBSET (1..n) |->
                         IF s = {} THEN base
                         ELSE merge_block(f[s \ {Max(s)}], q[Max(s)])]
           step == [i \in 1..n |-> [x \in S |-> merge_block(x, q[i])]]
           iter == CHOOSE f : f = Rec(f)
           g == [k \in 0..n |-> iter[1..k]]
<1>1. Merged(base, q) = iter[1..n]
  BY DEF Merged, FoldLeft, MapThenFoldSet
<1>2. step \in [1..n -> [S -> S]]
  OBVIOUS
<1>3. PICK f \in [SUBSET (1..n) -> S] : FoldsTo(f, n, base, step)
  <2> HIDE DEF step
  <2> QED BY <1>2, FoldExists, Zenon
<1>4. \A s \in SUBSET (1..n) : s # {} => Max(s) \in s
  BY SubsetMax
<1>5. f = Rec(f)
  BY <1>3, <1>4 DEF FoldsTo
<1> HIDE DEF Rec, step
<1>6. iter = Rec(iter)
  BY <1>5
<1> HIDE DEF iter
<1>7. iter[{}] = base
  BY <1>6 DEF Rec
<1>8. ASSUME NEW k \in 1..n
      PROVE  iter[1..k] = merge_block(iter[1..(k - 1)], q[k])
  <2>1. \A s \in SUBSET (1..n) : s # {} =>
           iter[s] = merge_block(iter[s \ {Max(s)}], q[Max(s)])
    BY <1>6 DEF Rec
  <2>2. /\ 1..k \in SUBSET (1..n) /\ 1..k # {}
        /\ Max(1..k) = k /\ (1..k) \ {k} = 1..(k - 1)
    BY UpTo
  <2> QED BY <2>1, <2>2
<1>9. /\ g[0] = base
      /\ \A k \in 1..n : g[k] = merge_block(g[k - 1], q[k])
  <2>1. 1..0 = {}
    OBVIOUS
  <2> QED BY <1>7, <1>8, <2>1
<1>10. Merged(base, q) = g[n]
  BY <1>1
<1>11. g \in [0..n -> S]
  <2> DEFINE T == {k \in 0..n : g[k] \in S}
  <2> HIDE DEF g
  <2>1. 0 \in T
    BY <1>9
  <2>2. \A k \in 0..(n - 1) : k \in T => k + 1 \in T
    <3> SUFFICES ASSUME NEW k \in 0..(n - 1), g[k] \in S
                 PROVE  g[k + 1] \in S
      OBVIOUS
    <3>1. k + 1 \in 1..n /\ (k + 1) - 1 = k
      OBVIOUS
    <3>2. g[k + 1] = merge_block(g[k], q[k + 1])
      BY <1>9, <3>1
    <3> QED BY <3>1, <3>2
  <2>3. 0..n \subseteq T
    <3> HIDE DEF T
    <3> QED BY <2>1, <2>2, InductionUpTo
  <2> QED BY <2>3 DEF g
<1> QED BY <1>9, <1>10, <1>11 DEF MergesTo

(* The loop that writes the blocks that come next.                           *)
LEMMA WriteSteps ==
    ASSUME NEW n \in Nat, NEW q, DOMAIN q = 1..n, NEW S, NEW base \in S,
           \A x \in S : \A i \in 1..n : WriteIfNext(x, q[i]) \in S
    PROVE  \E g \in [0..n -> S] : WritesTo(g, n, base, q)
<1> DEFINE Rec(f) == [s \in SUBSET (1..n) |->
                         IF s = {} THEN base
                         ELSE WriteIfNext(f[s \ {Max(s)}], q[Max(s)])]
           step == [i \in 1..n |-> [x \in S |-> WriteIfNext(x, q[i])]]
           iter == CHOOSE f : f = Rec(f)
           g == [k \in 0..n |-> iter[1..k]]
<1>1. WriteAll(base, q) = iter[1..n]
  BY DEF WriteAll, FoldLeft, MapThenFoldSet
<1>2. step \in [1..n -> [S -> S]]
  OBVIOUS
<1>3. PICK f \in [SUBSET (1..n) -> S] : FoldsTo(f, n, base, step)
  <2> HIDE DEF step
  <2> QED BY <1>2, FoldExists, Zenon
<1>4. \A s \in SUBSET (1..n) : s # {} => Max(s) \in s
  BY SubsetMax
<1>5. f = Rec(f)
  BY <1>3, <1>4 DEF FoldsTo
<1> HIDE DEF Rec, step
<1>6. iter = Rec(iter)
  BY <1>5
<1> HIDE DEF iter
<1>7. iter[{}] = base
  BY <1>6 DEF Rec
<1>8. ASSUME NEW k \in 1..n
      PROVE  iter[1..k] = WriteIfNext(iter[1..(k - 1)], q[k])
  <2>1. \A s \in SUBSET (1..n) : s # {} =>
           iter[s] = WriteIfNext(iter[s \ {Max(s)}], q[Max(s)])
    BY <1>6 DEF Rec
  <2>2. /\ 1..k \in SUBSET (1..n) /\ 1..k # {}
        /\ Max(1..k) = k /\ (1..k) \ {k} = 1..(k - 1)
    BY UpTo
  <2> QED BY <2>1, <2>2
<1>9. /\ g[0] = base
      /\ \A k \in 1..n : g[k] = WriteIfNext(g[k - 1], q[k])
  <2>1. 1..0 = {}
    OBVIOUS
  <2> QED BY <1>7, <1>8, <2>1
<1>10. WriteAll(base, q) = g[n]
  BY <1>1
<1>11. g \in [0..n -> S]
  <2> DEFINE T == {k \in 0..n : g[k] \in S}
  <2> HIDE DEF g
  <2>1. 0 \in T
    BY <1>9
  <2>2. \A k \in 0..(n - 1) : k \in T => k + 1 \in T
    <3> SUFFICES ASSUME NEW k \in 0..(n - 1), g[k] \in S
                 PROVE  g[k + 1] \in S
      OBVIOUS
    <3>1. k + 1 \in 1..n /\ (k + 1) - 1 = k
      OBVIOUS
    <3>2. g[k + 1] = WriteIfNext(g[k], q[k + 1])
      BY <1>9, <3>1
    <3> QED BY <3>1, <3>2
  <2>3. 0..n \subseteq T
    <3> HIDE DEF T
    <3> QED BY <2>1, <2>2, InductionUpTo
  <2> QED BY <2>3 DEF g
<1> QED BY <1>9, <1>10, <1>11 DEF WritesTo

---------------------------------------------------------------------------
(* Blocks that begin at different places can be put in order: each has as    *)
(* many blocks before it as its place says.                                  *)
Below(b, B) == {c \in B : c.begin < b.begin}
Apart(B)    == \A b, c \in B : b.begin = c.begin => b = c

LEMMA InOrderIs ==
    ASSUME NEW B, IsFiniteSet(B), \A b \in B : b.begin \in Nat, Apart(B)
    PROVE  /\ Cardinality(B) \in Nat
           /\ InOrder(B) \in [1..Cardinality(B) -> B]
           /\ \A b \in B : \E k \in 1..Cardinality(B) : InOrder(B)[k] = b
           /\ \A j, k \in 1..Cardinality(B) :
                 j < k => InOrder(B)[j].begin < InOrder(B)[k].begin
<1> DEFINE n == Cardinality(B)
           q == InOrder(B)
           rank == [b \in B |-> Cardinality(Below(b, B)) + 1]
<1>1. n \in Nat
  BY FS_CardinalityType
<1>2. ASSUME NEW b \in B
      PROVE  /\ IsFiniteSet(Below(b, B))
             /\ Cardinality(Below(b, B)) \in 0..(n - 1)
  <2>1. Below(b, B) \in SUBSET (B \ {b})
    BY DEF Below
  <2>2. IsFiniteSet(B \ {b}) /\ Cardinality(B \ {b}) = n - 1
    BY FS_RemoveElement
  <2>3. IsFiniteSet(Below(b, B)) /\ Cardinality(Below(b, B)) <= n - 1
    BY <2>1, <2>2, FS_Subset
  <2>4. Cardinality(Below(b, B)) \in Nat
    BY <2>3, FS_CardinalityType
  <2> QED BY <1>1, <2>3, <2>4
<1>3. ASSUME NEW b \in B, NEW c \in B, b.begin < c.begin
      PROVE  Cardinality(Below(b, B)) < Cardinality(Below(c, B))
  <2>1. Below(b, B) \cup {b} \in SUBSET Below(c, B) /\ b \notin Below(b, B)
    BY <1>3 DEF Below
  <2>2. Cardinality(Below(b, B) \cup {b}) = Cardinality(Below(b, B)) + 1
    BY <1>2, <2>1, FS_AddElement
  <2>3. Cardinality(Below(b, B) \cup {b}) <= Cardinality(Below(c, B))
    BY <1>2, <2>1, FS_Subset
  <2> QED BY <1>2, <2>2, <2>3
<1>4. rank \in [B -> 1..n]
  BY <1>1, <1>2
<1>5. \A b, c \in B : b.begin < c.begin => rank[b] < rank[c]
  BY <1>2, <1>3
<1>6. \A b, c \in B : rank[b] = rank[c] => b = c
  <2> SUFFICES ASSUME NEW b \in B, NEW c \in B, rank[b] = rank[c] PROVE b = c
    OBVIOUS
  <2>1. rank[b] \in 1..n
    BY <1>4
  <2>2. ~(b.begin < c.begin) /\ ~(c.begin < b.begin)
    BY <1>5, <2>1
  <2> QED BY <2>2 DEF Apart
<1>7. \A k \in 1..n : \E b \in B : rank[b] = k
  <2> HIDE DEF rank
  <2>1. rank \in Injection(B, 1..n)
    BY <1>4, <1>6 DEF Injection, IsInjective
  <2>2. IsFiniteSet(1..n) /\ Cardinality(1..n) = n
    BY <1>1, FS_Interval
  <2>3. rank \in Surjection(B, 1..n)
    BY <2>1, <2>2, FS_Injection
  <2> QED BY <2>3 DEF Surjection
<1>8. ASSUME NEW k \in 1..n PROVE q[k] \in B /\ rank[q[k]] = k
  <2>1. PICK b \in B : rank[b] = k
    BY <1>7
  <2>2. Cardinality(Below(b, B)) = k - 1
    BY <1>2, <2>1
  <2>3. q[k] = CHOOSE c \in B : Cardinality(Below(c, B)) = k - 1
    BY DEF InOrder, Below
  <2>4. q[k] \in B /\ Cardinality(Below(q[k], B)) = k - 1
    BY <2>2, <2>3
  <2> QED BY <2>4
<1>9. q = [k \in 1..n |-> CHOOSE c \in B :
               Cardinality({d \in B : d.begin < c.begin}) = k - 1]
  BY DEF InOrder
<1> HIDE DEF q, rank
<1>10. q \in [1..n -> B]
  BY <1>8, <1>9
<1>11. \A b \in B : \E k \in 1..n : q[k] = b
  BY <1>4, <1>6, <1>8
<1>12. ASSUME NEW j \in 1..n, NEW k \in 1..n, j < k
       PROVE  q[j].begin < q[k].begin
  <2>1. rank[q[j]] = j /\ rank[q[k]] = k /\ q[j] \in B /\ q[k] \in B
    BY <1>8
  <2>2. ~(q[k].begin < q[j].begin)
    BY <1>5, <1>12, <2>1
  <2>3. q[j].begin # q[k].begin
    BY <1>12, <2>1 DEF Apart
  <2> QED BY <2>1, <2>2, <2>3
<1> QED BY <1>1, <1>10, <1>11, <1>12 DEF q

---------------------------------------------------------------------------
(* Pieces of the stream, in which the byte at index i is i.                  *)
LEMMA BytesFacts ==
    ASSUME NEW i \in Nat, NEW n \in Nat
    PROVE  /\ Bytes(i, n) \in Seq(Nat) /\ Len(Bytes(i, n)) = n
           /\ DOMAIN Bytes(i, n) = 1..n
           /\ \A k \in 1..n : Bytes(i, n)[k] = i + k - 1
<1>1. \A k \in 1..n : i + k - 1 \in Nat
  OBVIOUS
<1>2. Bytes(i, n) \in [1..n -> Nat]
  BY <1>1 DEF Bytes
<1>3. Bytes(i, n) \in Seq(Nat)
  BY <1>2, IsASeq
<1>4. DOMAIN Bytes(i, n) = 1..n
  BY DEF Bytes
<1>5. Len(Bytes(i, n)) = n
  BY <1>3, <1>4, LenProperties
<1> QED BY <1>3, <1>4, <1>5 DEF Bytes

(* A part of a piece is a piece: this is what clipping keeps.                *)
IsPart(i, n, l, m) == SubSeq(Bytes(i, n), l + 1, m) = Bytes(i + l, m - l)

LEMMA PartOfBytes ==
    ASSUME NEW i \in Nat, NEW n \in Nat, NEW l \in Nat, NEW m \in l..n
    PROVE  IsPart(i, n, l, m)
<1> DEFINE s == Bytes(i, n)
           p == SubSeq(s, l + 1, m)
           t == Bytes(i + l, m - l)
<1>1. s \in Seq(Nat) /\ Len(s) = n /\ \A k \in 1..n : s[k] = i + k - 1
  BY BytesFacts
<1>2. /\ m - l \in Nat /\ i + l \in Nat /\ l + 1 \in 1..(n + 1)
      /\ m \in l..n
  OBVIOUS
<1>3. /\ t \in Seq(Nat) /\ Len(t) = m - l
      /\ \A k \in 1..(m - l) : t[k] = (i + l) + k - 1
  BY <1>2, BytesFacts
<1> HIDE DEF s, t
<1>4. /\ p \in Seq(Nat) /\ Len(p) = m - l
      /\ \A k \in 1..(m - l) : p[k] = s[l + k]
  <2>1. CASE m = l
    BY <1>1, <1>2, <2>1, SubSeqProperties
  <2>2. CASE m > l
    BY <1>1, <1>2, <2>2, SubSeqProperties
  <2> QED BY <2>1, <2>2
<1> HIDE DEF p
<1>5. \A k \in 1..(m - l) : p[k] = t[k]
  <2> SUFFICES ASSUME NEW k \in 1..(m - l) PROVE p[k] = t[k]
    OBVIOUS
  <2>1. l + k \in 1..n
    OBVIOUS
  <2> QED BY <1>1, <1>3, <1>4, <2>1
<1>6. p = t
  BY <1>3, <1>4, <1>5, SeqEqual
<1> QED BY <1>6 DEF p, s, t, IsPart

(* Two pieces with no gap are one: this is what merging and pushing make.    *)
LEMMA BytesJoined ==
    ASSUME NEW i \in Nat, NEW m \in Nat, NEW n \in Nat
    PROVE  Bytes(i, m) \o Bytes(i + m, n) = Bytes(i, m + n)
<1> DEFINE s == Bytes(i, m)
           t == Bytes(i + m, n)
           u == Bytes(i, m + n)
<1>1. /\ s \in Seq(Nat) /\ Len(s) = m /\ \A k \in 1..m : s[k] = i + k - 1
      /\ t \in Seq(Nat) /\ Len(t) = n /\ \A k \in 1..n : t[k] = (i + m) + k - 1
      /\ u \in Seq(Nat) /\ Len(u) = m + n
      /\ \A k \in 1..(m + n) : u[k] = i + k - 1
  <2>1. i + m \in Nat /\ m + n \in Nat
    OBVIOUS
  <2> QED BY <2>1, BytesFacts
<1> HIDE DEF s, t, u
<1>2. /\ s \o t \in Seq(Nat) /\ Len(s \o t) = m + n
      /\ \A k \in 1..(m + n) : (s \o t)[k] = IF k <= m THEN s[k] ELSE t[k - m]
  <2>1. /\ s \o t \in Seq(Nat) /\ Len(s \o t) = Len(s) + Len(t)
        /\ \A k \in 1 .. Len(s) + Len(t) :
              (s \o t)[k] = IF k <= Len(s) THEN s[k] ELSE t[k - Len(s)]
    BY <1>1, ConcatProperties
  <2> QED BY <1>1, <2>1
<1>3. \A k \in 1..(m + n) : (s \o t)[k] = u[k]
  <2> SUFFICES ASSUME NEW k \in 1..(m + n) PROVE (s \o t)[k] = u[k]
    OBVIOUS
  <2>1. CASE k <= m
    <3>1. k \in 1..m
      BY <2>1
    <3> QED BY <1>1, <1>2, <2>1, <3>1
  <2>2. CASE ~(k <= m)
    <3>1. k - m \in 1..n /\ (i + m) + (k - m) - 1 = i + k - 1
      BY <2>2
    <3>2. (s \o t)[k] = t[k - m]
      BY <1>2, <2>2
    <3> QED BY <1>1, <3>1, <3>2
  <2> QED BY <2>1, <2>2
<1>4. s \o t = u
  BY <1>1, <1>2, <1>3, SeqEqual
<1> QED BY <1>4 DEF s, t, u

(* Blocks of a stream whose last number is before last.                      *)
Pieces(last) ==
    {b \in [begin : Nat, data : Seq(Nat), islast : BOOLEAN] :
        b.data = Bytes(b.begin, Len(b.data)) /\ End(b) <= last}

(* What is known of such a block, and how to show that something is one.     *)
LEMMA PieceFacts ==
    ASSUME NEW last \in Nat, NEW b \in Pieces(last)
    PROVE  /\ b.begin \in Nat /\ b.data \in Seq(Nat) /\ b.islast \in BOOLEAN
           /\ Len(b.data) \in Nat /\ End(b) \in Nat
           /\ End(b) = b.begin + Len(b.data)
           /\ b.begin <= End(b) /\ End(b) <= last
           /\ b.data = Bytes(b.begin, Len(b.data))
           /\ b.data = <<>> <=> b.begin = End(b)
           /\ b = Block(b.begin, b.data, b.islast)
<1>1. /\ b.begin \in Nat /\ b.data \in Seq(Nat) /\ b.islast \in BOOLEAN
      /\ b.data = Bytes(b.begin, Len(b.data)) /\ End(b) <= last
  BY DEF Pieces
<1>2. Len(b.data) \in Nat
  BY <1>1, LenProperties
<1>3. b.data = <<>> <=> Len(b.data) = 0
  BY <1>1, EmptySeq
<1>4. b = Block(b.begin, b.data, b.islast)
  BY DEF Pieces, Block
<1> QED BY <1>1, <1>2, <1>3, <1>4 DEF End

LEMMA MakePiece ==
    ASSUME NEW last \in Nat, NEW i \in Nat, NEW n \in Nat, i + n <= last,
           NEW mark \in BOOLEAN
    PROVE  /\ Block(i, Bytes(i, n), mark) \in Pieces(last)
           /\ End(Block(i, Bytes(i, n), mark)) = i + n
           /\ Block(i, Bytes(i, n), mark).begin = i
           /\ Block(i, Bytes(i, n), mark).islast = mark
BY BytesFacts DEF Pieces, Block, End

(* Two pieces with no gap between them are merged into one.                  *)
LEMMA MergeIs ==
    ASSUME NEW last \in Nat, NEW b1 \in Pieces(last), NEW b2 \in Pieces(last),
           b1.begin <= End(b2), b2.begin <= End(b1)
    PROVE  LET m == merge_block(b1, b2)
           IN  /\ m \in Pieces(last)
               /\ m.begin = Smaller(b1.begin, b2.begin)
               /\ End(m) = Larger(End(b1), End(b2))
               /\ m.islast <=> b1.islast \/ b2.islast
<1> DEFINE mark == EndMark(b1, b2)
           i1 == b1.begin
           j1 == End(b1)
           i2 == b2.begin
           j2 == End(b2)
           m  == merge_block(b1, b2)
<1>1. /\ i1 \in Nat /\ j1 \in Nat /\ i1 <= j1 /\ j1 <= last
      /\ Len(b1.data) = j1 - i1 /\ b1.data = Bytes(i1, j1 - i1)
  BY PieceFacts
<1>2. /\ i2 \in Nat /\ j2 \in Nat /\ i2 <= j2 /\ j2 <= last
      /\ Len(b2.data) = j2 - i2 /\ b2.data = Bytes(i2, j2 - i2)
  BY PieceFacts
<1>3. mark \in BOOLEAN /\ (mark <=> b1.islast \/ b2.islast)
  BY PieceFacts DEF EndMark
<1>4. Covers(b1, b2) <=> i1 <= i2 /\ j1 >= j2
  BY DEF Covers
<1>5. Covers(b2, b1) <=> i2 <= i1 /\ j2 >= j1
  BY DEF Covers
<1>11. i1 <= j2 /\ i2 <= j1
  OBVIOUS
<1> HIDE DEF i1, j1, i2, j2, mark
<1> DEFINE Joined(i, j) == Block(i, Bytes(i, j - i), mark)
<1>6. \A i, j \in Nat : i <= j /\ j <= last =>
         /\ Joined(i, j) \in Pieces(last) /\ Joined(i, j).begin = i
         /\ End(Joined(i, j)) = j /\ Joined(i, j).islast = mark
  <2> SUFFICES ASSUME NEW i \in Nat, NEW j \in Nat, i <= j, j <= last
               PROVE  /\ Joined(i, j) \in Pieces(last)
                      /\ Joined(i, j).begin = i
                      /\ End(Joined(i, j)) = j /\ Joined(i, j).islast = mark
    OBVIOUS
  <2>1. j - i \in Nat /\ i + (j - i) = j
    OBVIOUS
  <2> HIDE DEF mark
  <2> QED BY <1>3, <2>1, MakePiece
<1>7. m = Joined(Smaller(i1, i2), Larger(j1, j2))
  <2>1. CASE Covers(b1, b2)
    <3>1. m = Block(i1, b1.data, mark)
      BY <2>1 DEF merge_block, i1, mark
    <3>2. Smaller(i1, i2) = i1 /\ Larger(j1, j2) = j1
      BY <1>1, <1>2, <1>4, <2>1 DEF Smaller, Larger
    <3> QED BY <1>1, <3>1, <3>2
  <2>2. CASE ~Covers(b1, b2) /\ Covers(b2, b1)
    <3>1. m = Block(i2, b2.data, mark)
      BY <2>2 DEF merge_block, i2, mark
    <3>2. Smaller(i1, i2) = i2 /\ Larger(j1, j2) = j2
      BY <1>1, <1>2, <1>5, <2>2 DEF Smaller, Larger
    <3> QED BY <1>2, <3>1, <3>2
  <2>3. CASE ~Covers(b1, b2) /\ ~Covers(b2, b1) /\ i2 <= i1
    <3>1. i2 < i1 /\ j2 < j1 /\ i1 <= j2
      BY <1>1, <1>2, <1>4, <1>5, <1>11, <2>3
    <3>2. m = Block(i2, b2.data \o SubSeq(b1.data, j2 - i1 + 1, Len(b1.data)),
                    mark)
      BY <2>3 DEF merge_block, i1, i2, j1, j2, mark
    <3>3. SubSeq(b1.data, (j2 - i1) + 1, j1 - i1)
             = Bytes(i1 + (j2 - i1), (j1 - i1) - (j2 - i1))
      <4> DEFINE len == j1 - i1
                 cut == j2 - i1
      <4>1. len \in Nat /\ cut \in Nat /\ len \in cut..len
        BY <1>1, <1>2, <3>1
      <4>2. i1 \in Nat /\ b1.data = Bytes(i1, len)
            /\ Len(b1.data) = len
        BY <1>1
      <4> HIDE DEF len, cut
      <4>3. IsPart(i1, len, cut, len)
        BY <4>1, <4>2, PartOfBytes
      <4> QED BY <4>2, <4>3 DEF IsPart, len, cut
    <3>4. /\ i1 + (j2 - i1) = i2 + (j2 - i2)
          /\ (j1 - i1) - (j2 - i1) = j1 - j2
          /\ (j2 - i2) + (j1 - j2) = j1 - i2
          /\ j2 - i2 \in Nat /\ j1 - j2 \in Nat
      BY <1>1, <1>2, <3>1
    <3>5. Bytes(i2, j2 - i2) \o Bytes(i2 + (j2 - i2), j1 - j2)
             = Bytes(i2, (j2 - i2) + (j1 - j2))
      BY <1>2, <3>4, BytesJoined, Zenon
    <3>6. Smaller(i1, i2) = i2 /\ Larger(j1, j2) = j1
      BY <1>1, <1>2, <3>1 DEF Smaller, Larger
    <3> QED BY <1>1, <1>2, <3>2, <3>3, <3>4, <3>5, <3>6
  <2>4. CASE ~Covers(b1, b2) /\ ~Covers(b2, b1) /\ ~(i2 <= i1)
    <3>1. i1 < i2 /\ j1 < j2 /\ i2 <= j1
      BY <1>1, <1>2, <1>4, <1>5, <1>11, <2>4
    <3>2. m = Block(i1, b1.data \o SubSeq(b2.data, j1 - i2 + 1, Len(b2.data)),
                    mark)
      BY <2>4 DEF merge_block, i1, i2, j1, j2, mark
    <3>3. SubSeq(b2.data, (j1 - i2) + 1, j2 - i2)
             = Bytes(i2 + (j1 - i2), (j2 - i2) - (j1 - i2))
      <4> DEFINE len == j2 - i2
                 cut == j1 - i2
      <4>1. len \in Nat /\ cut \in Nat /\ len \in cut..len
        BY <1>1, <1>2, <3>1
      <4>2. i2 \in Nat /\ b2.data = Bytes(i2, len)
            /\ Len(b2.data) = len
        BY <1>2
      <4> HIDE DEF len, cut
      <4>3. IsPart(i2, len, cut, len)
        BY <4>1, <4>2, PartOfBytes
      <4> QED BY <4>2, <4>3 DEF IsPart, len, cut
    <3>4. /\ i2 + (j1 - i2) = i1 + (j1 - i1)
          /\ (j2 - i2) - (j1 - i2) = j2 - j1
          /\ (j1 - i1) + (j2 - j1) = j2 - i1
          /\ j1 - i1 \in Nat /\ j2 - j1 \in Nat
      BY <1>1, <1>2, <3>1
    <3>5. Bytes(i1, j1 - i1) \o Bytes(i1 + (j1 - i1), j2 - j1)
             = Bytes(i1, (j1 - i1) + (j2 - j1))
      BY <1>1, <3>4, BytesJoined, Zenon
    <3>6. Smaller(i1, i2) = i1 /\ Larger(j1, j2) = j2
      BY <1>1, <1>2, <3>1 DEF Smaller, Larger
    <3> QED BY <1>1, <1>2, <3>2, <3>3, <3>4, <3>5, <3>6
  <2> QED BY <2>1, <2>2, <2>3, <2>4
<1>8. /\ Smaller(i1, i2) \in Nat /\ Larger(j1, j2) \in Nat
      /\ Smaller(i1, i2) <= Larger(j1, j2) /\ Larger(j1, j2) <= last
  BY <1>1, <1>2 DEF Smaller, Larger
<1> HIDE DEF Joined
<1> QED BY <1>3, <1>6, <1>7, <1>8 DEF i1, i2, j1, j2

---------------------------------------------------------------------------
(* Reassembler and stream between two steps: the bytes before byte_ready_    *)
(* are in the stream or read, those behind it that are held lie in separate  *)
(* blocks within the window, and byte_pend_ counts them.  The first byte of  *)
(* the stream has number start, the first number behind it is last.          *)
Streams == [capacity : Nat, queue : Seq(Nat), popped : Nat,
            closed : BOOLEAN, error : BOOLEAN]

StreamOf(r, s, start, last) ==
    /\ s \in Streams /\ Len(s.queue) <= s.capacity
    /\ s.queue = Bytes(start + s.popped, Len(s.queue))
    /\ r.byte_ready_ = start + BytesPushed(s)
    /\ r.byte_ready_ <= last

Separate(B) == \A b, c \in B : b # c => End(b) <= c.begin \/ End(c) <= b.begin

BlocksOf(r, edge) ==
    /\ IsFiniteSet(r.Blocks_) /\ Apart(r.Blocks_) /\ Separate(r.Blocks_)
    /\ \A b \in r.Blocks_ : /\ r.byte_ready_ <= b.begin /\ End(b) <= edge
                            /\ b.data = <<>> => b.islast

Members(last) == [Blocks_ : SUBSET Pieces(last), byte_ready_ : Nat,
                  byte_pend_ : Int]

Holding(r, s, start, last) ==
    /\ r \in Members(last)
    /\ StreamOf(r, s, start, last)
    /\ BlocksOf(r, Edge(r, s))
    /\ r.byte_pend_ = Cardinality(Stored(r))

(* Nothing that could be written is held back.                               *)
Written(r, s) == s.closed \/ \A b \in r.Blocks_ : r.byte_ready_ < b.begin

(* Where the window begins and ends.                                         *)
LEMMA HoldingFacts ==
    ASSUME NEW start \in Nat, NEW last \in Nat, NEW r, NEW s,
           StreamOf(r, s, start, last)
    PROVE  /\ r.byte_ready_ \in Nat /\ Edge(r, s) \in Nat
           /\ r.byte_ready_ <= Edge(r, s)
           /\ Len(s.queue) \in Nat /\ s.queue \in Seq(Nat)
           /\ s.capacity \in Nat /\ s.popped \in Nat /\ s.closed \in BOOLEAN
           /\ AvailableCapacity(s) \in Nat
           /\ AvailableCapacity(s) = s.capacity - Len(s.queue)
           /\ r.byte_ready_ = start + s.popped + Len(s.queue)
           /\ Edge(r, s) = start + s.popped + s.capacity
<1>1. /\ s.queue \in Seq(Nat) /\ s.capacity \in Nat /\ s.popped \in Nat
      /\ s.closed \in BOOLEAN /\ Len(s.queue) <= s.capacity
      /\ r.byte_ready_ = start + (s.popped + Len(s.queue))
  BY DEF StreamOf, Streams, BytesPushed
<1>2. Len(s.queue) \in Nat
  BY <1>1, LenProperties
<1> DEFINE len == Len(s.queue)
           cap == s.capacity
           out == s.popped
           nxt == r.byte_ready_
           edge == Edge(r, s)
           room == AvailableCapacity(s)
<1>3. edge = nxt + room /\ room = cap - len
  BY DEF Edge, AvailableCapacity
<1> HIDE DEF len, cap, out, nxt, edge, room
<1>4. /\ len \in Nat /\ cap \in Nat /\ out \in Nat /\ len <= cap
      /\ nxt = start + (out + len)
  BY <1>1, <1>2 DEF len, cap, out, nxt
<1>5. /\ nxt \in Nat /\ edge \in Nat /\ nxt <= edge /\ room \in Nat
      /\ nxt = start + out + len /\ edge = start + out + cap
  BY <1>3, <1>4
<1> QED BY <1>1, <1>3, <1>4, <1>5 DEF len, cap, out, nxt, edge, room

(* Clipping keeps the part of a substring that lies within the window.       *)
LEMMA ClippedIs ==
    ASSUME NEW start \in Nat, NEW last \in Nat, NEW r, NEW s,
           StreamOf(r, s, start, last),
           NEW first \in Nat, NEW n \in Nat, first + n <= last,
           NEW mark \in BOOLEAN,
           first < Edge(r, s), first + n >= r.byte_ready_
    PROVE  LET now == Clipped(r, s, first, Bytes(first, n), mark)
           IN  /\ now \in Pieces(last)
               /\ now.begin = Larger(first, r.byte_ready_)
               /\ End(now) = Smaller(first + n, Edge(r, s))
               /\ now.islast = mark
<1> DEFINE from == Larger(first, r.byte_ready_)
           to   == Smaller(first + n, Edge(r, s))
           now  == Clipped(r, s, first, Bytes(first, n), mark)
<1>1. /\ r.byte_ready_ \in Nat /\ Edge(r, s) \in Nat
      /\ r.byte_ready_ <= Edge(r, s)
  BY HoldingFacts
<1>2. /\ from \in Nat /\ to \in Nat /\ first <= from /\ from <= to
      /\ to <= first + n
  BY <1>1 DEF Smaller, Larger
<1>3. Len(Bytes(first, n)) = n
  BY BytesFacts
<1>4. now = Block(from,
                  WithoutFirst(SubSeq(Bytes(first, n), 1, to - first),
                               from - first), mark)
  BY <1>3 DEF Clipped, ClippedEnd
<1> HIDE DEF from, to, now
<1>5. SubSeq(Bytes(first, n), 1, to - first) = Bytes(first, to - first)
  <2> DEFINE len == to - first
  <2>1. len \in 0..n /\ 0 \in Nat
    BY <1>2
  <2> HIDE DEF len
  <2>2. IsPart(first, n, 0, len)
    BY <2>1, PartOfBytes
  <2>3. 0 + 1 = 1 /\ first + 0 = first /\ len - 0 = len
    BY <2>1
  <2>4. SubSeq(Bytes(first, n), 1, len) = Bytes(first, len)
    BY <2>2, <2>3 DEF IsPart
  <2> QED BY <2>4 DEF len
<1>6. WithoutFirst(Bytes(first, to - first), from - first)
         = Bytes(from, to - from)
  <2> DEFINE len == to - first
             cut == from - first
  <2>1. /\ len \in Nat /\ cut \in Nat /\ len \in cut..len
        /\ first + cut = from /\ len - cut = to - from
    BY <1>2
  <2> HIDE DEF len, cut
  <2>2. Len(Bytes(first, len)) = len
    BY <2>1, BytesFacts
  <2>3. IsPart(first, len, cut, len)
    BY <2>1, PartOfBytes
  <2>4. WithoutFirst(Bytes(first, len), cut) = Bytes(from, to - from)
    BY <2>1, <2>2, <2>3 DEF WithoutFirst, IsPart
  <2> QED BY <2>4 DEF len, cut
<1>7. now = Block(from, Bytes(from, to - from), mark)
  BY <1>4, <1>5, <1>6
<1>8. to - from \in Nat /\ from + (to - from) = to /\ to <= last
  BY <1>2
<1>9. /\ now \in Pieces(last) /\ now.begin = from /\ End(now) = to
      /\ now.islast = mark
  BY <1>2, <1>7, <1>8, MakePiece
<1> QED BY <1>9 DEF now, from, to

---------------------------------------------------------------------------
(* The blocks that insert() merges with the new one: exactly those it        *)
(* overlaps or, on the right of the nearest on the left, touches.            *)
Absorbed(r, now) ==
    LET left == {b \in r.Blocks_ : b.begin < now.begin}
    IN  {b \in left : /\ \A c \in left : c.begin <= b.begin
                      /\ ReachesPast(b, now)}
        \cup {b \in r.Blocks_ : now.begin <= b.begin /\ b.begin < End(now)}

LEMMA AbsorbedIs ==
    ASSUME NEW last \in Nat, NEW edge \in Nat, NEW r \in Members(last),
           BlocksOf(r, edge), NEW now \in Pieces(last)
    PROVE  /\ Overlapping(r, now) = InOrder(Absorbed(r, now))
           /\ Absorbed(r, now) \in SUBSET r.Blocks_
           /\ \A a \in Absorbed(r, now) :
                 /\ a.begin < End(now) \/ a.begin < now.begin
                 /\ now.begin <= End(a)
           /\ \A b \in r.Blocks_ \ Absorbed(r, now) :
                 \/ End(b) <= now.begin /\ b.begin < now.begin
                 \/ End(now) <= b.begin
<1> DEFINE left == {b \in r.Blocks_ : b.begin < now.begin}
           A    == Absorbed(r, now)
<1>1. Overlapping(r, now) = InOrder(A)
  BY DEF Overlapping, Absorbed
<1>2. A \in SUBSET r.Blocks_
  BY DEF Absorbed
<1>3. now.begin \in Nat /\ End(now) \in Nat /\ now.begin <= End(now)
  BY PieceFacts
<1>4. \A b \in r.Blocks_ : /\ b.begin \in Nat /\ End(b) \in Nat
                           /\ b.begin <= End(b)
  BY PieceFacts DEF Members
<1>5. ASSUME NEW a \in A
      PROVE  (a.begin < End(now) \/ a.begin < now.begin) /\ now.begin <= End(a)
  <2>1. CASE a.begin < now.begin /\ End(a) > now.begin
    BY <1>2, <1>3, <1>4, <2>1
  <2>2. CASE now.begin <= a.begin /\ a.begin < End(now)
    BY <1>2, <1>3, <1>4, <2>2
  <2> QED BY <2>1, <2>2 DEF Absorbed, ReachesPast
<1>6. ASSUME NEW b \in r.Blocks_ \ A
      PROVE  \/ End(b) <= now.begin /\ b.begin < now.begin
             \/ End(now) <= b.begin
  <2>1. CASE ~(b.begin < now.begin)
    BY <1>3, <1>4, <1>6, <2>1 DEF Absorbed
  <2>2. CASE b.begin < now.begin /\ ~(End(b) > now.begin)
    BY <1>3, <1>4, <2>2
  <2>3. CASE b.begin < now.begin /\ End(b) > now.begin
    <3>1. PICK c \in left : ~(c.begin <= b.begin)
      BY <1>6, <2>3 DEF Absorbed, ReachesPast
    <3>2. c # b /\ (End(b) <= c.begin \/ End(c) <= b.begin)
      BY <1>4, <3>1 DEF BlocksOf, Separate
    <3> QED BY <1>3, <1>4, <2>3, <3>1, <3>2
  <2> QED BY <2>1, <2>2, <2>3
<1> QED BY <1>1, <1>2, <1>5, <1>6

(* What the merged block is: it reaches from the first to the last number of *)
(* the new block and those absorbed, and has the end mark of any of them.    *)
Spans(m, now, A) ==
    /\ m.begin <= now.begin /\ End(now) <= End(m)
    /\ \A a \in A : m.begin <= a.begin /\ End(a) <= End(m)
    /\ m.begin = now.begin \/ \E a \in A : m.begin = a.begin
    /\ End(m) = End(now) \/ \E a \in A : End(m) = End(a)
    /\ m.islast <=> now.islast \/ \E a \in A : a.islast

LEMMA MergedIs ==
    ASSUME NEW last \in Nat, NEW now \in Pieces(last),
           NEW n \in Nat, NEW q \in [1..n -> Pieces(last)],
           \A i \in 1..n : q[i].begin <= End(now) /\ now.begin <= End(q[i])
    PROVE  /\ Merged(now, q) \in Pieces(last)
           /\ Spans(Merged(now, q), now, {q[i] : i \in 1..n})
<1> DEFINE S == {x \in Pieces(last) :
                    x.begin <= now.begin /\ End(now) <= End(x)}
<1>1. /\ now.begin \in Nat /\ End(now) \in Nat /\ now.begin <= End(now)
      /\ \A x \in Pieces(last) : /\ x.begin \in Nat /\ End(x) \in Nat
                                 /\ x.begin <= End(x)
  BY PieceFacts
<1>2. ASSUME NEW x \in S, NEW i \in 1..n
      PROVE  /\ merge_block(x, q[i]) \in S
             /\ merge_block(x, q[i]).begin = Smaller(x.begin, q[i].begin)
             /\ End(merge_block(x, q[i])) = Larger(End(x), End(q[i]))
             /\ merge_block(x, q[i]).islast <=> x.islast \/ q[i].islast
  <2> DEFINE y == merge_block(x, q[i])
  <2>1. /\ x.begin <= End(q[i]) /\ q[i].begin <= End(x)
        /\ q[i] \in Pieces(last)
    BY <1>1
  <2>2. /\ y \in Pieces(last) /\ y.begin = Smaller(x.begin, q[i].begin)
        /\ End(y) = Larger(End(x), End(q[i]))
        /\ y.islast <=> x.islast \/ q[i].islast
    BY <2>1, MergeIs
  <2> HIDE DEF y
  <2>3. y.begin <= x.begin /\ End(x) <= End(y)
    BY <1>1, <2>1, <2>2 DEF Smaller, Larger
  <2>4. y \in S
    BY <1>1, <2>2, <2>3
  <2> QED BY <2>2, <2>4 DEF y
<1>3. now \in S
  BY <1>1
<1>4. DOMAIN q = 1..n
  OBVIOUS
<1> HIDE DEF S
<1>5. PICK g \in [0..n -> S] : MergesTo(g, n, now, q)
  <2>1. \A x \in S : \A i \in 1..n : merge_block(x, q[i]) \in S
    BY <1>2
  <2> QED BY <1>3, <1>4, <2>1, MergeSteps
<1>10. /\ Merged(now, q) = g[n] /\ g[0] = now
       /\ \A k \in 1..n : g[k] = merge_block(g[k - 1], q[k])
  BY <1>5 DEF MergesTo
<1> DEFINE Right(m, k) ==
               /\ \A i \in 1..k : m.begin <= q[i].begin /\ End(q[i]) <= End(m)
               /\ m.begin = now.begin \/ \E i \in 1..k : m.begin = q[i].begin
               /\ End(m) = End(now) \/ \E i \in 1..k : End(m) = End(q[i])
               /\ m.islast <=> now.islast \/ \E i \in 1..k : q[i].islast
           T == {k \in 0..n : Right(g[k], k)}
<1>6. 0 \in T
  <2>1. 1..0 = {} /\ 0 \in 0..n
    OBVIOUS
  <2> QED BY <1>10, <2>1
<1>7. ASSUME NEW k \in 0..(n - 1), k \in T PROVE k + 1 \in T
  <2> DEFINE x == g[k]
             y == g[k + 1]
             b == q[k + 1]
  <2>1. k + 1 \in 1..n /\ (k + 1) - 1 = k /\ k \in 0..n /\ k + 1 \in 0..n
    OBVIOUS
  <2>2. x \in S /\ Right(x, k)
    BY <1>7, <2>1
  <2>3. y = merge_block(x, b)
    BY <1>10, <2>1
  <2>4. /\ y.begin = Smaller(x.begin, b.begin)
        /\ End(y) = Larger(End(x), End(b))
        /\ y.islast <=> x.islast \/ b.islast
    <3>1. x \in S
      BY <2>2
    <3> HIDE DEF x, y, Right
    <3> QED BY <1>2, <2>1, <2>3, <3>1, Zenon
  <2>5. \A i \in 1..(k + 1) : i \in 1..k \/ i = k + 1
    BY <2>1
  <2>6. \A i \in 1..k : i \in 1..(k + 1)
    BY <2>1
  <2>7. k + 1 \in 1..(k + 1)
    BY <2>1
  <2>8. /\ x.begin \in Nat /\ End(x) \in Nat
        /\ b.begin \in Nat /\ End(b) \in Nat
        /\ \A i \in 1..k : q[i].begin \in Nat /\ End(q[i]) \in Nat
    <3>1. x \in Pieces(last)
      BY <2>2 DEF S
    <3>2. \A i \in 1..k : i \in 1..n
      BY <2>1
    <3> QED BY <1>1, <2>1, <3>1, <3>2
  <2> HIDE DEF x, y
  <2>9. \A i \in 1..k : y.begin <= q[i].begin /\ End(q[i]) <= End(y)
    BY <2>2, <2>4, <2>8 DEF Smaller, Larger
  <2>10. y.begin <= b.begin /\ End(b) <= End(y)
    BY <2>4, <2>8 DEF Smaller, Larger
  <2>11. y.begin \in {x.begin, b.begin} /\ End(y) \in {End(x), End(b)}
    BY <2>4 DEF Smaller, Larger
  <2>12. \A i \in 1..(k + 1) : y.begin <= q[i].begin /\ End(q[i]) <= End(y)
    BY <2>5, <2>9, <2>10
  <2>13. y.begin = now.begin \/ \E i \in 1..(k + 1) : y.begin = q[i].begin
    BY <2>2, <2>6, <2>7, <2>11
  <2>14. End(y) = End(now) \/ \E i \in 1..(k + 1) : End(y) = End(q[i])
    BY <2>2, <2>6, <2>7, <2>11
  <2>15. y.islast <=> now.islast \/ \E i \in 1..(k + 1) : q[i].islast
    BY <2>2, <2>4, <2>5, <2>6, <2>7
  <2> QED BY <2>1, <2>12, <2>13, <2>14, <2>15 DEF y
<1>8. n \in T
  <2> HIDE DEF T
  <2>1. 0..n \subseteq T
    BY <1>6, <1>7, InductionUpTo
  <2> QED BY <2>1
<1>9. g[n] \in S /\ Right(g[n], n)
  BY <1>8
<1> DEFINE m == g[n]
<1> HIDE DEF m
<1>11. Right(m, n) /\ m \in S /\ m = Merged(now, q)
  BY <1>9, <1>10 DEF m
<1>12. Spans(m, now, {q[i] : i \in 1..n})
  BY <1>11 DEF Spans, S
<1> QED BY <1>11, <1>12 DEF S
---------------------------------------------------------------------------
(* The numbers that a set of blocks holds; Stored(r) is NumbersOf(r.Blocks_).*)
RangeOf(b)   == b.begin .. (End(b) - 1)
NumbersOf(B) == UNION {RangeOf(b) : b \in B}

(* A block holds as many numbers as it has bytes.                            *)
LEMMA RangeFacts ==
    ASSUME NEW last \in Nat, NEW b \in Pieces(last)
    PROVE  /\ RangeOf(b) \in SUBSET Nat /\ IsFiniteSet(RangeOf(b))
           /\ Cardinality(RangeOf(b)) = Len(b.data)
<1> DEFINE i == b.begin
           j == End(b)
<1>1. i \in Nat /\ j \in Nat /\ i <= j /\ Len(b.data) = j - i
  BY PieceFacts
<1> HIDE DEF i, j
<1>2. i \in Int /\ j - 1 \in Int
  BY <1>1
<1>3. /\ IsFiniteSet(i..(j - 1))
      /\ Cardinality(i..(j - 1)) = IF i > j - 1 THEN 0 ELSE (j - 1) - i + 1
  BY <1>2, FS_Interval
<1>4. Cardinality(i..(j - 1)) = j - i /\ i..(j - 1) \in SUBSET Nat
  BY <1>1, <1>3
<1> QED BY <1>1, <1>3, <1>4 DEF RangeOf, i, j

(* Sets with nothing in common add up.                                       *)
LEMMA DisjointSum ==
    ASSUME NEW S, NEW T, IsFiniteSet(S), IsFiniteSet(T), S \cap T = {}
    PROVE  /\ IsFiniteSet(S \cup T)
           /\ Cardinality(S \cup T) = Cardinality(S) + Cardinality(T)
<1>1. Cardinality(S) \in Nat /\ Cardinality(T) \in Nat
  BY FS_CardinalityType
<1>2. Cardinality(S \cap T) = 0
  BY FS_EmptySet
<1>3. /\ IsFiniteSet(S \cup T)
      /\ Cardinality(S \cup T)
           = Cardinality(S) + Cardinality(T) - Cardinality(S \cap T)
  BY FS_Union
<1> QED BY <1>1, <1>2, <1>3

(* The lengths of separate blocks add up to the count of their numbers.      *)
LEMMA CountIs ==
    ASSUME NEW last \in Nat, NEW B \in SUBSET Pieces(last), IsFiniteSet(B),
           Apart(B), Separate(B)
    PROVE  /\ IsFiniteSet(NumbersOf(B)) /\ NumbersOf(B) \in SUBSET Nat
           /\ Cardinality(NumbersOf(B)) = PendingIn(InOrder(B))
<1> DEFINE n == Cardinality(B)
           q == InOrder(B)
<1>1. /\ \A b \in B : b \in Pieces(last)
      /\ \A b \in B : /\ b.begin \in Nat /\ End(b) \in Nat /\ b.begin <= End(b)
                      /\ Len(b.data) \in Nat
  BY PieceFacts
<1>2. /\ n \in Nat /\ q \in [1..n -> B]
      /\ \A b \in B : \E k \in 1..n : q[k] = b
      /\ \A j, k \in 1..n : j < k => q[j].begin < q[k].begin
  BY <1>1, InOrderIs
<1> HIDE DEF n, q
<1>3. DOMAIN q = 1..n /\ \A i \in 1..n : Len(q[i].data) \in Nat
  BY <1>1, <1>2
<1>10. PICK g \in [0..n -> Nat] : PendingTo(g, n, q)
  BY <1>2, <1>3, PendingSteps
<1>4. /\ PendingIn(q) = g[n] /\ g[0] = 0
      /\ \A k \in 1..n : g[k] = g[k - 1] + Len(q[k].data)
  BY <1>10 DEF PendingTo
<1> DEFINE Upto(k) == UNION {RangeOf(q[i]) : i \in 1..k}
           T == {k \in 0..n :
                    IsFiniteSet(Upto(k)) /\ Cardinality(Upto(k)) = g[k]}
<1>5. 0 \in T
  <2>1. Upto(0) = {} /\ 0 \in 0..n
    BY <1>2
  <2> QED BY <1>4, <2>1, FS_EmptySet
<1>6. ASSUME NEW k \in 0..(n - 1), k \in T PROVE k + 1 \in T
  <2>1. k + 1 \in 1..n /\ (k + 1) - 1 = k /\ k \in 0..n /\ k + 1 \in 0..n
        /\ \A i \in 1..k : i \in 1..n /\ i < k + 1
    BY <1>2
  <2> DEFINE b == q[k + 1]
             R == RangeOf(b)
  <2>2. b \in Pieces(last) /\ b \in B
    BY <1>1, <1>2, <2>1
  <2>3. IsFiniteSet(R) /\ Cardinality(R) = Len(b.data)
    BY <2>2, RangeFacts
  <2>4. Upto(k + 1) = Upto(k) \cup R
    <3>1. \A i : i \in 1..(k + 1) <=> i \in 1..k \/ i = k + 1
      BY <2>1
    <3> QED BY <3>1
  <2>5. Upto(k) \cap R = {}
    <3> SUFFICES ASSUME NEW i \in 1..k, NEW x \in RangeOf(q[i]), x \in R
                 PROVE  FALSE
      OBVIOUS
    <3>4. i \in 1..n /\ i < k + 1
      BY <2>1
    <3>5. q[i] \in B /\ q[i].begin < b.begin
      BY <1>2, <2>1, <3>4
    <3>1. q[i] \in B /\ q[i].begin < b.begin /\ q[i] # b
      BY <1>1, <2>2, <3>5
    <3>2. End(q[i]) <= b.begin \/ End(b) <= q[i].begin
      BY <2>2, <3>1 DEF Separate
    <3>3. /\ q[i].begin <= x /\ x <= End(q[i]) - 1
          /\ b.begin <= x /\ x <= End(b) - 1 /\ x \in Int
      BY <1>1, <2>2, <3>1 DEF RangeOf
    <3> QED BY <1>1, <2>2, <3>1, <3>2, <3>3
  <2>6. IsFiniteSet(Upto(k)) /\ Cardinality(Upto(k)) = g[k]
    BY <1>6
  <2>7. g[k + 1] = g[k] + Len(b.data)
    BY <1>4, <2>1
  <2> HIDE DEF R, b, Upto
  <2>8. /\ IsFiniteSet(Upto(k) \cup R)
        /\ Cardinality(Upto(k) \cup R) = Cardinality(Upto(k)) + Cardinality(R)
    BY <2>3, <2>5, <2>6, DisjointSum
  <2> QED BY <2>1, <2>3, <2>4, <2>6, <2>7, <2>8
<1>7. n \in T
  <2> HIDE DEF T
  <2>1. 0..n \subseteq T
    BY <1>2, <1>5, <1>6, InductionUpTo
  <2> QED BY <1>2, <2>1
<1>8. Upto(n) = NumbersOf(B)
  BY <1>2 DEF NumbersOf
<1>9. NumbersOf(B) \in SUBSET Nat
  BY <1>1, RangeFacts DEF NumbersOf
<1> QED BY <1>4, <1>7, <1>8, <1>9 DEF q

---------------------------------------------------------------------------
(* The merged block of an insertion, and what becomes of the others.         *)
MergedBlock(r, now) == Merged(now, Overlapping(r, now))

(* It spans the new block and those absorbed, and nothing more.              *)
LEMMA MergedSpans ==
    ASSUME NEW last \in Nat, NEW edge \in Nat, NEW r \in Members(last),
           BlocksOf(r, edge), NEW now \in Pieces(last)
    PROVE  /\ MergedBlock(r, now) \in Pieces(last)
           /\ Spans(MergedBlock(r, now), now, Absorbed(r, now))
           /\ ToSet(Overlapping(r, now)) = Absorbed(r, now)
           /\ IsFiniteSet(Absorbed(r, now)) /\ Apart(Absorbed(r, now))
           /\ Separate(Absorbed(r, now))
<1> DEFINE A == Absorbed(r, now)
           n == Cardinality(A)
           q == InOrder(A)
           m == Merged(now, q)
<1>1. /\ Overlapping(r, now) = q /\ A \in SUBSET r.Blocks_
      /\ \A a \in A : /\ a.begin < End(now) \/ a.begin < now.begin
                      /\ now.begin <= End(a)
  BY AbsorbedIs
<1>2. /\ r.Blocks_ \in SUBSET Pieces(last) /\ IsFiniteSet(r.Blocks_)
      /\ Apart(r.Blocks_) /\ Separate(r.Blocks_)
  BY DEF Members, BlocksOf
<1> HIDE DEF A
<1>3. /\ A \in SUBSET Pieces(last) /\ IsFiniteSet(A) /\ Apart(A) /\ Separate(A)
      /\ \A a \in A : a.begin \in Nat
  <2>1. IsFiniteSet(A)
    BY <1>1, <1>2, FS_Subset
  <2>2. Apart(A) /\ Separate(A)
    BY <1>1, <1>2 DEF Apart, Separate
  <2>3. \A a \in A : a \in Pieces(last)
    BY <1>1, <1>2
  <2> QED BY <2>1, <2>2, <2>3, PieceFacts
<1>4. /\ n \in Nat /\ q \in [1..n -> A]
      /\ \A a \in A : \E k \in 1..n : q[k] = a
  BY <1>3, InOrderIs
<1> HIDE DEF q, n
<1>5. q \in [1..n -> Pieces(last)]
  BY <1>3, <1>4
<1>6. \A i \in 1..n : q[i].begin <= End(now) /\ now.begin <= End(q[i])
  <2> SUFFICES ASSUME NEW i \in 1..n
               PROVE  q[i].begin <= End(now) /\ now.begin <= End(q[i])
    OBVIOUS
  <2>1. q[i] \in A /\ q[i] \in Pieces(last)
    BY <1>4, <1>5
  <2>2. /\ q[i].begin \in Nat /\ now.begin \in Nat
        /\ now.begin <= End(now) /\ End(now) \in Nat
    BY <2>1, PieceFacts
  <2> QED BY <1>1, <2>1, <2>2
<1>7. m \in Pieces(last) /\ Spans(m, now, {q[i] : i \in 1..n})
  BY <1>4, <1>5, <1>6, MergedIs
<1> HIDE DEF m
<1>8. Spans(m, now, A)
  <2>1. {q[i] : i \in 1..n} = A
    BY <1>4
  <2> QED BY <1>7, <2>1
<1>9. ToSet(q) = A
  BY <1>4 DEF ToSet
<1>10. MergedBlock(r, now) = m
  BY <1>1 DEF MergedBlock, m
<1> QED BY <1>1, <1>3, <1>7, <1>8, <1>9, <1>10 DEF A

(* A substring that can be stored: clipped to the window, and new.           *)
Storable(r, now, edge, last) ==
    /\ now \in Pieces(last) /\ r.byte_ready_ <= now.begin /\ End(now) <= edge
    /\ now.data = <<>> => now.islast /\ End(now) = Smaller(last, edge)
    /\ \A b \in r.Blocks_ : ~SameBlock(b, now)

(* A block that is not absorbed lies apart from the merged one and does not  *)
(* begin where it begins: putting the merged block in the map loses none.    *)
LEMMA RestStays ==
    ASSUME NEW last \in Nat, NEW edge \in Nat, NEW r \in Members(last),
           BlocksOf(r, edge), NEW now, Storable(r, now, edge, last),
           NEW b \in r.Blocks_ \ Absorbed(r, now)
    PROVE  LET m == MergedBlock(r, now)
           IN  /\ b.begin # m.begin
               /\ End(b) <= m.begin \/ End(m) <= b.begin
<1> DEFINE A == Absorbed(r, now)
           m == MergedBlock(r, now)
<1>1. /\ now \in Pieces(last) /\ End(now) <= edge
      /\ now.data = <<>> => now.islast /\ End(now) = Smaller(last, edge)
      /\ ~SameBlock(b, now)
  BY DEF Storable
<1>2. m \in Pieces(last) /\ Spans(m, now, A)
  BY <1>1, MergedSpans
<1>3. /\ A \in SUBSET r.Blocks_
      /\ \A a \in A : /\ a.begin < End(now) \/ a.begin < now.begin
                      /\ now.begin <= End(a)
      /\ \/ End(b) <= now.begin /\ b.begin < now.begin
         \/ End(now) <= b.begin
  BY <1>1, AbsorbedIs
<1>4. \A a \in A : /\ a \in Pieces(last) /\ a # b
                   /\ End(b) <= a.begin \/ End(a) <= b.begin
                   /\ a.begin # b.begin
  BY <1>3 DEF Members, BlocksOf, Separate, Apart
<1>5. /\ b \in Pieces(last) /\ End(b) <= edge
      /\ b.data = <<>> => b.islast
  BY DEF Members, BlocksOf
<1> HIDE DEF A, m
<1>9. m.begin \in Nat /\ End(m) \in Nat /\ m.begin <= End(m)
  BY <1>2, PieceFacts
<1>10. /\ now.begin \in Nat /\ End(now) \in Nat /\ now.begin <= End(now)
       /\ now.data = <<>> <=> now.begin = End(now)
       /\ now.islast \in BOOLEAN
  BY <1>1, PieceFacts
<1>11. /\ b.begin \in Nat /\ End(b) \in Nat /\ b.begin <= End(b)
       /\ b.data = <<>> <=> b.begin = End(b)
       /\ End(b) <= last /\ b.islast \in BOOLEAN
  BY <1>5, PieceFacts
<1>12. \A a \in A : a.begin \in Nat /\ End(a) \in Nat /\ a.begin <= End(a)
  BY <1>4, PieceFacts
<1>6. /\ m.begin \in Nat /\ End(m) \in Nat /\ m.begin <= End(m)
      /\ now.begin \in Nat /\ End(now) \in Nat /\ now.begin <= End(now)
      /\ now.data = <<>> <=> now.begin = End(now)
      /\ b.begin \in Nat /\ End(b) \in Nat /\ b.begin <= End(b)
      /\ b.data = <<>> <=> b.begin = End(b)
      /\ End(b) <= last
      /\ now.islast \in BOOLEAN /\ b.islast \in BOOLEAN
      /\ \A a \in A : a.begin \in Nat /\ End(a) \in Nat /\ a.begin <= End(a)
  BY <1>9, <1>10, <1>11, <1>12
<1>7. CASE End(b) <= now.begin /\ b.begin < now.begin
  <2>1. ASSUME m.begin = now.begin
        PROVE  b.begin # m.begin /\ End(b) <= m.begin
    BY <1>6, <1>7, <2>1
  <2>2. ASSUME NEW a \in A, m.begin = a.begin
        PROVE  b.begin # m.begin /\ End(b) <= m.begin
    BY <1>3, <1>4, <1>6, <1>7, <2>2
  <2>3. m.begin = now.begin \/ \E a \in A : m.begin = a.begin
    BY <1>2 DEF Spans
  <2>4. b.begin # m.begin /\ End(b) <= m.begin
    BY <2>1, <2>2, <2>3
  <2> QED BY <2>4 DEF m
<1>8. CASE End(now) <= b.begin
  <2>1. End(m) <= b.begin
    <3>1. CASE End(m) = End(now)
      BY <1>8, <3>1
    <3>2. ASSUME NEW a \in A, End(m) = End(a) PROVE End(m) <= b.begin
      BY <1>3, <1>4, <1>6, <1>8, <3>2
    <3> QED BY <1>2, <3>1, <3>2 DEF Spans
  <2>2. ASSUME b.begin = m.begin PROVE FALSE
    <3>1. m.begin <= now.begin
      BY <1>2 DEF Spans
    <3>2. now.begin = End(now) /\ b.begin = now.begin
      BY <1>6, <1>8, <2>2, <3>1
    <3>3. now.islast /\ End(now) = Smaller(last, edge)
      BY <1>1, <1>6, <3>2
    <3>4. End(b) <= End(now)
      BY <1>5, <1>6, <3>3 DEF Smaller
    <3>5. End(b) = b.begin /\ End(b) = End(now)
      BY <1>6, <3>2, <3>4
    <3>6. b.islast
      BY <1>5, <1>6, <3>5
    <3> QED BY <1>1, <3>2, <3>3, <3>5, <3>6 DEF SameBlock
  <2> QED BY <2>1, <2>2 DEF m
<1> QED BY <1>3, <1>7, <1>8

(* Storing a substring makes its numbers and its end mark known, and nothing *)
(* else; the blocks stay separate and counted.                               *)
Marked(r)           == \E b \in r.Blocks_ : b.islast
MarkedAtEnd(r, last) == \A b \in r.Blocks_ : b.islast => End(b) = last

Stores(x, r, now, edge, last) ==
    /\ x \in Members(last) /\ x.byte_ready_ = r.byte_ready_
    /\ BlocksOf(x, edge)
    /\ x.byte_pend_ = Cardinality(Stored(x))
    /\ Stored(x) = Stored(r) \cup RangeOf(now)
    /\ Marked(x) <=> now.islast \/ Marked(r)
    /\ MarkedAtEnd(r, last) /\ (now.islast => End(now) = last)
          => MarkedAtEnd(x, last)

(* The numbers of separate blocks, split in two.                             *)
LEMMA NumbersSplit ==
    ASSUME NEW last \in Nat, NEW B \in SUBSET Pieces(last), IsFiniteSet(B),
           Separate(B), Apart(B), NEW A \in SUBSET B
    PROVE  /\ IsFiniteSet(NumbersOf(A)) /\ IsFiniteSet(NumbersOf(B \ A))
           /\ NumbersOf(B) = NumbersOf(A) \cup NumbersOf(B \ A)
           /\ Cardinality(NumbersOf(B))
                = Cardinality(NumbersOf(A)) + Cardinality(NumbersOf(B \ A))
<1>1. /\ A \in SUBSET Pieces(last) /\ IsFiniteSet(A) /\ Separate(A) /\ Apart(A)
      /\ B \ A \in SUBSET Pieces(last) /\ IsFiniteSet(B \ A)
      /\ Separate(B \ A) /\ Apart(B \ A)
  BY FS_Subset DEF Separate, Apart
<1>2. IsFiniteSet(NumbersOf(A)) /\ IsFiniteSet(NumbersOf(B \ A))
  BY <1>1, CountIs
<1>3. NumbersOf(B) = NumbersOf(A) \cup NumbersOf(B \ A)
  BY DEF NumbersOf
<1>4. NumbersOf(A) \cap NumbersOf(B \ A) = {}
  <2> SUFFICES ASSUME NEW a \in A, NEW b \in B \ A, NEW x \in RangeOf(a),
                      x \in RangeOf(b)
               PROVE  FALSE
    BY DEF NumbersOf
  <2>1. /\ a.begin \in Nat /\ End(a) \in Nat
        /\ b.begin \in Nat /\ End(b) \in Nat
    BY PieceFacts
  <2>2. End(a) <= b.begin \/ End(b) <= a.begin
    BY DEF Separate
  <2> QED BY <2>1, <2>2 DEF RangeOf
<1> QED BY <1>2, <1>3, <1>4, DisjointSum

(* What storing does.                                                        *)
LEMMA StoreIs ==
    ASSUME NEW last \in Nat, NEW edge \in Nat, NEW r \in Members(last),
           BlocksOf(r, edge), r.byte_pend_ = Cardinality(Stored(r)),
           NEW now, Storable(r, now, edge, last)
    PROVE  Stores(Store(r, now), r, now, edge, last)
<1> DEFINE A == Absorbed(r, now)
           m == MergedBlock(r, now)
           B == r.Blocks_
           R == B \ A
           x == Store(r, now)
<1>1. /\ now \in Pieces(last) /\ r.byte_ready_ <= now.begin /\ End(now) <= edge
      /\ now.data = <<>> => now.islast
  BY DEF Storable
<1>2. /\ m \in Pieces(last) /\ Spans(m, now, A)
      /\ ToSet(Overlapping(r, now)) = A
      /\ IsFiniteSet(A) /\ Apart(A) /\ Separate(A)
  BY <1>1, MergedSpans
<1>3. /\ Overlapping(r, now) = InOrder(A) /\ A \in SUBSET B
      /\ \A a \in A : /\ a.begin < End(now) \/ a.begin < now.begin
                      /\ now.begin <= End(a)
  BY <1>1, AbsorbedIs
<1>4. /\ B \in SUBSET Pieces(last) /\ IsFiniteSet(B) /\ Separate(B) /\ Apart(B)
      /\ \A b \in B : /\ r.byte_ready_ <= b.begin /\ End(b) <= edge
                      /\ b.data = <<>> => b.islast
  BY DEF Members, BlocksOf
<1>5. \A b \in R : /\ b.begin # m.begin
                   /\ End(b) <= m.begin \/ End(m) <= b.begin
  BY RestStays
<1>6. x = [Blocks_ |-> R \cup {m}, byte_ready_ |-> r.byte_ready_,
           byte_pend_ |-> r.byte_pend_ - PendingIn(InOrder(A)) + Len(m.data)]
  <2>1. x = [r EXCEPT !.Blocks_ = {b \in R : b.begin # m.begin} \cup {m},
                      !.byte_pend_ = r.byte_pend_ - PendingIn(InOrder(A))
                                        + Len(m.data)]
    BY <1>2, <1>3 DEF Store, PendingAfter, MergedBlock, Merged
  <2>2. {b \in R : b.begin # m.begin} = R
    BY <1>5
  <2> HIDE DEF x, R, m, A
  <2> QED BY <2>1, <2>2 DEF Members
<1> HIDE DEF x, R, m, A, B
<1>7. /\ m.begin \in Nat /\ End(m) \in Nat /\ m.begin <= End(m)
      /\ m.data = <<>> <=> m.begin = End(m)
      /\ Len(m.data) \in Nat /\ m.islast \in BOOLEAN
  BY <1>2, PieceFacts
<1>8. /\ now.begin \in Nat /\ End(now) \in Nat /\ now.begin <= End(now)
      /\ now.data = <<>> <=> now.begin = End(now)
  BY <1>1, PieceFacts
<1>9. \A b \in B : /\ b.begin \in Nat /\ End(b) \in Nat /\ b.begin <= End(b)
                   /\ End(b) <= last
  BY <1>4, PieceFacts
<1>10. R \cup {m} \in SUBSET Pieces(last) /\ IsFiniteSet(R \cup {m})
  <2>1. R \in SUBSET Pieces(last) /\ IsFiniteSet(R)
    BY <1>4, FS_Subset DEF R
  <2> QED BY <1>2, <2>1, FS_AddElement
<1>11. Apart(R \cup {m}) /\ Separate(R \cup {m})
  BY <1>4, <1>5 DEF Apart, Separate, R
<1>12. \A b \in R \cup {m} : /\ r.byte_ready_ <= b.begin /\ End(b) <= edge
                             /\ b.data = <<>> => b.islast
  <2>1. r.byte_ready_ <= m.begin
    BY <1>1, <1>2, <1>3, <1>4 DEF Spans
  <2>2. End(m) <= edge
    BY <1>1, <1>2, <1>3, <1>4 DEF Spans
  <2>3. m.data = <<>> => m.islast
    BY <1>1, <1>2, <1>7, <1>8 DEF Spans
  <2> QED BY <1>4, <2>1, <2>2, <2>3 DEF R
<1>13. BlocksOf(x, edge)
  BY <1>6, <1>10, <1>11, <1>12 DEF BlocksOf
<1>14. RangeOf(m) = RangeOf(now) \cup NumbersOf(A)
  <2>1. RangeOf(now) \subseteq RangeOf(m)
    BY <1>2, <1>7, <1>8 DEF Spans, RangeOf
  <2>2. NumbersOf(A) \subseteq RangeOf(m)
    <3> SUFFICES ASSUME NEW a \in A, NEW y \in RangeOf(a)
                 PROVE  y \in RangeOf(m)
      BY DEF NumbersOf
    <3>1. m.begin <= a.begin /\ End(a) <= End(m)
      BY <1>2 DEF Spans
    <3>2. a.begin \in Nat /\ End(a) \in Nat
      BY <1>3, <1>9
    <3> QED BY <1>7, <3>1, <3>2 DEF RangeOf
  <2>3. ASSUME NEW y \in RangeOf(m)
        PROVE  y \in RangeOf(now) \cup NumbersOf(A)
    <3>1. y \in Int /\ m.begin <= y /\ y < End(m)
      BY <1>7 DEF RangeOf
    <3>2. CASE y < now.begin
      <4>1. PICK a \in A : m.begin = a.begin
        BY <1>2, <1>7, <1>8, <3>1, <3>2 DEF Spans
      <4>2. y \in RangeOf(a)
        BY <1>3, <1>8, <1>9, <3>1, <3>2, <4>1 DEF RangeOf
      <4> QED BY <4>2 DEF NumbersOf
    <3>3. CASE ~(y < End(now))
      <4>1. PICK a \in A : End(m) = End(a)
        BY <1>2, <1>7, <1>8, <3>1, <3>3 DEF Spans
      <4>2. a.begin \in Nat /\ End(a) \in Nat
            /\ (a.begin < End(now) \/ a.begin < now.begin)
        BY <1>3, <1>9
      <4>3. y \in RangeOf(a)
        BY <1>8, <3>1, <3>3, <4>1, <4>2 DEF RangeOf
      <4> QED BY <4>3 DEF NumbersOf
    <3>4. CASE ~(y < now.begin) /\ y < End(now)
      BY <1>8, <3>1, <3>4 DEF RangeOf
    <3> QED BY <3>2, <3>3, <3>4
  <2> QED BY <2>1, <2>2, <2>3
<1>15. /\ Stored(r) = NumbersOf(A) \cup NumbersOf(R)
       /\ Cardinality(Stored(r))
            = Cardinality(NumbersOf(A)) + Cardinality(NumbersOf(R))
       /\ IsFiniteSet(NumbersOf(A)) /\ IsFiniteSet(NumbersOf(R))
  <2>1. Stored(r) = NumbersOf(B)
    BY DEF Stored, NumbersOf, RangeOf, B
  <2>2. R = B \ A
    BY DEF R
  <2>3. /\ IsFiniteSet(NumbersOf(A)) /\ IsFiniteSet(NumbersOf(B \ A))
        /\ NumbersOf(B) = NumbersOf(A) \cup NumbersOf(B \ A)
        /\ Cardinality(NumbersOf(B))
             = Cardinality(NumbersOf(A)) + Cardinality(NumbersOf(B \ A))
    BY <1>3, <1>4, NumbersSplit
  <2> QED BY <2>1, <2>2, <2>3
<1>16. Stored(x) = NumbersOf(R) \cup RangeOf(m)
  BY <1>6 DEF Stored, NumbersOf, RangeOf
<1>17. Stored(x) = Stored(r) \cup RangeOf(now)
  BY <1>14, <1>15, <1>16
<1>18. x.byte_pend_ = Cardinality(Stored(x))
  <2>1. IsFiniteSet(RangeOf(m)) /\ Cardinality(RangeOf(m)) = Len(m.data)
    BY <1>2, RangeFacts
  <2>2. NumbersOf(R) \cap RangeOf(m) = {}
    <3> SUFFICES ASSUME NEW b \in R, NEW y \in RangeOf(b), y \in RangeOf(m)
                 PROVE  FALSE
      BY DEF NumbersOf
    <3>1. b.begin \in Nat /\ End(b) \in Nat
      BY <1>9 DEF R
    <3> QED BY <1>5, <1>7, <3>1 DEF RangeOf
  <2>3. Cardinality(Stored(x)) = Cardinality(NumbersOf(R)) + Len(m.data)
    <3>1. Cardinality(NumbersOf(R) \cup RangeOf(m))
             = Cardinality(NumbersOf(R)) + Cardinality(RangeOf(m))
      BY <1>15, <2>1, <2>2, DisjointSum
    <3> QED BY <1>16, <2>1, <3>1
  <2>4. A \in SUBSET Pieces(last)
    BY <1>3, <1>4
  <2>5. PendingIn(InOrder(A)) = Cardinality(NumbersOf(A))
    BY <1>2, <2>4, CountIs
  <2>6. /\ Cardinality(NumbersOf(A)) \in Nat
        /\ Cardinality(NumbersOf(R)) \in Nat
    BY <1>15, FS_CardinalityType
  <2>7. x.byte_pend_ = r.byte_pend_ - Cardinality(NumbersOf(A)) + Len(m.data)
    BY <1>6, <2>5
  <2> DEFINE all  == Cardinality(NumbersOf(A))
             keep == Cardinality(NumbersOf(R))
             len  == Len(m.data)
  <2> HIDE DEF all, keep, len
  <2>8. /\ all \in Nat /\ keep \in Nat /\ len \in Nat
        /\ x.byte_pend_ = (all + keep) - all + len
    BY <1>7, <1>15, <2>6, <2>7 DEF all, keep, len
  <2>9. x.byte_pend_ = keep + len
    BY <2>8
  <2> QED BY <2>3, <2>9 DEF keep, len
<1>19. x \in Members(last) /\ x.byte_ready_ = r.byte_ready_
  <2>1. r.byte_ready_ \in Nat
    BY DEF Members
  <2>2. Cardinality(Stored(x)) \in Nat
    <3>1. IsFiniteSet(RangeOf(m)) /\ IsFiniteSet(NumbersOf(R))
      BY <1>2, <1>15, RangeFacts
    <3>2. IsFiniteSet(NumbersOf(R) \cup RangeOf(m))
      BY <3>1, FS_Union
    <3> QED BY <1>16, <3>2, FS_CardinalityType
  <2>3. x.byte_pend_ \in Int
    BY <1>18, <2>2
  <2> QED BY <1>6, <1>10, <2>1, <2>3 DEF Members
<1>20. Marked(x) <=> now.islast \/ Marked(r)
  <2>1. Marked(x) <=> m.islast \/ \E b \in R : b.islast
    BY <1>6 DEF Marked
  <2>2. Marked(r) <=> (\E a \in A : a.islast) \/ \E b \in R : b.islast
    BY <1>3 DEF Marked, R, B
  <2> QED BY <1>2, <2>1, <2>2 DEF Spans
<1>21. ASSUME MarkedAtEnd(r, last), now.islast => End(now) = last
       PROVE  MarkedAtEnd(x, last)
  <2>1. m.islast => End(m) = last
    <3>1. End(m) <= last
      BY <1>2, PieceFacts
    <3>2. ASSUME now.islast PROVE End(m) = last
      BY <1>2, <1>7, <1>21, <3>1, <3>2 DEF Spans
    <3>3. ASSUME NEW a \in A, a.islast PROVE End(m) = last
      <4>1. End(a) = last
        BY <1>3, <1>21, <3>3 DEF MarkedAtEnd, B
      <4> QED BY <1>2, <1>7, <3>1, <4>1 DEF Spans
    <3> QED BY <1>2, <3>2, <3>3 DEF Spans
  <2> QED BY <1>6, <1>21, <2>1 DEF MarkedAtEnd, R, B
<1> QED BY <1>13, <1>17, <1>18, <1>19, <1>20, <1>21 DEF Stores, x

---------------------------------------------------------------------------
(* What pushing does to a stream, and popping.                               *)
LEMMA PushFacts ==
    ASSUME NEW s \in Streams, Len(s.queue) <= s.capacity, NEW data \in Seq(Nat)
    PROVE  /\ Push(s, data) \in Streams
           /\ Len(Push(s, data).queue) <= s.capacity
           /\ Push(s, data).capacity = s.capacity
           /\ Push(s, data).popped = s.popped
           /\ Push(s, data).closed = s.closed /\ Push(s, data).error = s.error
           /\ Len(data) <= AvailableCapacity(s)
                 => Push(s, data).queue = s.queue \o data
<1> DEFINE n == Smaller(Len(data), AvailableCapacity(s))
           part == SubSeq(data, 1, n)
           x == Push(s, data)
<1>1. /\ s.queue \in Seq(Nat) /\ s.capacity \in Nat /\ s.popped \in Nat
      /\ s.closed \in BOOLEAN /\ s.error \in BOOLEAN
  BY DEF Streams
<1>2. Len(s.queue) \in Nat /\ Len(data) \in Nat
  BY <1>1, LenProperties
<1>3. n \in 0..Len(data) /\ Len(s.queue) + n <= s.capacity
  BY <1>1, <1>2 DEF AvailableCapacity, Smaller
<1>4. Len(data) <= AvailableCapacity(s) => n = Len(data)
  BY <1>1, <1>2 DEF AvailableCapacity, Smaller
<1>5. x = [s EXCEPT !.queue = s.queue \o part]
  BY DEF Push
<1> HIDE DEF n
<1>6. part \in Seq(Nat) /\ Len(part) = n
  BY <1>3, SplitAt
<1>7. n = Len(data) => part = data
  <2> SUFFICES ASSUME n = Len(data) PROVE part = data
    OBVIOUS
  <2>1. SubSeq(data, 1, Len(data)) = data
    <3>1. \A i \in 1..Len(data) : SubSeq(data, 1, Len(data))[i] = data[i]
      BY <1>2
    <3>2. /\ SubSeq(data, 1, Len(data)) \in Seq(Nat)
          /\ Len(SubSeq(data, 1, Len(data))) = Len(data)
      BY <1>6
    <3> QED BY <3>1, <3>2, SeqEqual
  <2> QED BY <2>1
<1> HIDE DEF part
<1>8. s.queue \o part \in Seq(Nat) /\ Len(s.queue \o part) = Len(s.queue) + n
  BY <1>1, <1>6, ConcatProperties
<1> HIDE DEF x
<1>9. /\ x.queue = s.queue \o part
      /\ x.capacity = s.capacity /\ x.popped = s.popped
      /\ x.closed = s.closed /\ x.error = s.error
  BY <1>5 DEF Streams
<1>10. x \in Streams
  BY <1>1, <1>5, <1>8 DEF Streams
<1> QED BY <1>3, <1>4, <1>7, <1>8, <1>9, <1>10 DEF x

(* What has been written between two states of reassembler and stream.       *)
Known(r, start) == start..(r.byte_ready_ - 1) \cup Stored(r)

EndsFit(r, s, last) ==
    MarkedAtEnd(r, last) /\ (s.closed => r.byte_ready_ = last)

Writes(x, r, s, start, last) ==
    /\ Holding(x.re, x.output, start, last)
    /\ x.output.popped = s.popped /\ x.output.capacity = s.capacity
    /\ x.output.error = s.error
    /\ Known(x.re, start) = Known(r, start)
    /\ x.output.closed \/ Marked(x.re) <=> s.closed \/ Marked(r)
    /\ EndsFit(r, s, last) => EndsFit(x.re, x.output, last)

(* Writing the next block.                                                   *)
LEMMA WriteBlockIs ==
    ASSUME NEW start \in Nat, NEW last \in Nat, NEW r, NEW s,
           Holding(r, s, start, last),
           NEW b \in r.Blocks_, b.begin = r.byte_ready_, ~s.closed
    PROVE  Writes(WriteBlock([re |-> r, output |-> s], b), r, s, start, last)
<1> DEFINE x == WriteBlock([re |-> r, output |-> s], b)
           r1 == x.re
           s1 == x.output
           B == r.Blocks_
           B1 == B \ {b}
           len == Len(b.data)
           p == Push(s, b.data)
<1>1. /\ r \in Members(last) /\ StreamOf(r, s, start, last)
      /\ BlocksOf(r, Edge(r, s)) /\ r.byte_pend_ = Cardinality(Stored(r))
  BY DEF Holding
<1>2. /\ r.byte_ready_ \in Nat /\ Edge(r, s) \in Nat
      /\ Len(s.queue) \in Nat /\ s.queue \in Seq(Nat)
      /\ s.capacity \in Nat /\ s.popped \in Nat /\ s.closed \in BOOLEAN
      /\ AvailableCapacity(s) = s.capacity - Len(s.queue)
      /\ r.byte_ready_ = start + s.popped + Len(s.queue)
      /\ Edge(r, s) = start + s.popped + s.capacity
  <2>1. StreamOf(r, s, start, last)
    BY <1>1
  <2> HIDE DEF x, r1, s1, B, B1, len, p
  <2> QED BY <2>1, HoldingFacts, SMT
<1>3. /\ B \in SUBSET Pieces(last) /\ IsFiniteSet(B) /\ Apart(B) /\ Separate(B)
      /\ \A c \in B : /\ r.byte_ready_ <= c.begin /\ End(c) <= Edge(r, s)
                      /\ c.data = <<>> => c.islast
  BY <1>1 DEF Members, BlocksOf
<1>4. /\ b.data \in Seq(Nat) /\ len \in Nat /\ End(b) = r.byte_ready_ + len
      /\ End(b) <= last /\ b.islast \in BOOLEAN
      /\ b.data = Bytes(r.byte_ready_, len)
  BY <1>3, PieceFacts
<1>5. End(b) <= Edge(r, s) /\ len <= AvailableCapacity(s)
  <2>1. End(b) <= Edge(r, s)
    BY <1>3
  <2> DEFINE room == AvailableCapacity(s)
             nxt  == r.byte_ready_
             size == Len(s.queue)
             edge == Edge(r, s)
  <2> HIDE DEF len, room, nxt, size, edge
  <2>2. /\ room = s.capacity - size /\ nxt = start + s.popped + size
        /\ edge = start + s.popped + s.capacity /\ nxt + len <= edge
        /\ room \in Int /\ nxt \in Nat /\ edge \in Nat /\ len \in Nat
        /\ size \in Nat /\ s.popped \in Nat /\ s.capacity \in Nat
    <3>1. /\ room = s.capacity - size /\ nxt = start + s.popped + size
          /\ edge = start + s.popped + s.capacity
          /\ nxt \in Nat /\ edge \in Nat
          /\ size \in Nat /\ s.popped \in Nat /\ s.capacity \in Nat
      BY <1>2 DEF room, nxt, size, edge
    <3>2. nxt + len <= edge /\ len \in Nat
      BY <1>4, <2>1 DEF nxt, edge
    <3> QED BY <3>1, <3>2
  <2>3. len <= room
    BY <2>2
  <2> QED BY <2>1, <2>3 DEF room
<1>6. /\ r1 = [Blocks_ |-> B1, byte_ready_ |-> r.byte_ready_ + len,
               byte_pend_ |-> r.byte_pend_ - len]
      /\ s1 = IF b.islast THEN Close(p) ELSE p
      /\ x = [re |-> r1, output |-> s1]
  BY DEF WriteBlock
<1>7. /\ s \in Streams /\ Len(s.queue) <= s.capacity
      /\ s.queue = Bytes(start + s.popped, Len(s.queue))
  BY <1>1 DEF StreamOf
<1>8. /\ p \in Streams /\ p.capacity = s.capacity /\ p.popped = s.popped
      /\ p.closed = s.closed /\ p.error = s.error
      /\ Len(p.queue) <= s.capacity /\ p.queue = s.queue \o b.data
  BY <1>4, <1>5, <1>7, PushFacts
<1> HIDE DEF x, r1, s1, p, B1, B
<1>9. /\ s1 \in Streams /\ s1.capacity = s.capacity /\ s1.popped = s.popped
      /\ s1.error = s.error /\ s1.queue = s.queue \o b.data
      /\ s1.closed <=> b.islast
  <2>1. CASE b.islast
    BY <1>6, <1>8, <2>1 DEF Close, Streams
  <2>2. CASE ~b.islast
    BY <1>6, <1>8, <2>2
  <2> QED BY <2>1, <2>2
<1>10. /\ r1.Blocks_ = B1 /\ r1.byte_ready_ = r.byte_ready_ + len
       /\ r1.byte_pend_ = r.byte_pend_ - len
  BY <1>6
<1>11. /\ Len(s1.queue) = Len(s.queue) + len
       /\ s1.queue = Bytes(start + s1.popped, Len(s1.queue))
  <2>1. Len(s1.queue) = Len(s.queue) + len
    BY <1>2, <1>4, <1>9, ConcatProperties
  <2>2. /\ start + s.popped \in Nat
        /\ (start + s.popped) + Len(s.queue) = r.byte_ready_
    BY <1>2
  <2>3. Bytes(start + s.popped, Len(s.queue))
           \o Bytes((start + s.popped) + Len(s.queue), len)
         = Bytes(start + s.popped, Len(s.queue) + len)
    BY <1>2, <1>4, <2>2, BytesJoined
  <2> QED BY <1>4, <1>7, <1>9, <2>1, <2>2, <2>3
<1>12. StreamOf(r1, s1, start, last)
  <2>1. BytesPushed(s1) = s.popped + (Len(s.queue) + len)
    BY <1>9, <1>11 DEF BytesPushed
  <2>2. r1.byte_ready_ = start + BytesPushed(s1) /\ r1.byte_ready_ <= last
    <3> DEFINE nxt  == r.byte_ready_
               size == Len(s.queue)
    <3> HIDE DEF len, nxt, size
    <3>1. /\ nxt = start + s.popped + size /\ nxt + len <= last
          /\ r1.byte_ready_ = nxt + len
          /\ BytesPushed(s1) = s.popped + (size + len)
          /\ size \in Nat /\ s.popped \in Nat /\ len \in Nat
      BY <1>2, <1>4, <1>10, <2>1 DEF nxt, size
    <3> QED BY <3>1
  <2>3. Len(s1.queue) <= s1.capacity
    <3>1. Len(s1.queue) = Len(p.queue)
      BY <1>8, <1>9
    <3> QED BY <1>8, <1>9, <3>1
  <2> QED BY <1>9, <1>11, <2>2, <2>3 DEF StreamOf
<1>13. Edge(r1, s1) = Edge(r, s)
  BY <1>2, <1>9, <1>12, HoldingFacts
<1>14. BlocksOf(r1, Edge(r, s))
  <2>1. IsFiniteSet(B1) /\ Apart(B1) /\ Separate(B1)
    BY <1>3, FS_Subset DEF Apart, Separate, B1
  <2>2. \A c \in B1 : r1.byte_ready_ <= c.begin
    <3> SUFFICES ASSUME NEW c \in B1 PROVE End(b) <= c.begin
      BY <1>4, <1>10
    <3>1. c \in B /\ c # b /\ b \in B
      BY DEF B1, B
    <3>2. /\ c.begin # b.begin /\ (End(c) <= b.begin \/ End(b) <= c.begin)
          /\ r.byte_ready_ <= c.begin
      BY <1>3, <3>1 DEF Apart, Separate
    <3>3. c.begin \in Nat /\ End(c) \in Nat /\ c.begin <= End(c)
      BY <1>3, <3>1, PieceFacts
    <3>4. ~(End(c) <= b.begin)
      <4>1. b.begin \in Nat /\ b.begin <= c.begin
        BY <1>2, <3>2
      <4> QED BY <3>2, <3>3, <4>1
    <3> QED BY <3>2, <3>4
  <2>3. \A c \in B1 : End(c) <= Edge(r, s) /\ (c.data = <<>> => c.islast)
    BY <1>3 DEF B1
  <2> QED BY <1>10, <2>1, <2>2, <2>3 DEF BlocksOf
<1>15. /\ Stored(r) = NumbersOf({b}) \cup NumbersOf(B1)
       /\ IsFiniteSet(NumbersOf(B1))
       /\ Cardinality(Stored(r))
            = Cardinality(NumbersOf({b})) + Cardinality(NumbersOf(B1))
  <2>1. {b} \in SUBSET B
    BY DEF B
  <2>2. Stored(r) = NumbersOf(B)
    BY DEF Stored, NumbersOf, RangeOf, B
  <2>3. B1 = B \ {b}
    BY DEF B1
  <2>4. /\ NumbersOf(B) = NumbersOf({b}) \cup NumbersOf(B \ {b})
        /\ IsFiniteSet(NumbersOf(B \ {b}))
        /\ Cardinality(NumbersOf(B))
             = Cardinality(NumbersOf({b})) + Cardinality(NumbersOf(B \ {b}))
    BY <1>3, <2>1, NumbersSplit
  <2> QED BY <2>2, <2>3, <2>4
<1>16. NumbersOf({b}) = RangeOf(b) /\ Cardinality(RangeOf(b)) = len
  BY <1>3, RangeFacts DEF NumbersOf, B
<1>17. Stored(r1) = NumbersOf(B1)
  BY <1>10 DEF Stored, NumbersOf, RangeOf
<1>18. r1.byte_pend_ = Cardinality(Stored(r1)) /\ r1.byte_pend_ \in Int
  <2> DEFINE keep == Cardinality(NumbersOf(B1))
  <2>1. keep \in Nat
    BY <1>15, FS_CardinalityType
  <2> HIDE DEF keep, len
  <2>2. r1.byte_pend_ = (len + keep) - len
    BY <1>1, <1>10, <1>15, <1>16 DEF keep
  <2>3. r1.byte_pend_ = keep
    BY <1>4, <2>1, <2>2
  <2> QED BY <1>17, <2>1, <2>3 DEF keep
<1>19. r1 \in Members(last)
  <2>1. B1 \in SUBSET Pieces(last)
    BY <1>3 DEF B1
  <2>2. r.byte_ready_ + len \in Nat
    BY <1>2, <1>4
  <2> QED BY <1>6, <1>10, <1>18, <2>1, <2>2 DEF Members
<1>20. Holding(r1, s1, start, last)
  BY <1>12, <1>13, <1>14, <1>18, <1>19 DEF Holding
<1>21. Known(r1, start) = Known(r, start)
  <2>1. RangeOf(b) = r.byte_ready_ .. ((r.byte_ready_ + len) - 1)
    BY <1>4 DEF RangeOf
  <2>2. start..((r.byte_ready_ + len) - 1)
           = start..(r.byte_ready_ - 1)
                \cup r.byte_ready_ .. ((r.byte_ready_ + len) - 1)
    <3> DEFINE nxt == r.byte_ready_
    <3> HIDE DEF len, nxt
    <3>1. start <= nxt /\ nxt \in Nat /\ len \in Nat
      <4> DEFINE size == Len(s.queue)
      <4> HIDE DEF size
      <4>1. /\ nxt = start + s.popped + size /\ nxt \in Nat
            /\ s.popped \in Nat /\ size \in Nat /\ len \in Nat
        BY <1>2, <1>4 DEF nxt, size
      <4> QED BY <4>1
    <3>2. start..((nxt + len) - 1) = start..(nxt - 1) \cup nxt..((nxt + len) - 1)
      BY <3>1
    <3> QED BY <3>2 DEF nxt
  <2> QED BY <1>10, <1>15, <1>16, <1>17, <2>1, <2>2 DEF Known
<1>22. s1.closed \/ Marked(r1) <=> s.closed \/ Marked(r)
  BY <1>9, <1>10 DEF Marked, B1, B
<1>23. EndsFit(r, s, last) => EndsFit(r1, s1, last)
  <2> SUFFICES ASSUME MarkedAtEnd(r, last)
               PROVE  /\ MarkedAtEnd(r1, last)
                      /\ s1.closed => r1.byte_ready_ = last
    BY DEF EndsFit
  <2>1. MarkedAtEnd(r1, last)
    BY <1>10 DEF MarkedAtEnd, B1, B
  <2>2. b.islast => End(b) = last
    BY DEF MarkedAtEnd
  <2> QED BY <1>4, <1>9, <1>10, <2>1, <2>2
<1> QED BY <1>9, <1>20, <1>21, <1>22, <1>23 DEF Writes, r1, s1, x

(* Flushing writes whatever can be written.                                  *)
States(last) ==
    {x \in [re : Members(last), output : Streams] :
        Len(x.output.queue) <= x.output.capacity}

(* Writing a block leaves a reassembler and a stream.                        *)
LEMMA WriteTypes ==
    ASSUME NEW last \in Nat, NEW x \in States(last), NEW b \in Pieces(last)
    PROVE  WriteIfNext(x, b) \in States(last)
<1> DEFINE s  == x.output
           p  == Push(s, b.data)
           y  == WriteBlock(x, b)
           r1 == [Blocks_ |-> x.re.Blocks_ \ {b},
                  byte_ready_ |-> x.re.byte_ready_ + Len(b.data),
                  byte_pend_ |-> x.re.byte_pend_ - Len(b.data)]
<1>1. /\ s \in Streams /\ Len(s.queue) <= s.capacity /\ x.re \in Members(last)
  BY DEF States
<1>2. b.data \in Seq(Nat) /\ Len(b.data) \in Nat /\ b.islast \in BOOLEAN
  BY PieceFacts
<1>3. p \in Streams /\ Len(p.queue) <= s.capacity /\ p.capacity = s.capacity
  BY <1>1, <1>2, PushFacts
<1>4. y = [re |-> r1, output |-> IF b.islast THEN Close(p) ELSE p]
  BY DEF WriteBlock
<1>5. r1 \in Members(last)
  <2>1. /\ x.re.Blocks_ \ {b} \in SUBSET Pieces(last)
        /\ x.re.byte_ready_ + Len(b.data) \in Nat
        /\ x.re.byte_pend_ - Len(b.data) \in Int
    BY <1>1, <1>2 DEF Members
  <2> QED BY <2>1 DEF Members
<1> HIDE DEF p, r1, y
<1>6. /\ Close(p) \in Streams /\ Close(p).queue = p.queue
      /\ Close(p).capacity = p.capacity
  BY <1>3 DEF Close, Streams
<1>7. y \in States(last)
  BY <1>3, <1>4, <1>5, <1>6 DEF States
<1> QED BY <1>7 DEF WriteIfNext, y

(* update_output() goes on until the stream is closed or the next byte is    *)
(* not there: a block passed over earlier never becomes writable later.      *)
LEMMA FlushIs ==
    ASSUME NEW start \in Nat, NEW last \in Nat, NEW r, NEW s,
           Holding(r, s, start, last)
    PROVE  LET x == Flush(r, s)
           IN  /\ Writes(x, r, s, start, last) /\ Written(x.re, x.output)
               /\ x \in States(last)
<1> DEFINE B == r.Blocks_
           n == Cardinality(B)
           q == InOrder(B)
           base == [re |-> r, output |-> s]
           S == States(last)
<1>1. /\ r \in Members(last) /\ StreamOf(r, s, start, last)
      /\ BlocksOf(r, Edge(r, s))
  BY DEF Holding
<1>2. /\ B \in SUBSET Pieces(last) /\ IsFiniteSet(B) /\ Apart(B)
  BY <1>1 DEF Members, BlocksOf
<1>3. \A b \in B : b.begin \in Nat
  BY <1>2, PieceFacts
<1>4. /\ n \in Nat /\ q \in [1..n -> B]
      /\ \A b \in B : \E k \in 1..n : q[k] = b
      /\ \A j, k \in 1..n : j < k => q[j].begin < q[k].begin
  BY <1>2, <1>3, InOrderIs
<1>5. Flush(r, s) = WriteAll(base, q)
  BY DEF Flush, WriteAll
<1>6. base \in S
  BY <1>1 DEF States, StreamOf
<1> HIDE DEF n, q, S
<1>7. PICK g \in [0..n -> S] : WritesTo(g, n, base, q)
  <2>1. \A x \in S : \A i \in 1..n : WriteIfNext(x, q[i]) \in S
    BY <1>2, <1>4, WriteTypes DEF S
  <2>2. DOMAIN q = 1..n
    BY <1>4
  <2> HIDE DEF base
  <2> QED BY <1>4, <1>6, <2>1, <2>2, WriteSteps
<1>8. /\ WriteAll(base, q) = g[n] /\ g[0] = base
      /\ \A k \in 1..n : g[k] = WriteIfNext(g[k - 1], q[k])
  BY <1>7 DEF WritesTo
<1> DEFINE Passed(y, k) ==
               /\ Writes(y, r, s, start, last)
               /\ \A i \in 1..n : i > k => q[i] \in y.re.Blocks_
               /\ y.re.Blocks_ \subseteq B
               /\ \/ y.output.closed
                  \/ \A i \in 1..k : q[i] \in y.re.Blocks_
                                       => y.re.byte_ready_ < q[i].begin
           T == {k \in 0..n : Passed(g[k], k)}
<1>9. 0 \in T
  <2>1. 1..0 = {} /\ 0 \in 0..n
    BY <1>4
  <2>2. base.re = r /\ base.output = s
    OBVIOUS
  <2>3. Writes(base, r, s, start, last)
    BY <2>2 DEF Writes
  <2>4. \A i \in 1..n : q[i] \in base.re.Blocks_
    BY <1>4
  <2> HIDE DEF base
  <2>5. Passed(base, 0)
    BY <2>1, <2>2, <2>3, <2>4
  <2> HIDE DEF Passed
  <2> QED BY <1>8, <2>1, <2>5
<1>10. ASSUME NEW k \in 0..(n - 1), k \in T PROVE k + 1 \in T
  <2> DEFINE y == g[k]
             z == g[k + 1]
             b == q[k + 1]
  <2>1. /\ k + 1 \in 1..n /\ (k + 1) - 1 = k /\ k \in 0..n /\ k + 1 \in 0..n
        /\ \A i \in 1..(k + 1) : i \in 1..n /\ (i \in 1..k \/ i = k + 1)
        /\ \A i \in 1..k : i \in 1..n /\ i < k + 1
    BY <1>4
  <2>2. Passed(y, k) /\ y \in S
    BY <1>10, <2>1
  <2>3. z = WriteIfNext(y, b)
    BY <1>8, <2>1
  <2>4. y = [re |-> y.re, output |-> y.output]
    BY <2>2 DEF S, States
  <2>5. k + 1 > k
    BY <2>1
  <2>6. b \in y.re.Blocks_ /\ b \in B
    BY <1>4, <2>1, <2>2, <2>5
  <2> HIDE DEF y, z, b
  <2>7. /\ Holding(y.re, y.output, start, last)
        /\ y.re.Blocks_ \subseteq B /\ y.output.closed \in BOOLEAN
    BY <2>2 DEF Writes, Holding, StreamOf, Streams
  <2>8. /\ y.re.byte_ready_ \in Nat
        /\ \A c \in y.re.Blocks_ : y.re.byte_ready_ <= c.begin
    BY <2>7 DEF Holding, BlocksOf, Members
  <2>9. b.begin \in Nat
    BY <1>3, <2>6
  <2>10. CASE b.begin = y.re.byte_ready_ /\ ~y.output.closed
    <3>1. z = WriteBlock([re |-> y.re, output |-> y.output], b)
      BY <2>3, <2>4, <2>10 DEF WriteIfNext
    <3>2. Writes(z, y.re, y.output, start, last)
      BY <2>6, <2>7, <2>10, <3>1, WriteBlockIs
    <3>3. Writes(z, r, s, start, last)
      BY <2>2, <3>2 DEF Writes
    <3>4. z.re.Blocks_ = y.re.Blocks_ \ {b}
      BY <3>1 DEF WriteBlock
    <3>5. \A i \in 1..n : i > k + 1 => q[i] \in z.re.Blocks_
      <4> SUFFICES ASSUME NEW i \in 1..n, i > k + 1
                   PROVE  q[i] \in z.re.Blocks_
        OBVIOUS
      <4>1. i > k
        BY <2>1
      <4>2. q[i] \in y.re.Blocks_
        BY <2>2, <4>1
      <4>3. b.begin < q[i].begin
        BY <1>4, <2>1 DEF b
      <4>4. q[i] # b
        BY <2>9, <4>3
      <4> QED BY <3>4, <4>2, <4>4
    <3>6. \A i \in 1..(k + 1) : q[i] \notin z.re.Blocks_
      <4> SUFFICES ASSUME NEW i \in 1..(k + 1), q[i] \in z.re.Blocks_
                   PROVE  FALSE
        OBVIOUS
      <4>1. q[i] \in y.re.Blocks_ /\ q[i] # b
        BY <3>4
      <4>2. i \in 1..k /\ i \in 1..n /\ i < k + 1
        BY <2>1, <4>1 DEF b
      <4>3. y.re.byte_ready_ < q[i].begin
        BY <2>2, <2>10, <4>1, <4>2
      <4>4. q[i].begin < b.begin
        BY <1>4, <2>1, <4>2 DEF b
      <4>5. q[i].begin \in Nat
        BY <1>3, <1>4, <4>2
      <4> QED BY <2>8, <2>9, <2>10, <4>3, <4>4, <4>5
    <3>7. z.re.Blocks_ \subseteq B
      BY <2>7, <3>4
    <3>8. Passed(z, k + 1)
      BY <3>3, <3>5, <3>6, <3>7
    <3> HIDE DEF Passed
    <3> QED BY <2>1, <3>8 DEF z
  <2>11. CASE ~(b.begin = y.re.byte_ready_ /\ ~y.output.closed)
    <3>1. z = y
      BY <2>3, <2>11 DEF WriteIfNext
    <3>2. \A i \in 1..n : i > k + 1 => q[i] \in y.re.Blocks_
      <4> SUFFICES ASSUME NEW i \in 1..n, i > k + 1
                   PROVE  q[i] \in y.re.Blocks_
        OBVIOUS
      <4>1. i > k
        BY <2>1
      <4> QED BY <2>2, <4>1
    <3>3. ASSUME ~y.output.closed, NEW i \in 1..(k + 1),
                 q[i] \in y.re.Blocks_
          PROVE  y.re.byte_ready_ < q[i].begin
      <4>1. CASE i \in 1..k
        BY <2>2, <3>3, <4>1
      <4>2. CASE i = k + 1
        <5>1. b.begin # y.re.byte_ready_ /\ y.re.byte_ready_ <= b.begin
          BY <2>6, <2>8, <2>11, <3>3
        <5>2. y.re.byte_ready_ < b.begin
          BY <2>8, <2>9, <5>1
        <5> QED BY <4>2, <5>2 DEF b
      <4> QED BY <2>1, <4>1, <4>2
    <3>4. Passed(y, k + 1)
      BY <2>2, <3>2, <3>3
    <3> HIDE DEF Passed
    <3> QED BY <2>1, <3>1, <3>4 DEF z
  <2> QED BY <2>10, <2>11
<1>11. n \in T
  <2> HIDE DEF T
  <2>1. 0..n \subseteq T
    BY <1>4, <1>9, <1>10, InductionUpTo
  <2> QED BY <1>4, <2>1
<1>12. Passed(g[n], n) /\ g[n] \in S
  BY <1>4, <1>11
<1> DEFINE x == g[n]
<1> HIDE DEF x
<1>13. Passed(x, n) /\ x \in S /\ x = Flush(r, s)
  BY <1>5, <1>8, <1>12 DEF x
<1>14. Written(x.re, x.output)
  <2> SUFFICES ASSUME ~x.output.closed, NEW b \in x.re.Blocks_
               PROVE  x.re.byte_ready_ < b.begin
    BY DEF Written
  <2>1. b \in B
    BY <1>13
  <2>2. PICK i \in 1..n : q[i] = b
    BY <1>4, <2>1
  <2> QED BY <1>13, <2>2
<1> QED BY <1>13, <1>14 DEF S

---------------------------------------------------------------------------
(* insert() as a whole: the numbers of the substring that lie within the     *)
(* window become known, and so does its end mark, unless all of the          *)
(* substring lies beyond the window.                                         *)
New(r, s, first, n, start) ==
    {i \in first..(first + n - 1) : start <= i /\ i < Edge(r, s)}

Inserts(x, r, s, first, n, mark, start, last) ==
    /\ Holding(x.re, x.output, start, last)
    /\ Written(x.re, x.output)
    /\ x.output.popped = s.popped /\ x.output.capacity = s.capacity
    /\ x.output.error = s.error
    /\ Known(x.re, start) = Known(r, start) \cup New(r, s, first, n, start)
    /\ x.output.closed \/ Marked(x.re)
          <=> s.closed \/ Marked(r) \/ (mark /\ first < Edge(r, s))
    /\ EndsFit(r, s, last) /\ (mark => last <= Edge(r, s))
          => EndsFit(x.re, x.output, last)

(* insert() does this for every substring of the stream and every window.    *)
LEMMA InsertIs ==
    ASSUME NEW start \in Nat, NEW last \in Nat, NEW r, NEW s,
           Holding(r, s, start, last), Written(r, s),
           NEW first \in Nat, NEW n \in Nat, first + n <= last,
           NEW mark \in BOOLEAN, mark => first + n = last
    PROVE  Inserts(Insert(r, s, first, Bytes(first, n), mark),
                   r, s, first, n, mark, start, last)
<1> DEFINE data == Bytes(first, n)
           edge == Edge(r, s)
           nxt  == r.byte_ready_
           now  == Clipped(r, s, first, data, mark)
           old  == [re |-> r, output |-> s]
           x    == Insert(r, s, first, data, mark)
           new  == New(r, s, first, n, start)
           m    == Store(r, now)
<1>1. /\ r \in Members(last) /\ StreamOf(r, s, start, last)
      /\ BlocksOf(r, edge) /\ r.byte_pend_ = Cardinality(Stored(r))
      /\ s.closed \in BOOLEAN /\ nxt <= last
  BY DEF Holding, StreamOf, Streams
<1>2. /\ nxt \in Nat /\ edge \in Nat /\ nxt <= edge /\ start <= nxt
  <2>1. /\ nxt \in Nat /\ edge \in Nat /\ nxt <= edge
    BY <1>1, HoldingFacts
  <2>2. /\ nxt = start + s.popped + Len(s.queue)
        /\ s.popped \in Nat /\ Len(s.queue) \in Nat
    BY <1>1, HoldingFacts
  <2>3. start <= nxt
    BY <2>2
  <2> QED BY <2>1, <2>3
<1>3. Len(data) = n
  BY BytesFacts
<1>4. x = IF first >= edge \/ first + n < nxt THEN old
          ELSE IF now.data = <<>> /\ ~mark THEN old
          ELSE IF \E b \in r.Blocks_ : SameBlock(b, now) THEN old
          ELSE Flush(m, s)
  BY <1>3 DEF Insert
<1>5. ASSUME new \subseteq Known(r, start), mark /\ first < edge => Marked(r),
             x = old
      PROVE  Inserts(x, r, s, first, n, mark, start, last)
  <2>1. Known(r, start) = Known(r, start) \cup new
    BY <1>5
  <2>2. s.closed \/ Marked(r)
           <=> s.closed \/ Marked(r) \/ (mark /\ first < edge)
    BY <1>5
  <2>3. x.re = r /\ x.output = s
    BY <1>5
  <2> HIDE DEF x
  <2> QED BY <2>1, <2>2, <2>3 DEF Inserts
<1> HIDE DEF x, now, m, data
<1>6. CASE first >= edge
  <2>1. new = {}
    BY <1>2, <1>6 DEF New
  <2> QED BY <1>2, <1>4, <1>5, <1>6, <2>1 DEF x, data
<1>7. CASE first + n < nxt
  <2>1. ~mark
    BY <1>1, <1>2, <1>7
  <2>2. new \subseteq Known(r, start)
    BY <1>2, <1>7 DEF New, Known
  <2> QED BY <1>4, <1>5, <1>7, <2>1, <2>2 DEF x, data
<1>8. CASE first < edge /\ first + n >= nxt
  <2>1. /\ now \in Pieces(last) /\ now.begin = Larger(first, nxt)
        /\ End(now) = Smaller(first + n, edge) /\ now.islast = mark
    BY <1>1, <1>8, ClippedIs DEF now, data
  <2>2. /\ nxt <= now.begin /\ End(now) <= edge
    BY <1>2, <2>1 DEF Larger, Smaller
  <2>3. RangeOf(now) \subseteq new
    <3>1. \A i \in RangeOf(now) :
             i \in Int /\ first <= i /\ nxt <= i /\ i < first + n /\ i < edge
      BY <1>2, <2>1 DEF RangeOf, Larger, Smaller
    <3> QED BY <1>2, <3>1 DEF New
  <2>4. new \subseteq start..(nxt - 1) \cup RangeOf(now)
    BY <1>2, <2>1 DEF New, RangeOf, Larger, Smaller
  <2>5. now.data = <<>> => RangeOf(now) = {}
    <3>1. now.data = <<>> => now.begin = End(now) /\ now.begin \in Nat
      BY <2>1, PieceFacts
    <3> QED BY <3>1 DEF RangeOf
  <2> HIDE DEF new, edge, nxt, old
  <2>6. CASE now.data = <<>> /\ ~mark
    <3>1. new \subseteq Known(r, start)
      BY <2>4, <2>5, <2>6 DEF Known, nxt
    <3>2. x = old
      BY <1>4, <2>6
    <3> QED BY <1>5, <2>6, <3>1, <3>2 DEF x, data
  <2>7. CASE /\ ~(now.data = <<>> /\ ~mark)
             /\ \E b \in r.Blocks_ : SameBlock(b, now)
    <3>1. PICK b \in r.Blocks_ : SameBlock(b, now)
      BY <2>7
    <3>2. RangeOf(b) = RangeOf(now) /\ (mark => b.islast)
      BY <2>1, <3>1 DEF SameBlock, RangeOf
    <3>3. RangeOf(now) \subseteq Stored(r) /\ (mark => Marked(r))
      BY <3>2 DEF Stored, RangeOf, Marked
    <3>4. new \subseteq Known(r, start)
      BY <2>4, <3>3 DEF Known, nxt
    <3>5. x = old
      BY <1>4, <2>7
    <3> QED BY <1>5, <3>3, <3>4, <3>5 DEF x, data
  <2>8. CASE /\ ~(now.data = <<>> /\ ~mark)
             /\ ~ \E b \in r.Blocks_ : SameBlock(b, now)
    <3>1. x = Flush(m, s)
      BY <1>4, <1>2, <1>8, <2>8
    <3>2. now.data = <<>> => now.islast /\ End(now) = Smaller(last, edge)
      BY <2>1, <2>8
    <3>3. Storable(r, now, edge, last)
      BY <2>1, <2>2, <2>8, <3>2 DEF Storable, nxt
    <3>4. Stores(m, r, now, edge, last)
      BY <1>1, <1>2, <3>3, StoreIs DEF m
    <3>5. Edge(m, s) = edge /\ StreamOf(m, s, start, last)
      BY <1>1, <3>4 DEF Stores, Edge, StreamOf, edge
    <3>6. Holding(m, s, start, last)
      BY <3>4, <3>5 DEF Stores, Holding
    <3>7. Writes(x, m, s, start, last) /\ Written(x.re, x.output)
      BY <3>1, <3>6, FlushIs
    <3>8. Known(m, start) = Known(r, start) \cup new
      <4>1. Known(m, start) = Known(r, start) \cup RangeOf(now)
        BY <3>4 DEF Stores, Known
      <4>2. new \subseteq Known(r, start) \cup RangeOf(now)
        BY <2>4 DEF Known, nxt
      <4> QED BY <2>3, <4>1, <4>2
    <3>9. Marked(m) <=> mark \/ Marked(r)
      BY <2>1, <3>4 DEF Stores
    <3>10. ASSUME EndsFit(r, s, last), mark => last <= edge
           PROVE  EndsFit(m, s, last)
      <4>1. now.islast => End(now) = last
        BY <1>2, <2>1, <3>10 DEF Smaller
      <4>2. MarkedAtEnd(m, last)
        BY <3>4, <3>10, <4>1 DEF EndsFit, Stores
      <4> QED BY <3>4, <3>10, <4>2 DEF EndsFit, Stores
    <3>11. x.output.closed \/ Marked(x.re)
              <=> s.closed \/ Marked(r) \/ (mark /\ first < edge)
      BY <1>8, <3>7, <3>9 DEF Writes
    <3> QED BY <3>7, <3>8, <3>10, <3>11 DEF Inserts, Writes, new, edge, x, data
  <2> QED BY <2>6, <2>7, <2>8
<1>9. first >= edge \/ first + n < nxt \/ (first < edge /\ first + n >= nxt)
  BY <1>2
<1> QED BY <1>6, <1>7, <1>8, <1>9

(* Reading only widens the window.                                           *)
LEMMA PopIs ==
    ASSUME NEW start \in Nat, NEW last \in Nat, NEW r, NEW s,
           Holding(r, s, start, last), NEW n \in Nat
    PROVE  LET t == Pop(s, n)
           IN  /\ Holding(r, t, start, last)
               /\ t.popped = s.popped + Smaller(n, Len(s.queue))
               /\ t.capacity = s.capacity /\ t.closed = s.closed
               /\ t.error = s.error
<1> DEFINE len == Len(s.queue)
           k == Smaller(n, len)
           rest == SubSeq(s.queue, k + 1, len)
           t == Pop(s, n)
<1>1. /\ r \in Members(last) /\ StreamOf(r, s, start, last)
      /\ BlocksOf(r, Edge(r, s)) /\ r.byte_pend_ = Cardinality(Stored(r))
  BY DEF Holding
<1>2. /\ s \in Streams /\ len <= s.capacity
      /\ s.queue = Bytes(start + s.popped, len)
      /\ r.byte_ready_ <= last /\ s.popped \in Nat /\ s.capacity \in Nat
  BY <1>1 DEF StreamOf, Streams
<1>3. len \in Nat /\ r.byte_ready_ = start + s.popped + len
  BY <1>1, HoldingFacts
<1>4. t = [s EXCEPT !.queue = rest, !.popped = s.popped + k]
  BY DEF Pop
<1> HIDE DEF len
<1>5. k \in 0..len
  BY <1>3 DEF Smaller
<1>6. rest = Bytes(start + (s.popped + k), len - k)
  <2>1. start + s.popped \in Nat /\ k \in Nat /\ len \in k..len
    BY <1>2, <1>3, <1>5
  <2> DEFINE first == start + s.popped
  <2>3. first + k = start + (s.popped + k)
    BY <1>2, <2>1
  <2> HIDE DEF first, k
  <2>2. IsPart(first, len, k, len)
    BY <1>3, <2>1, PartOfBytes DEF first
  <2>4. s.queue = Bytes(first, len)
    BY <1>2 DEF first
  <2> QED BY <2>2, <2>3, <2>4 DEF IsPart
<1> HIDE DEF k, rest, t
<1>7. rest \in Seq(Nat) /\ Len(rest) = len - k
  <2>1. start + (s.popped + k) \in Nat /\ len - k \in Nat
    BY <1>2, <1>3, <1>5
  <2> QED BY <1>6, <2>1, BytesFacts
<1>8. /\ t \in Streams /\ t.queue = rest /\ t.popped = s.popped + k
      /\ t.capacity = s.capacity /\ t.closed = s.closed /\ t.error = s.error
  <2>1. s.popped + k \in Nat
    BY <1>2, <1>5
  <2> QED BY <1>2, <1>4, <1>7, <2>1 DEF Streams
<1>9. StreamOf(r, t, start, last)
  <2>1. BytesPushed(t) = (s.popped + k) + (len - k)
    BY <1>7, <1>8 DEF BytesPushed
  <2>3. (s.popped + k) + (len - k) = s.popped + len
    BY <1>2, <1>3, <1>5
  <2>4. start + (s.popped + len) = start + s.popped + len
    BY <1>2, <1>3
  <2>5. len - k <= s.capacity
    BY <1>2, <1>3, <1>5
  <2>2. r.byte_ready_ = start + BytesPushed(t) /\ Len(t.queue) <= t.capacity
    BY <1>3, <1>7, <1>8, <2>1, <2>3, <2>4, <2>5
  <2> QED BY <1>2, <1>6, <1>7, <1>8, <2>2 DEF StreamOf
<1>10. /\ Edge(r, s) <= Edge(r, t) /\ Edge(r, s) \in Nat /\ Edge(r, t) \in Nat
  <2>1. Edge(r, s) = start + s.popped + s.capacity /\ Edge(r, s) \in Nat
    BY <1>1, HoldingFacts
  <2>2. Edge(r, t) = start + t.popped + t.capacity /\ Edge(r, t) \in Nat
    BY <1>9, HoldingFacts
  <2> QED BY <1>2, <1>5, <1>8, <2>1, <2>2
<1>11. BlocksOf(r, Edge(r, t))
  <2>1. \A b \in r.Blocks_ : End(b) \in Nat
    BY <1>1, PieceFacts DEF Members
  <2>2. \A b \in r.Blocks_ : End(b) <= Edge(r, t)
    BY <1>1, <1>10, <2>1 DEF BlocksOf
  <2> QED BY <1>1, <2>2 DEF BlocksOf
<1> QED BY <1>1, <1>8, <1>9, <1>11 DEF Holding, t, k, len

(* A new reassembler with a new stream holds nothing.                        *)
LEMMA NothingHeld ==
    ASSUME NEW capacity \in Nat, NEW last \in Nat
    PROVE  LET r == NewReassembler
               s == NewStream(capacity)
           IN  /\ Holding(r, s, 0, last) /\ Written(r, s) /\ EndsFit(r, s, last)
               /\ Known(r, 0) = {} /\ ~Marked(r)
               /\ r.Blocks_ = {} /\ r.byte_ready_ = 0 /\ Stored(r) = {}
               /\ s.capacity = capacity /\ s.popped = 0 /\ Len(s.queue) = 0
               /\ s.closed = FALSE /\ s.error = FALSE
<1> DEFINE r == NewReassembler
           s == NewStream(capacity)
<1>1. /\ r = [Blocks_ |-> {}, byte_ready_ |-> 0, byte_pend_ |-> 0]
      /\ s = [capacity |-> capacity, queue |-> <<>>, popped |-> 0,
              closed |-> FALSE, error |-> FALSE]
  BY DEF NewReassembler, NewStream
<1> HIDE DEF r, s
<1>2. <<>> \in Seq(Nat) /\ Len(<<>>) = 0
  BY EmptySeq
<1>3. <<>> = Bytes(0 + 0, 0)
  <2>1. /\ Bytes(0 + 0, 0) \in Seq(Nat) /\ Len(Bytes(0 + 0, 0)) = 0
    BY BytesFacts
  <2> QED BY <2>1, EmptySeq
<1>4. s \in Streams
  BY <1>1, <1>2 DEF Streams
<1>5. StreamOf(r, s, 0, last)
  BY <1>1, <1>2, <1>3, <1>4 DEF StreamOf, BytesPushed
<1>6. r \in Members(last)
  BY <1>1 DEF Members
<1>7. BlocksOf(r, Edge(r, s))
  BY <1>1, FS_EmptySet DEF BlocksOf, Apart, Separate
<1>8. Stored(r) = {} /\ r.byte_pend_ = Cardinality(Stored(r))
  <2>1. Stored(r) = {}
    BY <1>1 DEF Stored
  <2> QED BY <1>1, <2>1, FS_EmptySet
<1>9. Known(r, 0) = {} /\ ~Marked(r)
  BY <1>1, <1>8 DEF Known, Marked
<1>10. /\ Holding(r, s, 0, last) /\ Written(r, s) /\ EndsFit(r, s, last)
  BY <1>1, <1>5, <1>6, <1>7, <1>8 DEF Holding, Written, EndsFit, MarkedAtEnd
<1>11. Len(s.queue) = 0 /\ s.capacity = capacity /\ s.popped = 0
       /\ s.closed = FALSE /\ s.error = FALSE
       /\ r.Blocks_ = {} /\ r.byte_ready_ = 0
  BY <1>1, <1>2
<1> QED BY <1>8, <1>9, <1>10, <1>11 DEF r, s

---------------------------------------------------------------------------
(* The reassembler without a receiver (module Reassembler): its invariant.   *)
BlocksInv ==
    /\ Holding(held, output, 0, StreamLen)
    /\ Written(held, output)
    /\ output.capacity = Capacity /\ ~output.error

(* It holds of a new reassembler.                                            *)
LEMMA InitBlocks == CallerInit => BlocksInv /\ EndsFit(held, output, StreamLen)
<1>1. Capacity \in Nat /\ StreamLen \in Nat
  BY ReassemblerAssumption, StreamAssumption
<1>2. CallerInit => held = NewReassembler /\ output = NewStream(Capacity)
  BY DEF CallerInit
<1> QED BY <1>1, <1>2, NothingHeld DEF BlocksInv

(* What a step does, seen from the stream's side.                            *)
InsertStep(first, len, last) ==
    Inserts([re |-> held', output |-> output'], held, output, first, len, last,
            0, StreamLen)

(* A step of the caller.                                                     *)
LEMMA InsertStepIs ==
    ASSUME BlocksInv, NEW first \in 0..StreamLen, NEW len \in 0..MaxLen,
           NEW last \in BOOLEAN, insert(first, len, last)
    PROVE  /\ InsertStep(first, len, last)
           /\ first + len <= StreamLen
           /\ last => first + len = StreamLen
           /\ EndFitsWindow /\ last => StreamLen <= Edge(held, output)
<1> DEFINE x == Insert(held, output, first, Bytes(first, len), last)
<1>1. /\ first \in Nat /\ len \in Nat /\ StreamLen \in Nat /\ 0 \in Nat
      /\ first + len <= StreamLen
      /\ last => first + len = StreamLen
      /\ EndFitsWindow /\ last => StreamLen <= Edge(held, output)
      /\ held' = x.re /\ output' = x.output
  BY ReassemblerAssumption, StreamAssumption DEF insert
<1>2. Inserts(x, held, output, first, len, last, 0, StreamLen)
  BY <1>1, InsertIs DEF BlocksInv
<1> HIDE DEF x
<1>3. InsertStep(first, len, last)
  BY <1>1, <1>2 DEF InsertStep, Inserts
<1> QED BY <1>1, <1>3

(* A step of the reader.                                                     *)
LEMMA ReadStepIs ==
    ASSUME BlocksInv, NEW n \in 1..Capacity, ReaderPops(n)
    PROVE  /\ BlocksInv' /\ held' = held
           /\ output'.popped = output.popped + Smaller(n, Len(output.queue))
           /\ output'.closed = output.closed
<1>1. n \in Nat /\ 0 \in Nat /\ StreamLen \in Nat
  BY ReassemblerAssumption, StreamAssumption
<1>2. output' = Pop(output, n) /\ held' = held
  BY DEF ReaderPops
<1>3. /\ Holding(held, output', 0, StreamLen)
      /\ output'.popped = output.popped + Smaller(n, Len(output.queue))
      /\ output'.capacity = output.capacity /\ output'.closed = output.closed
      /\ output'.error = output.error
  <2> DEFINE t == Pop(output, n)
  <2>1. Holding(held, output, 0, StreamLen)
    BY DEF BlocksInv
  <2>2. /\ Holding(held, t, 0, StreamLen)
        /\ t.popped = output.popped + Smaller(n, Len(output.queue))
        /\ t.capacity = output.capacity /\ t.closed = output.closed
        /\ t.error = output.error
    BY <1>1, <2>1, PopIs
  <2> HIDE DEF t
  <2>3. output' = t
    BY <1>2 DEF t
  <2> QED BY <2>2, <2>3
<1> QED BY <1>2, <1>3 DEF BlocksInv, Written

(* Every step keeps the invariant.                                           *)
LEMMA NextBlocks == BlocksInv /\ [CallerNext]_callerVars => BlocksInv'
<1> SUFFICES ASSUME BlocksInv, [CallerNext]_callerVars PROVE BlocksInv'
  OBVIOUS
<1>1. ASSUME NEW first \in 0..StreamLen, NEW len \in 0..MaxLen,
             NEW last \in BOOLEAN, insert(first, len, last)
      PROVE  BlocksInv'
  <2>1. InsertStep(first, len, last)
    BY <1>1, InsertStepIs
  <2> QED BY <2>1 DEF InsertStep, Inserts, BlocksInv
<1>2. ASSUME NEW n \in 1..Capacity, ReaderPops(n) PROVE BlocksInv'
  BY <1>2, ReadStepIs
<1>3. CASE UNCHANGED callerVars
  BY <1>3 DEF callerVars, BlocksInv
<1> QED BY <1>1, <1>2, <1>3 DEF CallerNext

(* A caller that offers the last substring only when it fits keeps the end   *)
(* marks true.                                                               *)
LEMMA NextEndsFit ==
    ASSUME EndFitsWindow, BlocksInv, EndsFit(held, output, StreamLen), [CallerNext]_callerVars
    PROVE  EndsFit(held, output, StreamLen)'
<1>1. ASSUME NEW first \in 0..StreamLen, NEW len \in 0..MaxLen,
             NEW last \in BOOLEAN, insert(first, len, last)
      PROVE  EndsFit(held, output, StreamLen)'
  <2>1. InsertStep(first, len, last) /\ (last => StreamLen <= Edge(held, output))
    BY <1>1, InsertStepIs
  <2> QED BY <2>1 DEF InsertStep, Inserts
<1>2. ASSUME NEW n \in 1..Capacity, ReaderPops(n)
      PROVE  EndsFit(held, output, StreamLen)'
  BY <1>2, ReadStepIs DEF EndsFit
<1>3. CASE UNCHANGED callerVars
  BY <1>3 DEF callerVars
<1> QED BY <1>1, <1>2, <1>3 DEF CallerNext

(* For every stream, window and order of substrings: the invariant that      *)
(* insert() and the reader keep.                                             *)
THEOREM BlocksAreInvariant == CallerSpec => []BlocksInv
<1>1. CallerInit => BlocksInv
  BY InitBlocks
<1>2. BlocksInv /\ [CallerNext]_callerVars => BlocksInv'
  BY NextBlocks
<1> QED BY <1>1, <1>2, PTL DEF CallerSpec

(* For every stream and window, whatever substrings arrive in whatever order *)
(* and with whatever overlap: merging one neighbour on the left and a run on *)
(* the right keeps the blocks separate and within the window, and as long as *)
(* the stream is open every block begins beyond the next byte to write.      *)
THEOREM BlocksPlaced == CallerSpec => []BlocksWellPlaced
<1>1. ASSUME BlocksInv PROVE BlocksWellPlaced
  <2>1. /\ held \in Members(StreamLen) /\ BlocksOf(held, Edge(held, output))
        /\ Written(held, output)
    BY <1>1 DEF BlocksInv, Holding
  <2>2. ASSUME NEW b \in held.Blocks_
        PROVE  /\ \A c \in held.Blocks_ \ {b} :
                     End(b) <= c.begin \/ End(c) <= b.begin
               /\ End(b) <= Edge(held, output)
               /\ ~output.closed => held.byte_ready_ < b.begin
    BY <2>1 DEF BlocksOf, Separate, Written
  <2> QED BY <2>2 DEF BlocksWellPlaced
<1> QED BY <1>1, BlocksAreInvariant, PTL

(* For every stream and window and every order of substrings: byte_pend_ is  *)
(* the number of bytes held, although insert() only adds and subtracts the   *)
(* lengths of whole blocks.                                                  *)
THEOREM PendingCounted == CallerSpec => []PendingIsStored
<1>1. BlocksInv => PendingIsStored
  BY DEF BlocksInv, Holding, PendingIsStored
<1> QED BY <1>1, BlocksAreInvariant, PTL

(* If the caller offers the last substring only when it fits the window, a   *)
(* block marked last ends where the stream ends, and a closed stream has had *)
(* all of it.  Without the condition this is false: insert() cuts such a     *)
(* substring and keeps the mark (run reassembler_end_beyond_window).         *)
THEOREM EndsAreTrue ==
    EndFitsWindow => (CallerSpec => [](BlocksInv /\ EndsFit(held, output, StreamLen)))
<1> SUFFICES ASSUME EndFitsWindow
             PROVE  CallerSpec => [](BlocksInv /\ EndsFit(held, output, StreamLen))
  OBVIOUS
<1> DEFINE Both == BlocksInv /\ EndsFit(held, output, StreamLen)
<1>1. CallerInit => Both
  BY InitBlocks
<1>2. Both /\ [CallerNext]_callerVars => Both'
  BY NextBlocks, NextEndsFit
<1> QED BY <1>1, <1>2, PTL DEF CallerSpec

(* Under the same condition update_output() closes the stream only when its  *)
(* last byte has been written, for every stream and window.                  *)
THEOREM ClosesWithLastByte ==
    EndFitsWindow => (CallerSpec => []ClosedOnlyWhenComplete)
<1> SUFFICES ASSUME EndFitsWindow PROVE CallerSpec => []ClosedOnlyWhenComplete
  OBVIOUS
<1>1. BlocksInv /\ EndsFit(held, output, StreamLen) => ClosedOnlyWhenComplete
  <2> SUFFICES ASSUME BlocksInv, EndsFit(held, output, StreamLen), output.closed
               PROVE  BytesPushed(output) = StreamLen
    BY DEF ClosedOnlyWhenComplete
  <2>1. held.byte_ready_ = 0 + BytesPushed(output)
    BY DEF BlocksInv, Holding, StreamOf
  <2>2. BytesPushed(output) \in Nat
    <3>1. /\ output.popped \in Nat /\ output.queue \in Seq(Nat)
      BY DEF BlocksInv, Holding, StreamOf, Streams
    <3> QED BY <3>1, LenProperties DEF BytesPushed
  <2> QED BY <2>1, <2>2 DEF EndsFit
<1> QED BY <1>1, EndsAreTrue, PTL

---------------------------------------------------------------------------
(* The reassembler implements its specification: what is known determines    *)
(* the first unknown byte,                                                   *)
LEMMA FirstUnknownIs ==
    ASSUME NEW K, NEW i \in 0..StreamLen, i \notin K, 0..(i - 1) \subseteq K
    PROVE  Abstract!FirstUnknown(K) = i
<1> DEFINE P(j) == j \notin K /\ \A k \in 0..(j - 1) : k \in K
<1>1. Abstract!FirstUnknown(K) = CHOOSE j \in 0..StreamLen : P(j)
  BY DEF Abstract!FirstUnknown
<1>2. P(i)
  OBVIOUS
<1>3. ASSUME NEW j \in 0..StreamLen, P(j) PROVE j = i
  <2>1. CASE j < i
    <3>1. j \in 0..(i - 1)
      BY <2>1
    <3> QED BY <1>3, <3>1
  <2>2. CASE i < j
    <3>1. i \in 0..(j - 1)
      BY <2>2
    <3> QED BY <1>3, <3>1
  <2> QED BY <2>1, <2>2
<1> HIDE DEF P
<1> QED BY <1>1, <1>2, <1>3

(* and that determines the stream.                                           *)
LEMMA StreamIsDetermined ==
    ASSUME NEW r, NEW s, Holding(r, s, 0, StreamLen), Written(r, s),
           s.capacity = Capacity, ~s.error, EndsFit(r, s, StreamLen)
    PROVE  s = Abstract!Written(Known(r, 0), s.closed \/ Marked(r), s.popped)
<1> DEFINE nxt == r.byte_ready_
           K == Known(r, 0)
           e == s.closed \/ Marked(r)
<1>1. /\ r \in Members(StreamLen) /\ StreamOf(r, s, 0, StreamLen)
      /\ BlocksOf(r, Edge(r, s))
  BY DEF Holding
<1>2. /\ s \in Streams /\ s.queue = Bytes(0 + s.popped, Len(s.queue))
      /\ nxt <= StreamLen /\ s.popped \in Nat
      /\ s.closed \in BOOLEAN /\ s.error \in BOOLEAN
  BY <1>1 DEF StreamOf, Streams
<1>3. StreamLen \in Nat /\ 0 \in Nat
  BY ReassemblerAssumption, StreamAssumption
<1>4. /\ nxt \in Nat /\ Len(s.queue) \in Nat
      /\ nxt = 0 + s.popped + Len(s.queue)
  BY <1>1, <1>3, HoldingFacts
<1>5. \A b \in r.Blocks_ : /\ b.begin \in Nat /\ End(b) \in Nat
                           /\ b.begin <= End(b) /\ End(b) <= StreamLen
  BY <1>1, <1>3, PieceFacts DEF Members
<1>6. nxt \notin Stored(r)
  <2> SUFFICES ASSUME NEW b \in r.Blocks_, nxt \in b.begin .. (End(b) - 1)
               PROVE  FALSE
    BY DEF Stored
  <2>1. CASE s.closed
    <3>1. nxt = StreamLen
      BY <2>1 DEF EndsFit
    <3> QED BY <1>3, <1>5, <3>1
  <2>2. CASE ~s.closed
    BY <1>4, <1>5, <2>2 DEF Written
  <2> QED BY <2>1, <2>2
<1>7. Abstract!FirstUnknown(K) = nxt
  <2>1. nxt \in 0..StreamLen /\ nxt \notin 0..(nxt - 1)
    BY <1>2, <1>3, <1>4
  <2> QED BY <1>6, <2>1, FirstUnknownIs DEF Known
<1>8. s.closed <=> e /\ nxt = StreamLen
  <2>1. ASSUME ~s.closed, NEW b \in r.Blocks_, b.islast, nxt = StreamLen
        PROVE  FALSE
    <3>1. End(b) = StreamLen /\ nxt < b.begin
      BY <2>1 DEF EndsFit, MarkedAtEnd, Written
    <3> QED BY <1>3, <1>5, <2>1, <3>1
  <2> QED BY <2>1 DEF EndsFit, Marked
<1>9. s.queue = [i \in 1..(nxt - s.popped) |-> s.popped + i - 1]
  <2>1. nxt - s.popped = Len(s.queue) /\ 0 + s.popped = s.popped
    BY <1>2, <1>4
  <2> QED BY <1>2, <2>1 DEF Bytes
<1>10. s = [capacity |-> Capacity, queue |-> s.queue, popped |-> s.popped,
            closed |-> s.closed, error |-> FALSE]
  BY <1>2 DEF Streams
<1> HIDE DEF K, e, nxt
<1>11. s.closed = (e /\ nxt = StreamLen)
  BY <1>2, <1>8
<1> QED BY <1>7, <1>9, <1>10, <1>11 DEF Abstract!Written, K, e

KnownNow    == 0 .. (held.byte_ready_ - 1) \cup Stored(held)
EndKnownNow == output.closed \/ \E b \in held.Blocks_ : b.islast

(* For every stream and window, under the same condition: however substrings *)
(* are cut, repeated and reordered, insert() keeps each byte that fits when  *)
(* it arrives, the stream holds exactly the bytes before the first gap, each *)
(* at its place, and it closes with its last byte.                           *)
THEOREM ReassemblerIsReassembly ==
    EndFitsWindow => (CallerSpec => ImplementsReassembly)
<1> SUFFICES ASSUME EndFitsWindow PROVE CallerSpec => ImplementsReassembly
  OBVIOUS
<1> DEFINE Both == BlocksInv /\ EndsFit(held, output, StreamLen)
<1>1. Both => output = Abstract!Written(KnownNow, EndKnownNow, output.popped)
  BY StreamIsDetermined DEF BlocksInv, Known, Marked, KnownNow, EndKnownNow
<1>2. CallerInit => Abstract!Init
  <2> SUFFICES ASSUME CallerInit PROVE Abstract!Init
    OBVIOUS
  <2>1. /\ held = [Blocks_ |-> {}, byte_ready_ |-> 0, byte_pend_ |-> 0]
        /\ output.closed = FALSE /\ output.popped = 0
    BY DEF CallerInit, NewReassembler, NewStream
  <2>2. KnownNow = {} /\ EndKnownNow = FALSE
    BY <2>1 DEF KnownNow, EndKnownNow, Stored
  <2>3. Both
    BY InitBlocks
  <2> QED BY <1>1, <2>1, <2>2, <2>3 DEF Abstract!Init, KnownNow, EndKnownNow
<1>3. Both /\ Both' /\ [CallerNext]_callerVars => [Abstract!Next]_(Abstract!vars)
  <2> SUFFICES ASSUME Both, Both', [CallerNext]_callerVars
               PROVE  [Abstract!Next]_(Abstract!vars)
    OBVIOUS
  <2>1. output' = Abstract!Written(KnownNow', EndKnownNow', output'.popped)
    BY StreamIsDetermined DEF BlocksInv, Known, Marked, KnownNow, EndKnownNow
  <2>2. ASSUME NEW first \in 0..StreamLen, NEW len \in 0..MaxLen,
               NEW last \in BOOLEAN, insert(first, len, last)
        PROVE  Abstract!Next
    <3>1. /\ InsertStep(first, len, last) /\ first + len <= StreamLen
          /\ last => first + len = StreamLen
      BY <2>2, InsertStepIs
    <3>2. len \in 0..StreamLen
      BY <3>1, ReassemblerAssumption, StreamAssumption
    <3>3. Edge(held, output) = output.popped + Capacity
      <4>1. /\ StreamOf(held, output, 0, StreamLen) /\ output.capacity = Capacity
        BY DEF BlocksInv, Holding
      <4>2. Edge(held, output) = 0 + output.popped + output.capacity
            /\ output.popped \in Nat
        BY <4>1, ReassemblerAssumption, StreamAssumption, HoldingFacts
      <4> QED BY <4>1, <4>2
    <3>4. /\ Known(held, 0)' = Known(held, 0) \cup New(held, output, first, len, 0)
          /\ output'.closed \/ Marked(held)'
                <=> output.closed \/ Marked(held)
                       \/ (last /\ first < Edge(held, output))
          /\ output'.popped = output.popped
      BY <3>1 DEF InsertStep, Inserts
    <3>5. KnownNow' = KnownNow \cup
             {i \in first..(first + len - 1) : i < output.popped + Capacity}
      <4>1. \A i \in first..(first + len - 1) : 0 <= i
        OBVIOUS
      <4> QED BY <3>3, <3>4, <4>1 DEF New, Known, KnownNow
    <3>6. EndKnownNow' <=> EndKnownNow
                              \/ (last /\ first < output.popped + Capacity)
      BY <3>3, <3>4 DEF Marked, EndKnownNow
    <3>7. Abstract!Learn(first, len, last)
      BY <2>1, <3>4, <3>5, <3>6 DEF Abstract!Learn, KnownNow, EndKnownNow
    <3> QED BY <3>1, <3>2, <3>7 DEF Abstract!Next
  <2>3. ASSUME NEW n \in 1..Capacity, ReaderPops(n) PROVE Abstract!Next
    <3>1. /\ held' = held
          /\ output'.popped = output.popped + Smaller(n, Len(output.queue))
          /\ output'.closed = output.closed
      BY <2>3, ReadStepIs
    <3>2. KnownNow' = KnownNow /\ EndKnownNow' = EndKnownNow
      BY <3>1 DEF KnownNow, EndKnownNow
    <3>3. Abstract!ReadBytes(n)
      <4>1. output' = Abstract!Written(KnownNow, EndKnownNow,
                         output.popped
                            + Abstract!Smaller(n, Len(output.queue)))
        BY <2>1, <3>1, <3>2 DEF Smaller, Abstract!Smaller
      <4> QED BY <3>2, <4>1 DEF Abstract!ReadBytes, KnownNow, EndKnownNow
    <3> QED BY <3>3 DEF Abstract!Next
  <2>4. ASSUME UNCHANGED callerVars PROVE UNCHANGED Abstract!vars
    BY <2>4 DEF callerVars, Abstract!vars, Stored, End
  <2> QED BY <2>2, <2>3, <2>4 DEF CallerNext
<1> QED BY <1>2, <1>3, EndsAreTrue, PTL
        DEF CallerSpec, ImplementsReassembly, Abstract!Spec

---------------------------------------------------------------------------
(* The segment lies wholly before the next expected byte: nothing changes.   *)
LEMMA OldKeeps ==
    ASSUME NEW r, NEW s, NEW first, NEW data, NEW mark,
           first + Len(data) < r.byte_ready_
    PROVE  Insert(r, s, first, data, mark) = [re |-> r, output |-> s]
BY DEF Insert

(* The segment lies wholly beyond the window: nothing changes.               *)
LEMMA BeyondKeeps ==
    ASSUME NEW r, NEW s, NEW first, NEW data, NEW mark, first >= Edge(r, s)
    PROVE  Insert(r, s, first, data, mark) = [re |-> r, output |-> s]
BY DEF Insert

(* Nothing without an end mark: nothing changes.                             *)
LEMMA EmptyKeeps ==
    ASSUME NEW r, NEW s, r.byte_ready_ \in Nat, AvailableCapacity(s) \in Nat,
           NEW first \in Nat
    PROVE  Insert(r, s, first, <<>>, FALSE) = [re |-> r, output |-> s]
<1>1. Len(<<>>) = 0
  BY EmptySeq
<1>2. CASE first >= Edge(r, s) \/ first + 0 < r.byte_ready_
  BY <1>1, <1>2 DEF Insert
<1>3. CASE ~(first >= Edge(r, s)) /\ ~(first + 0 < r.byte_ready_)
  <2>1. Edge(r, s) \in Nat
    BY DEF Edge
  <2>2. ClippedEnd(r, s, first + 0) = first /\ Larger(first, r.byte_ready_) = first
    BY <1>3, <2>1 DEF ClippedEnd, Smaller, Larger
  <2>3. WithoutFirst(SubSeq(<<>>, 1, first - first), first - first) = <<>>
    <3>1. first - first = 0
      OBVIOUS
    <3>2. SubSeq(<<>>, 1, 0) = <<>>
      BY EmptySeq, SubSeqProperties
    <3>3. SubSeq(<<>>, 0 + 1, Len(<<>>)) = <<>>
      BY <1>1, <3>2
    <3> QED BY <3>1, <3>2, <3>3 DEF WithoutFirst
  <2>4. Clipped(r, s, first, <<>>, FALSE) = Block(first, <<>>, FALSE)
    BY <1>1, <2>2, <2>3 DEF Clipped
  <2>5. Clipped(r, s, first, <<>>, FALSE).data = <<>>
    <3>1. Block(first, <<>>, FALSE).data = <<>>
      BY DEF Block
    <3> HIDE DEF Block
    <3> QED BY <2>4, <3>1
  <2> QED BY <2>5 DEF Insert
<1> QED BY <1>2, <1>3


---------------------------------------------------------------------------
(* The receiver before the SYN, between SYN and FIN, and after the FIN, when *)
(* isn is the peer's initial sequence number and last the number of its FIN. *)
Listening ==
    /\ SYN_flag = FALSE /\ FIN_flag = FALSE /\ ISN = 0 /\ checkpoint = 0
    /\ re = NewReassembler /\ inbound = NewStream(InboundCapacity)

Open(isn, last) ==
    /\ SYN_flag = TRUE /\ FIN_flag = FALSE /\ ISN = isn
    /\ Holding(re, inbound, 1, last) /\ Written(re, inbound)
    /\ EndsFit(re, inbound, last)
    /\ ~inbound.closed

Ended(isn, last) ==
    /\ SYN_flag = TRUE /\ FIN_flag = TRUE /\ ISN = isn
    /\ inbound \in Streams /\ Len(inbound.queue) <= inbound.capacity
    /\ inbound.queue = Bytes(1 + inbound.popped, Len(inbound.queue))
    /\ inbound.closed = TRUE
    /\ BytesPushed(inbound) = last - 1 /\ re.byte_ready_ = last + 1

Inbound(isn, last) ==
    /\ Listening \/ Open(isn, last) \/ Ended(isn, last)
    /\ inbound.capacity = InboundCapacity /\ inbound.error = FALSE
    /\ checkpoint = BytesPushed(inbound)

(* The numbers it holds, SYN included, and whether it has seen the FIN.      *)
Taken   == IF SYN_flag THEN 0 .. BytesPushed(inbound) \cup Stored(re) ELSE {}
EndSeen == SYN_flag /\ (FIN_flag \/ Marked(re))

LEMMA InboundFacts ==
    ASSUME NEW isn, NEW last \in Nat, Inbound(isn, last)
    PROVE  /\ inbound \in Streams /\ Len(inbound.queue) \in Nat
           /\ inbound.popped \in Nat /\ inbound.queue \in Seq(Nat)
           /\ Len(inbound.queue) <= InboundCapacity /\ InboundCapacity \in Nat
           /\ BytesPushed(inbound) = inbound.popped + Len(inbound.queue)
           /\ BytesPushed(inbound) \in Nat /\ checkpoint \in Nat
           /\ AvailableCapacity(inbound) = InboundCapacity - Len(inbound.queue)
           /\ AvailableCapacity(inbound) \in Nat
           /\ SYN_flag \in BOOLEAN /\ FIN_flag \in BOOLEAN
           /\ FIN_flag => SYN_flag
           /\ re.byte_ready_ = BytesPushed(inbound) + Bit(SYN_flag) + Bit(FIN_flag)
           /\ re.byte_ready_ \in Nat
           /\ inbound.queue = Bytes(1 + inbound.popped, Len(inbound.queue))
           /\ SYN_flag => BytesPushed(inbound) + 1 <= last /\ ISN = isn
           /\ FIN_flag => BytesPushed(inbound) + 1 = last
           /\ Edge(re, inbound) = re.byte_ready_ + AvailableCapacity(inbound)
           /\ inbound.closed <=> FIN_flag
<1>1. InboundCapacity \in Nat /\ inbound.capacity = InboundCapacity
      /\ checkpoint = BytesPushed(inbound)
  BY ReceiverAssumption DEF Inbound
<1> DEFINE Stream == /\ inbound \in Streams /\ Len(inbound.queue) <= inbound.capacity
                     /\ inbound.queue = Bytes(1 + inbound.popped,
                                              Len(inbound.queue))
           Place == /\ SYN_flag \in BOOLEAN /\ FIN_flag \in BOOLEAN
                    /\ FIN_flag => SYN_flag
                    /\ inbound.closed <=> FIN_flag
                    /\ re.byte_ready_
                          = BytesPushed(inbound) + Bit(SYN_flag) + Bit(FIN_flag)
                    /\ SYN_flag => BytesPushed(inbound) + 1 <= last /\ ISN = isn
                    /\ FIN_flag => BytesPushed(inbound) + 1 = last
<1> DEFINE Facts == /\ inbound.queue \in Seq(Nat) /\ inbound.popped \in Nat
                    /\ Len(inbound.queue) \in Nat /\ BytesPushed(inbound) \in Nat
                    /\ BytesPushed(inbound) = inbound.popped + Len(inbound.queue)
<1>2. Stream => Facts
  <2>1. Stream => inbound.queue \in Seq(Nat) /\ inbound.popped \in Nat
    BY DEF Streams
  <2>2. Stream => Len(inbound.queue) \in Nat
    BY <2>1, LenProperties
  <2> QED BY <2>1, <2>2 DEF BytesPushed
<1>3. Stream /\ Place
  <2>1. CASE Listening
    <3>1. inbound = [capacity |-> InboundCapacity, queue |-> <<>>, popped |-> 0,
                     closed |-> FALSE, error |-> FALSE]
          /\ re = [Blocks_ |-> {}, byte_ready_ |-> 0, byte_pend_ |-> 0]
      BY <2>1 DEF Listening, NewStream, NewReassembler
    <3>2. <<>> \in Seq(Nat) /\ Len(<<>>) = 0 /\ Bytes(1 + 0, 0) = <<>>
      <4>1. Bytes(1 + 0, 0) \in Seq(Nat) /\ Len(Bytes(1 + 0, 0)) = 0
        BY BytesFacts
      <4> QED BY <4>1, EmptySeq
    <3>3. inbound \in Streams
      BY <1>1, <3>1, <3>2 DEF Streams
    <3>4. Stream
      BY <1>1, <3>1, <3>2, <3>3
    <3>5. Place
      <4>1. /\ SYN_flag = FALSE /\ FIN_flag = FALSE /\ inbound.closed = FALSE
            /\ re.byte_ready_ = 0 /\ BytesPushed(inbound) = 0 + 0
        BY <2>1, <3>1, <3>2 DEF Listening, BytesPushed
      <4>2. Bit(SYN_flag) = 0 /\ Bit(FIN_flag) = 0
        BY <4>1 DEF Bit
      <4>3. re.byte_ready_
               = BytesPushed(inbound) + Bit(SYN_flag) + Bit(FIN_flag)
        BY <4>1, <4>2
      <4> QED BY <4>1, <4>3
    <3> QED BY <3>4, <3>5
  <2>2. CASE Open(isn, last)
    <3>1. StreamOf(re, inbound, 1, last) /\ ~inbound.closed
          /\ SYN_flag = TRUE /\ FIN_flag = FALSE /\ ISN = isn
      BY <2>2 DEF Open, Holding
    <3>2. Stream /\ re.byte_ready_ = 1 + BytesPushed(inbound)
          /\ re.byte_ready_ <= last
      BY <3>1 DEF StreamOf
    <3>3. Place
      <4>1. BytesPushed(inbound) \in Nat
        BY <1>2, <3>2
      <4>2. Bit(SYN_flag) = 1 /\ Bit(FIN_flag) = 0
        BY <3>1 DEF Bit
      <4>3. re.byte_ready_ = BytesPushed(inbound) + Bit(SYN_flag) + Bit(FIN_flag)
            /\ BytesPushed(inbound) + 1 <= last
        BY <3>1, <3>2, <4>1, <4>2
      <4> QED BY <3>1, <4>3
    <3> QED BY <3>2, <3>3
  <2>3. CASE Ended(isn, last)
    <3>0. Stream
      BY <2>3 DEF Ended
    <3>1. SYN_flag = TRUE /\ FIN_flag = TRUE /\ ISN = isn
          /\ inbound.closed = TRUE /\ BytesPushed(inbound) = last - 1
          /\ re.byte_ready_ = last + 1
      BY <2>3 DEF Ended
    <3>2. BytesPushed(inbound) \in Nat
      BY <1>2, <3>0
    <3>3. Bit(SYN_flag) = 1 /\ Bit(FIN_flag) = 1
      BY <3>1 DEF Bit
    <3>4. /\ re.byte_ready_ = BytesPushed(inbound) + Bit(SYN_flag) + Bit(FIN_flag)
          /\ BytesPushed(inbound) + 1 = last
      BY <3>1, <3>2, <3>3
    <3>5. BytesPushed(inbound) + 1 <= last /\ (inbound.closed <=> FIN_flag)
      BY <3>1, <3>4
    <3> QED BY <3>0, <3>1, <3>4, <3>5
  <2> QED BY <2>1, <2>2, <2>3 DEF Inbound
<1>4. Facts
  BY <1>2, <1>3
<1>5. /\ AvailableCapacity(inbound) = InboundCapacity - Len(inbound.queue)
      /\ AvailableCapacity(inbound) \in Nat
  BY <1>1, <1>3, <1>4 DEF AvailableCapacity
<1>6. re.byte_ready_ \in Nat
  BY <1>3, <1>4 DEF Bit
<1> QED BY <1>1, <1>3, <1>4, <1>5, <1>6 DEF Edge

(* What receive() does with the segment that holds the bytes of the numbers  *)
(* from p (SYN, when p is 0) on, n of them, and possibly the FIN.            *)
Received(p, n, fin, isn, last) ==
    /\ Inbound(isn, last)'
    /\ inbound'.popped = inbound.popped
    /\ BytesPushed(inbound') >= BytesPushed(inbound)
    /\ re'.byte_ready_ >= re.byte_ready_
    /\ SYN_flag' <=> SYN_flag \/ p = 0
    /\ FIN_flag => FIN_flag'
    /\ Taken' \subseteq Taken \cup p .. (Larger(p, 1) + n - 1)
    /\ EndSeen' => EndSeen \/ fin

(* A segment that changes nothing.                                           *)
LEMMA NothingReceived ==
    ASSUME NEW isn, NEW last \in Nat, Inbound(isn, last),
           UNCHANGED receiverVars, NEW p \in Nat, NEW n, NEW fin,
           p = 0 => SYN_flag
    PROVE  Received(p, n, fin, isn, last)
<1>1. Inbound(isn, last)'
  BY DEF receiverVars, Inbound, Listening, Open, Ended
<1>2. /\ inbound' = inbound /\ re' = re /\ SYN_flag' = SYN_flag
      /\ FIN_flag' = FIN_flag
  BY DEF receiverVars
<1>3. BytesPushed(inbound) \in Nat /\ re.byte_ready_ \in Nat
      /\ SYN_flag \in BOOLEAN
  BY InboundFacts
<1>4. Taken' = Taken /\ (EndSeen' <=> EndSeen)
  BY <1>2 DEF Taken, EndSeen
<1> QED BY <1>1, <1>2, <1>3, <1>4 DEF Received

(* A segment received when the insertion changes nothing.                    *)
LEMMA AcceptNothing ==
    ASSUME NEW isn, NEW last \in Nat, Inbound(isn, last), SYN_flag,
           NEW msg, receive(msg),
           Insert(re, inbound, Unwrap(msg.seqno, isn, checkpoint), msg.payload,
                  msg.FIN) = [re |-> re, output |-> inbound]
    PROVE  UNCHANGED receiverVars
<1>1. /\ ISN = isn /\ SYN_flag \in BOOLEAN /\ FIN_flag \in BOOLEAN
      /\ inbound.closed <=> FIN_flag
  BY InboundFacts
<1>2. Accept(msg)
  BY DEF receive, IgnoredBeforeSyn
<1>3. checkpoint = BytesPushed(inbound)
  BY DEF Inbound
<1>4. inbound \in Streams
  BY InboundFacts
<1> DEFINE after == Insert(re, inbound, Unwrap(msg.seqno, isn, checkpoint),
                           msg.payload, msg.FIN)
<1>5. after.re = re /\ after.output = inbound
  OBVIOUS
<1>6. IsClosed(after.output) <=> FIN_flag
  BY <1>1, <1>5 DEF IsClosed
<1>7. /\ ISN' = ISN /\ SYN_flag' = TRUE
      /\ FIN_flag' = (FIN_flag \/ (IsClosed(after.output) /\ ~FIN_flag))
      /\ re' = IF IsClosed(after.output) /\ ~FIN_flag THEN SkipOne(after.re)
               ELSE after.re
      /\ inbound' = after.output
      /\ checkpoint' = BytesPushed(after.output)
  BY <1>1, <1>2 DEF Accept
<1> HIDE DEF after
<1> QED BY <1>1, <1>3, <1>5, <1>6, <1>7 DEF receiverVars

(* A segment without SYN, payload or FIN changes nothing.                    *)
LEMMA ReceiveEmptyIs ==
    ASSUME NEW isn \in Wrap32, NEW last \in Nat, Inbound(isn, last),
           last <= Word \div 2, NEW seqno \in Wrap32,
           receive(Segment(seqno, FALSE, <<>>, FALSE))
    PROVE  UNCHANGED receiverVars
<1> DEFINE msg == Segment(seqno, FALSE, <<>>, FALSE)
           u == Unwrap(msg.seqno, isn, checkpoint)
<1>1. /\ msg.seqno = seqno /\ msg.SYN = FALSE /\ msg.payload = <<>>
      /\ msg.FIN = FALSE
  BY DEF Segment
<1>2. receive(msg)
  OBVIOUS
<1> HIDE DEF msg
<1>3. CASE ~SYN_flag
  BY <1>1, <1>2, <1>3 DEF receive, IgnoredBeforeSyn, Accept
<1>4. CASE SYN_flag
  <2>1. /\ checkpoint \in Nat /\ checkpoint + 1 <= last
        /\ re.byte_ready_ \in Nat /\ AvailableCapacity(inbound) \in Nat
    BY <1>4, InboundFacts DEF Inbound
  <2>2. u \in Nat
    <3>1. checkpoint < Word \div 2
      BY <2>1, HalfLap
    <3> QED BY <1>1, <2>1, <3>1, UnwrapIsNat
  <2> HIDE DEF u
  <2>3. Insert(re, inbound, u, <<>>, FALSE) = [re |-> re, output |-> inbound]
    BY <2>1, <2>2, EmptyKeeps
  <2>4. Insert(re, inbound, Unwrap(msg.seqno, isn, checkpoint), msg.payload,
               msg.FIN) = [re |-> re, output |-> inbound]
    BY <1>1, <2>3 DEF u
  <2> QED BY <1>2, <1>4, <2>4, AcceptNothing
<1> QED BY <1>3, <1>4

(* The first SYN.                                                            *)
LEMMA ReceiveSynIs ==
    ASSUME NEW isn \in Wrap32, NEW last \in Nat \ {0}, Listening,
           last <= Word \div 2, NEW fin \in BOOLEAN, fin => last = 1,
           receive(Segment(Wrap(0, isn), TRUE, <<>>, fin))
    PROVE  Received(0, 0, fin, isn, last)
<1> DEFINE r == NewReassembler
           s == NewStream(InboundCapacity)
           after == Insert(r, s, 0, Bytes(0, 0), fin)
           z == after.re
           o == after.output
<1>1. InboundCapacity \in Nat \ {0} /\ Base \div 2 \in Nat /\ 0 < Base \div 2
      /\ 0 < Word \div 2
  <2>1. last \in Nat /\ last > 0
    OBVIOUS
  <2> QED BY ReceiverAssumption, HalfLap, <2>1
<1>2. Wrap(0, isn) = isn
  BY WrapOfSum
<1>3. Unwrap(isn, isn, 0) = 0
  <2> DEFINE u == Unwrap(Wrap(0, isn), isn, 0)
  <2>1. u = 0 \/ (u \in Nat /\ u + Base = 0 /\ 0 = 0 + Base \div 2)
    BY <1>1, UnwrapNearby
  <2>2. u = 0
    <3> HIDE DEF u
    <3> QED BY <2>1, <1>1
  <2> QED BY <1>2, <2>2
<1>4. Bytes(0, 0) = <<>>
  <2>1. Bytes(0, 0) \in Seq(Nat) /\ Len(Bytes(0, 0)) = 0
    BY BytesFacts
  <2> QED BY <2>1, EmptySeq
<1>5. /\ Holding(r, s, 0, 0) /\ Written(r, s) /\ EndsFit(r, s, 0)
      /\ Known(r, 0) = {} /\ ~Marked(r)
      /\ r.Blocks_ = {} /\ r.byte_ready_ = 0 /\ Stored(r) = {}
      /\ s.capacity = InboundCapacity /\ s.popped = 0 /\ Len(s.queue) = 0
      /\ s.closed = FALSE /\ s.error = FALSE
  BY <1>1, NothingHeld
<1>6. Edge(r, s) = InboundCapacity
  BY <1>1, <1>5 DEF Edge, AvailableCapacity
<1>7. Inserts(after, r, s, 0, 0, fin, 0, 0)
  BY <1>5, InsertIs
<1> HIDE DEF r, s
<1>8. /\ SYN_flag' = TRUE /\ ISN' = isn
      /\ FIN_flag' = IsClosed(o)
      /\ re' = IF IsClosed(o) THEN SkipOne(SkipOne(z)) ELSE SkipOne(z)
      /\ inbound' = o
      /\ checkpoint' = BytesPushed(o)
  <2> DEFINE msg == Segment(Wrap(0, isn), TRUE, <<>>, fin)
  <2>1. /\ msg.seqno = isn /\ msg.SYN = TRUE /\ msg.payload = <<>>
        /\ msg.FIN = fin
    BY <1>2 DEF Segment
  <2>2. receive(msg)
    OBVIOUS
  <2> HIDE DEF msg
  <2>3. SYN_flag = FALSE /\ FIN_flag = FALSE /\ checkpoint = 0 /\ re = r
        /\ inbound = s
    BY DEF Listening, r, s
  <2>4. Accept(msg)
    BY <2>1, <2>2, <2>3 DEF receive, IgnoredBeforeSyn
  <2>5. Insert(re, inbound, Unwrap(msg.seqno, msg.seqno, checkpoint),
               msg.payload, msg.FIN) = after
    BY <1>3, <1>4, <2>1, <2>3
  <2> HIDE DEF after
  <2>6. /\ ISN' = msg.seqno /\ SYN_flag' = TRUE
        /\ FIN_flag' = (FALSE \/ (IsClosed(after.output) /\ ~FALSE))
        /\ re' = IF IsClosed(after.output) /\ ~FALSE
                 THEN SkipOne(SkipOne(after.re)) ELSE SkipOne(after.re)
        /\ inbound' = after.output
        /\ checkpoint' = BytesPushed(after.output)
    BY <2>3, <2>4, <2>5 DEF Accept
  <2>7. IsClosed(after.output) \in BOOLEAN
    <3>1. o \in Streams
      BY <1>7 DEF Inserts, Holding, StreamOf
    <3> QED BY <3>1 DEF Streams, IsClosed
  <2> QED BY <2>1, <2>6, <2>7
<1>9. /\ Holding(z, o, 0, 0) /\ Written(z, o) /\ EndsFit(z, o, 0)
      /\ o.popped = 0 /\ o.capacity = InboundCapacity /\ o.error = FALSE
      /\ Known(z, 0) = {}
      /\ o.closed \/ Marked(z) <=> fin
  <2>1. New(r, s, 0, 0, 0) = {}
    <3>1. 0 .. (0 + 0 - 1) = {}
      OBVIOUS
    <3> QED BY <3>1 DEF New
  <2> HIDE DEF after
  <2>2. /\ Holding(z, o, 0, 0) /\ Written(z, o)
        /\ o.popped = 0 /\ o.capacity = InboundCapacity /\ o.error = FALSE
        /\ Known(z, 0) = {}
    BY <1>5, <1>7, <2>1 DEF Inserts
  <2>3. o.closed \/ Marked(z) <=> (fin /\ 0 < Edge(r, s))
    BY <1>5, <1>7 DEF Inserts
  <2>4. EndsFit(z, o, 0)
    BY <1>1, <1>5, <1>6, <1>7 DEF Inserts
  <2> QED BY <1>1, <1>6, <2>2, <2>3, <2>4
<1> HIDE DEF after
<1>10. /\ o \in Streams /\ Len(o.queue) = 0 /\ o.queue = <<>>
       /\ z.byte_ready_ = 0 /\ BytesPushed(o) = 0 /\ o.closed \in BOOLEAN
       /\ z \in Members(0) /\ BlocksOf(z, Edge(z, o))
       /\ z.byte_pend_ = Cardinality(Stored(z))
  <2>1. /\ z \in Members(0) /\ StreamOf(z, o, 0, 0) /\ BlocksOf(z, Edge(z, o))
        /\ z.byte_pend_ = Cardinality(Stored(z))
    BY <1>9 DEF Holding
  <2>2. /\ z.byte_ready_ \in Nat /\ Len(o.queue) \in Nat
        /\ o.queue \in Seq(Nat)
        /\ z.byte_ready_ = 0 + o.popped + Len(o.queue)
    BY <2>1, HoldingFacts
  <2>3. z.byte_ready_ <= 0 /\ o \in Streams /\ z.byte_ready_ = 0 + BytesPushed(o)
    BY <2>1 DEF StreamOf
  <2>4. Len(o.queue) = 0 /\ z.byte_ready_ = 0
    BY <1>9, <2>2, <2>3
  <2>5. o.queue = <<>>
    BY <2>2, <2>4, EmptySeq
  <2>6. BytesPushed(o) = 0
    BY <1>9, <2>4 DEF BytesPushed
  <2> QED BY <2>1, <2>3, <2>4, <2>5, <2>6 DEF Streams
<1>11. Stored(z) = {}
  BY <1>9 DEF Known
<1>12. ~o.closed => z.Blocks_ = {}
  <2> SUFFICES ASSUME ~o.closed, NEW b \in z.Blocks_ PROVE FALSE
    OBVIOUS
  <2>1. b \in Pieces(0) /\ z.byte_ready_ < b.begin
    BY <1>9, <1>10 DEF Members, Written
  <2>2. b.begin \in Nat /\ b.begin <= End(b) /\ End(b) <= 0 /\ End(b) \in Nat
    BY <2>1, PieceFacts
  <2> QED BY <1>10, <2>1, <2>2
<1>13. o.closed <=> fin
  BY <1>9, <1>12 DEF Marked
<1>14. Bytes(1 + 0, 0) = <<>>
  <2>1. 1 \in Nat /\ 0 \in Nat /\ 1 + 0 = 1
    OBVIOUS
  <2>2. Bytes(1, 0) \in Seq(Nat) /\ Len(Bytes(1, 0)) = 0
    BY <2>1, BytesFacts
  <2> QED BY <2>1, <2>2, EmptySeq
<1> HIDE DEF z, o
<1>15. ASSUME ~fin
       PROVE  Inbound(isn, last)' /\ ~EndSeen' /\ Stored(re') = {}
              /\ re'.byte_ready_ = 1
  <2>1. re' = SkipOne(z) /\ FIN_flag' = FALSE /\ inbound' = o
    BY <1>8, <1>10, <1>13, <1>15 DEF IsClosed
  <2>2. /\ re'.byte_ready_ = 1 /\ re'.Blocks_ = {} /\ re'.byte_pend_ = z.byte_pend_
        /\ re' \in Members(last)
    BY <1>10, <1>12, <1>13, <1>15, <2>1 DEF SkipOne, Members
  <2>3. StreamOf(re', inbound', 1, last)
    BY <1>1, <1>9, <1>10, <1>14, <2>1, <2>2 DEF StreamOf
  <2>4. BlocksOf(re', Edge(re', inbound'))
    BY <2>2, FS_EmptySet DEF BlocksOf, Apart, Separate
  <2>5. Stored(re') = {}
    BY <2>2 DEF Stored
  <2>6. re'.byte_pend_ = Cardinality(Stored(re'))
    BY <1>10, <1>11, <2>2, <2>5
  <2>7. Open(isn, last)'
    BY <1>8, <1>13, <1>15, <2>1, <2>2, <2>3, <2>4, <2>6
       DEF Open, Holding, Written, EndsFit, MarkedAtEnd
  <2>8. Inbound(isn, last)'
    BY <1>8, <1>9, <2>1, <2>7 DEF Inbound
  <2>9. ~EndSeen'
    BY <2>1, <2>2 DEF EndSeen, Marked
  <2> QED BY <2>2, <2>5, <2>8, <2>9
<1>16. ASSUME fin
       PROVE  Inbound(isn, last)' /\ Stored(re') = {} /\ re'.byte_ready_ = 2
  <2>1. re' = SkipOne(SkipOne(z)) /\ FIN_flag' = TRUE /\ inbound' = o
    BY <1>8, <1>10, <1>13, <1>16 DEF IsClosed
  <2>2. re'.byte_ready_ = 2 /\ re'.Blocks_ = z.Blocks_
    BY <1>10, <2>1 DEF SkipOne, Members
  <2>3. Stored(re') = {}
    BY <1>11, <2>2 DEF Stored
  <2>4. last = 1
    BY <1>16
  <2>5. Ended(isn, last)'
    <3>1. /\ inbound' \in Streams /\ Len(inbound'.queue) <= inbound'.capacity
          /\ inbound'.queue = Bytes(1 + inbound'.popped, Len(inbound'.queue))
          /\ inbound'.closed = TRUE
      BY <1>1, <1>9, <1>10, <1>13, <1>14, <1>16, <2>1
    <3>2. BytesPushed(inbound') = last - 1 /\ re'.byte_ready_ = last + 1
      BY <1>10, <2>1, <2>2, <2>4
    <3> QED BY <1>8, <2>1, <3>1, <3>2 DEF Ended
  <2>6. Inbound(isn, last)'
    BY <1>8, <1>9, <2>1, <2>5 DEF Inbound
  <2> QED BY <2>2, <2>3, <2>6
<1>17. /\ inbound.popped = 0 /\ BytesPushed(inbound) = 0 /\ re.byte_ready_ = 0
       /\ SYN_flag = FALSE /\ FIN_flag = FALSE
  BY <1>5 DEF Listening, r, s, BytesPushed
<1>18. Taken' = 0..0
  BY <1>8, <1>10, <1>15, <1>16 DEF Taken
<1>19. Larger(0, 1) + 0 - 1 = 0
  BY DEF Larger
<1>20. re'.byte_ready_ >= 0
  BY <1>15, <1>16
<1> QED BY <1>8, <1>9, <1>10, <1>15, <1>16, <1>17, <1>18, <1>19, <1>20 DEF Received

(* unwrap() finds the segment's place, or one wholly before the next         *)
(* expected byte.                                                            *)
Placed(p, n, isn) ==
    LET u == Unwrap(Wrap(p, isn), isn, checkpoint)
    IN  u = p \/ (u \in Nat /\ u + n < re.byte_ready_)

(* A segment between SYN and FIN.                                            *)
LEMMA ReceiveOpenIs ==
    ASSUME NEW isn \in Wrap32, NEW last \in Nat, Inbound(isn, last),
           Open(isn, last),
           NEW p \in Nat \ {0}, NEW n \in Nat, p + n <= last,
           NEW fin \in BOOLEAN,
           fin => p + n = last /\ last <= Edge(re, inbound),
           NEW SYN \in BOOLEAN,
           receive(Segment(Wrap(p, isn), SYN, Bytes(p, n), fin)),
           Unwrap(Wrap(p, isn), isn, checkpoint) = p
    PROVE  Received(p, n, fin, isn, last)
<1> DEFINE after == Insert(re, inbound, p, Bytes(p, n), fin)
           z == after.re
           o == after.output
<1>1. /\ Holding(re, inbound, 1, last) /\ Written(re, inbound)
      /\ EndsFit(re, inbound, last) /\ inbound.closed = FALSE
      /\ SYN_flag = TRUE /\ FIN_flag = FALSE /\ ISN = isn
      /\ inbound.capacity = InboundCapacity /\ inbound.error = FALSE
  <2>1. inbound \in Streams
    BY InboundFacts
  <2> QED BY <2>1 DEF Open, Inbound, Streams
<1>2. p \in Nat /\ 1 \in Nat /\ p >= 1
  OBVIOUS
<1>3. Inserts(after, re, inbound, p, n, fin, 1, last)
  BY <1>1, <1>2, InsertIs
<1>4. /\ SYN_flag' = TRUE /\ ISN' = isn
      /\ FIN_flag' = IsClosed(o)
      /\ re' = IF IsClosed(o) THEN SkipOne(z) ELSE z
      /\ inbound' = o
      /\ checkpoint' = BytesPushed(o)
  <2> DEFINE msg == Segment(Wrap(p, isn), SYN, Bytes(p, n), fin)
  <2>1. /\ msg.seqno = Wrap(p, isn) /\ msg.payload = Bytes(p, n)
        /\ msg.FIN = fin
    BY DEF Segment
  <2>2. receive(msg)
    OBVIOUS
  <2> HIDE DEF msg
  <2>4. Accept(msg)
    BY <1>1, <2>2 DEF receive, IgnoredBeforeSyn
  <2>5. Insert(re, inbound, Unwrap(msg.seqno, isn, checkpoint),
               msg.payload, msg.FIN) = after
    BY <2>1
  <2> HIDE DEF after
  <2>6. /\ ISN' = isn /\ SYN_flag' = TRUE
        /\ FIN_flag' = (FALSE \/ (IsClosed(after.output) /\ ~FALSE))
        /\ re' = IF IsClosed(after.output) /\ ~FALSE
                 THEN SkipOne(after.re) ELSE after.re
        /\ inbound' = after.output
        /\ checkpoint' = BytesPushed(after.output)
    BY <1>1, <2>4, <2>5 DEF Accept
  <2>7. IsClosed(after.output) \in BOOLEAN
    <3>1. o \in Streams
      BY <1>3 DEF Inserts, Holding, StreamOf
    <3> QED BY <3>1 DEF Streams, IsClosed
  <2> QED BY <2>1, <2>6, <2>7
<1> HIDE DEF after
<1>5. /\ Holding(z, o, 1, last) /\ Written(z, o) /\ EndsFit(z, o, last)
      /\ o.popped = inbound.popped /\ o.capacity = InboundCapacity
      /\ o.error = FALSE
      /\ Known(z, 1) = Known(re, 1) \cup New(re, inbound, p, n, 1)
      /\ o.closed \/ Marked(z) => Marked(re) \/ fin
  BY <1>1, <1>3 DEF Inserts
<1>6. /\ z \in Members(last) /\ StreamOf(z, o, 1, last)
      /\ BlocksOf(z, Edge(z, o))
  BY <1>5 DEF Holding
<1>7. /\ z.byte_ready_ \in Nat /\ Len(o.queue) \in Nat /\ o.popped \in Nat
      /\ z.byte_ready_ = 1 + BytesPushed(o) /\ BytesPushed(o) \in Nat
      /\ z.byte_ready_ <= last /\ o \in Streams /\ o.closed \in BOOLEAN
      /\ Len(o.queue) <= o.capacity
      /\ o.queue = Bytes(1 + o.popped, Len(o.queue))
  <2>1. /\ z.byte_ready_ \in Nat /\ Len(o.queue) \in Nat /\ o.popped \in Nat
    BY <1>6, HoldingFacts
  <2>2. /\ z.byte_ready_ = 1 + BytesPushed(o) /\ z.byte_ready_ <= last
        /\ o \in Streams /\ o.closed \in BOOLEAN /\ Len(o.queue) <= o.capacity
        /\ o.queue = Bytes(1 + o.popped, Len(o.queue))
    BY <1>6 DEF StreamOf, Streams
  <2>3. BytesPushed(o) \in Nat
    BY <2>1 DEF BytesPushed
  <2> QED BY <2>1, <2>2, <2>3
<1>8. /\ re.byte_ready_ \in Nat /\ BytesPushed(inbound) \in Nat
      /\ re.byte_ready_ = 1 + BytesPushed(inbound)
      /\ re.byte_ready_ <= last
  <2>1. re.byte_ready_ = 1 + BytesPushed(inbound) /\ re.byte_ready_ <= last
    BY <1>1 DEF Holding, StreamOf
  <2> QED BY <2>1, InboundFacts
<1>9. z.byte_ready_ >= re.byte_ready_
  <2>1. CASE o.closed
    BY <1>5, <1>8, <2>1 DEF EndsFit
  <2>2. CASE ~o.closed
    <3> SUFFICES ASSUME z.byte_ready_ < re.byte_ready_ PROVE FALSE
      BY <1>7, <1>8
    <3>1. z.byte_ready_ \in 1 .. (re.byte_ready_ - 1)
      BY <1>7, <1>8
    <3>2. z.byte_ready_ \in Known(z, 1)
      BY <1>5, <3>1 DEF Known
    <3>3. z.byte_ready_ \in Stored(z)
      BY <1>7, <3>2 DEF Known
    <3>4. PICK b \in z.Blocks_ : z.byte_ready_ \in b.begin .. (End(b) - 1)
      BY <3>3 DEF Stored
    <3>5. z.byte_ready_ < b.begin /\ b.begin \in Nat /\ End(b) \in Nat
      BY <1>5, <1>6, <2>2, PieceFacts DEF Written, Members
    <3> QED BY <1>7, <3>4, <3>5
  <2> QED BY <1>7, <2>1, <2>2
<1>10. o.closed => z.byte_ready_ = last
  BY <1>5 DEF EndsFit
<1> HIDE DEF z, o
<1>11. Inbound(isn, last)' /\ re'.byte_ready_ >= re.byte_ready_
       /\ Stored(re') = Stored(z) /\ (FIN_flag' \/ Marked(re') => Marked(re) \/ fin)
  <2>1. CASE o.closed
    <3>1. re' = SkipOne(z) /\ FIN_flag' = TRUE /\ inbound' = o
      BY <1>4, <1>7, <2>1 DEF IsClosed
    <3>2. re'.byte_ready_ = last + 1 /\ re'.Blocks_ = z.Blocks_
      BY <1>6, <1>10, <2>1, <3>1 DEF SkipOne, Members
    <3>3. BytesPushed(o) = last - 1
      BY <1>7, <1>10, <2>1
    <3>4. Ended(isn, last)'
      BY <1>4, <1>7, <2>1, <3>1, <3>2, <3>3 DEF Ended
    <3>5. Stored(re') = Stored(z) /\ re'.byte_ready_ >= re.byte_ready_
      BY <1>8, <3>2 DEF Stored
    <3> QED BY <1>4, <1>5, <2>1, <3>1, <3>4, <3>5 DEF Inbound
  <2>2. CASE ~o.closed
    <3>1. re' = z /\ FIN_flag' = FALSE /\ inbound' = o
      BY <1>4, <1>7, <2>2 DEF IsClosed
    <3>2. Open(isn, last)'
      BY <1>4, <1>5, <2>2, <3>1 DEF Open
    <3> QED BY <1>4, <1>5, <1>9, <3>1, <3>2 DEF Inbound
  <2> QED BY <2>1, <2>2
<1>12. Taken' \subseteq Taken \cup p .. (p + n - 1)
  <2>1. Taken' = 0 .. BytesPushed(o) \cup Stored(z)
    BY <1>4, <1>11 DEF Taken
  <2>2. Taken = 0 .. BytesPushed(inbound) \cup Stored(re)
    BY <1>1 DEF Taken
  <2>3. New(re, inbound, p, n, 1) \subseteq p .. (p + n - 1)
    BY DEF New
  <2>4. Known(z, 1) = 1 .. BytesPushed(o) \cup Stored(z)
    BY <1>7 DEF Known
  <2>5. Known(re, 1) = 1 .. BytesPushed(inbound) \cup Stored(re)
    BY <1>8 DEF Known
  <2>6. 0 .. BytesPushed(o) = {0} \cup 1 .. BytesPushed(o)
        /\ 0 .. BytesPushed(inbound) = {0} \cup 1 .. BytesPushed(inbound)
    BY <1>7, <1>8
  <2> QED BY <1>5, <2>1, <2>2, <2>3, <2>4, <2>5, <2>6
<1>13. Larger(p, 1) = p
  BY DEF Larger
<1>14. BytesPushed(inbound') >= BytesPushed(inbound)
  BY <1>4, <1>7, <1>8, <1>9
<1>15. EndSeen' => EndSeen \/ fin
  BY <1>1, <1>11 DEF EndSeen
<1> QED BY <1>1, <1>4, <1>5, <1>11, <1>12, <1>13, <1>14, <1>15 DEF Received

(* The numbers of the segment and its place decide what receive() does.      *)
LEMMA ReceiveIs ==
    ASSUME NEW isn \in Wrap32, NEW last \in Nat \ {0}, Inbound(isn, last),
           last <= Word \div 2,
           NEW p \in Nat, NEW n \in Nat, p = 0 => n = 0,
           Larger(p, 1) + n <= last, NEW fin \in BOOLEAN,
           fin => /\ Larger(p, 1) + n = last
                  /\ last <= Edge(re, inbound) \/ n = 0,
           receive(Segment(Wrap(p, isn), p = 0, Bytes(Larger(p, 1), n), fin)),
           SYN_flag => Placed(p, n, isn)
    PROVE  Received(p, n, fin, isn, last)
<1> DEFINE data == Bytes(Larger(p, 1), n)
           msg == Segment(Wrap(p, isn), p = 0, data, fin)
           u == Unwrap(Wrap(p, isn), isn, checkpoint)
<1>1. /\ msg.seqno = Wrap(p, isn) /\ msg.SYN = (p = 0) /\ msg.payload = data
      /\ msg.FIN = fin
  BY DEF Segment
<1>2. receive(msg)
  OBVIOUS
<1>3. Larger(p, 1) \in Nat /\ (p # 0 => Larger(p, 1) = p)
      /\ (p = 0 => Larger(p, 1) = 1)
  BY DEF Larger
<1>4. Len(data) = n /\ (n = 0 => data = <<>>)
  <2> DEFINE a == Larger(p, 1)
  <2>1. Bytes(a, n) \in Seq(Nat) /\ Len(Bytes(a, n)) = n
    <3> HIDE DEF a
    <3>1. a \in Nat
      BY <1>3 DEF a
    <3> QED BY <3>1, BytesFacts
  <2> QED BY <2>1, EmptySeq
<1> HIDE DEF msg, data
<1>5. CASE Listening
  <2>0. SYN_flag = FALSE
    BY <1>5 DEF Listening
  <2>1. CASE p = 0
    <3>1. msg = Segment(Wrap(0, isn), TRUE, <<>>, fin)
      BY <1>4, <2>1 DEF msg
    <3>2. fin => last = 1
      BY <1>3, <2>1
    <3>3. n = 0 /\ Received(0, 0, fin, isn, last)
      BY <1>2, <1>5, <2>1, <3>1, <3>2, ReceiveSynIs
    <3> QED BY <2>1, <3>3
  <2>2. CASE p # 0
    <3>1. UNCHANGED receiverVars
      BY <1>1, <1>2, <2>0, <2>2 DEF receive, IgnoredBeforeSyn, Accept
    <3> QED BY <2>2, <3>1, NothingReceived
  <2> QED BY <2>1, <2>2
<1>6. CASE ~Listening
  <2>1. SYN_flag /\ (Open(isn, last) \/ Ended(isn, last))
    BY <1>6 DEF Inbound, Open, Ended
  <2>2. re.byte_ready_ \in Nat /\ re.byte_ready_ >= 1
        /\ (Ended(isn, last) => re.byte_ready_ = last + 1)
    <3>1. re.byte_ready_ = BytesPushed(inbound) + Bit(SYN_flag) + Bit(FIN_flag)
          /\ BytesPushed(inbound) \in Nat /\ FIN_flag \in BOOLEAN
          /\ re.byte_ready_ \in Nat
      BY InboundFacts
    <3>2. Bit(SYN_flag) = 1 /\ Bit(FIN_flag) \in {0, 1}
      BY <2>1, <3>1 DEF Bit
    <3> QED BY <3>1, <3>2 DEF Ended
  <2>3. ASSUME u + n < re.byte_ready_ PROVE Received(p, n, fin, isn, last)
    <3>1. Insert(re, inbound, Unwrap(msg.seqno, isn, checkpoint), msg.payload,
                 msg.FIN) = [re |-> re, output |-> inbound]
      BY <1>1, <1>4, <2>3, OldKeeps
    <3>2. UNCHANGED receiverVars
      BY <1>2, <2>1, <3>1, AcceptNothing
    <3> QED BY <2>1, <3>2, NothingReceived
  <2>4. u = p \/ u + n < re.byte_ready_
    BY <2>1 DEF Placed
  <2>5. CASE u = p /\ ~(p + n < re.byte_ready_)
    <3>1. p # 0 /\ p + n <= last
      BY <1>3, <2>2, <2>5
    <3>2. Open(isn, last)
      BY <2>1, <2>2, <2>5, <3>1
    <3>3. receive(Segment(Wrap(p, isn), p = 0, Bytes(p, n), fin))
          /\ (fin => p + n = last) /\ (p = 0) \in BOOLEAN
      BY <1>2, <1>3, <3>1 DEF msg, data
    <3>4. CASE fin => last <= Edge(re, inbound)
      BY <2>5, <3>1, <3>2, <3>3, <3>4, ReceiveOpenIs
    <3>5. CASE fin /\ ~(last <= Edge(re, inbound))
      <4>1. Edge(re, inbound) \in Nat
        BY InboundFacts
      <4>2. p = last /\ p >= Edge(re, inbound)
        BY <1>3, <3>1, <3>5, <4>1
      <4>3. Insert(re, inbound, Unwrap(msg.seqno, isn, checkpoint), msg.payload,
                   msg.FIN) = [re |-> re, output |-> inbound]
        BY <1>1, <2>5, <4>2, BeyondKeeps
      <4>4. UNCHANGED receiverVars
        BY <1>2, <2>1, <4>3, AcceptNothing
      <4> QED BY <2>1, <4>4, NothingReceived
    <3> QED BY <3>4, <3>5
  <2> QED BY <2>3, <2>4, <2>5
<1> QED BY <1>5, <1>6

(* Until the end has been seen, it may lie further on.                       *)
LEMMA EndMayBeLater ==
    ASSUME NEW isn, NEW last \in Nat, Inbound(isn, last), NEW later \in Nat,
           last <= later, EndSeen => later = last
    PROVE  Inbound(isn, later)
<1>1. ASSUME Open(isn, last), ~Marked(re) PROVE Open(isn, later)
  <2>1. /\ re \in Members(last) /\ StreamOf(re, inbound, 1, last)
        /\ BlocksOf(re, Edge(re, inbound))
        /\ re.byte_pend_ = Cardinality(Stored(re))
    BY <1>1 DEF Open, Holding
  <2>2. re \in Members(later)
    <3>1. \A b \in Pieces(last) : b \in Pieces(later)
      <4> SUFFICES ASSUME NEW b \in Pieces(last) PROVE b \in Pieces(later)
        OBVIOUS
      <4>1. End(b) \in Nat /\ End(b) <= last
        BY PieceFacts
      <4>2. End(b) <= later
        BY <4>1
      <4> QED BY <4>2 DEF Pieces
    <3> QED BY <2>1, <3>1 DEF Members
  <2>3. StreamOf(re, inbound, 1, later)
    <3>1. re.byte_ready_ \in Nat
      BY <2>1 DEF Members
    <3>2. re.byte_ready_ <= later
      BY <2>1, <3>1 DEF StreamOf
    <3> QED BY <2>1, <3>2 DEF StreamOf
  <2>4. EndsFit(re, inbound, later)
    BY <1>1 DEF Open, EndsFit, MarkedAtEnd, Marked
  <2> QED BY <1>1, <2>1, <2>2, <2>3, <2>4 DEF Open, Holding
<1>2. CASE later = last
  BY <1>2
<1>3. CASE later # last
  <2>1. ~EndSeen
    BY <1>3
  <2>2. Listening \/ (Open(isn, last) /\ ~Marked(re))
    BY <2>1 DEF Inbound, EndSeen, Open, Ended
  <2> QED BY <1>1, <2>2 DEF Inbound
<1> QED BY <1>2, <1>3

(* The reader takes bytes.                                                   *)
LEMMA ReadIs ==
    ASSUME NEW isn, NEW last \in Nat, Inbound(isn, last),
           NEW n \in Nat, ReadInbound(n)
    PROVE  /\ Inbound(isn, last)'
           /\ inbound'.popped = inbound.popped + Smaller(n, Len(inbound.queue))
           /\ BytesPushed(inbound') = BytesPushed(inbound)
           /\ re' = re /\ SYN_flag' = SYN_flag /\ FIN_flag' = FIN_flag
           /\ Taken' = Taken /\ (EndSeen' <=> EndSeen)
<1> DEFINE k == Smaller(n, Len(inbound.queue))
           t == Pop(inbound, n)
<1>1. /\ inbound' = t /\ inbound.queue # <<>>
      /\ UNCHANGED <<ISN, SYN_flag, FIN_flag, checkpoint, re>>
  BY DEF ReadInbound
<1>2. /\ inbound \in Streams /\ Len(inbound.queue) \in Nat
      /\ inbound.popped \in Nat /\ inbound.queue \in Seq(Nat)
      /\ Len(inbound.queue) <= InboundCapacity /\ InboundCapacity \in Nat
      /\ inbound.queue = Bytes(1 + inbound.popped, Len(inbound.queue))
      /\ inbound.capacity = InboundCapacity /\ inbound.error = FALSE
      /\ checkpoint = BytesPushed(inbound)
  BY InboundFacts DEF Inbound
<1>3. k \in 0 .. Len(inbound.queue)
  BY <1>2 DEF Smaller
<1>4. /\ t = [inbound EXCEPT
              !.queue = SubSeq(inbound.queue, k + 1, Len(inbound.queue)),
              !.popped = inbound.popped + k]
  BY DEF Pop
<1> DEFINE q == SubSeq(inbound.queue, k + 1, Len(inbound.queue))
<1>5. q \in Seq(Nat) /\ Len(q) = Len(inbound.queue) - k
      /\ q = Bytes(1 + inbound.popped + k, Len(inbound.queue) - k)
  <2> DEFINE i == 1 + inbound.popped
             m == Len(inbound.queue)
  <2>1. i \in Nat /\ m \in Nat /\ k \in Nat /\ m \in k..m /\ k \in 0..m
    BY <1>2, <1>3
  <2>2. inbound.queue = Bytes(i, m)
    BY <1>2
  <2> HIDE DEF i, m, k
  <2>3. SubSeq(Bytes(i, m), k + 1, m) = Bytes(i + k, m - k)
    BY <2>1, PartOfBytes DEF IsPart
  <2>4. Bytes(i + k, m - k) \in Seq(Nat) /\ Len(Bytes(i + k, m - k)) = m - k
    <3>1. i + k \in Nat /\ m - k \in Nat
      BY <2>1
    <3> QED BY <3>1, BytesFacts
  <2> QED BY <2>2, <2>3, <2>4 DEF i, m
<1> HIDE DEF q, k
<1>6. /\ t \in Streams /\ t.queue = q /\ t.popped = inbound.popped + k
      /\ t.capacity = inbound.capacity /\ t.closed = inbound.closed
      /\ t.error = inbound.error
  <2>1. t = [inbound EXCEPT !.queue = q, !.popped = inbound.popped + k]
    BY <1>4 DEF q
  <2> HIDE DEF t
  <2>2. inbound.popped + k \in Nat
    BY <1>2, <1>3
  <2> QED BY <1>2, <1>5, <2>1, <2>2 DEF Streams
<1> HIDE DEF t
<1>7. BytesPushed(t) = BytesPushed(inbound)
  BY <1>2, <1>3, <1>5, <1>6 DEF BytesPushed
<1>8. Taken' = Taken /\ (EndSeen' <=> EndSeen)
  BY <1>1, <1>7 DEF Taken, EndSeen
<1>9. ~Listening
  <2>1. Listening => inbound.queue = <<>>
    BY DEF Listening, NewStream
  <2> QED BY <1>1, <2>1
<1>10. CASE Open(isn, last)
  <2>1. Holding(re, t, 1, last)
    <3>1. Holding(re, inbound, 1, last) /\ 1 \in Nat
      BY <1>10 DEF Open
    <3> QED BY <3>1, PopIs DEF t
  <2>2. Open(isn, last)'
    BY <1>1, <1>6, <1>10, <2>1 DEF Open, Written, EndsFit
  <2> QED BY <1>1, <1>2, <1>6, <1>7, <1>8, <2>2 DEF Inbound, k
<1>11. CASE Ended(isn, last)
  <2>1. t.queue = Bytes(1 + t.popped, Len(t.queue)) /\ Len(t.queue) <= t.capacity
    <3>1. 1 + inbound.popped + k = 1 + (inbound.popped + k)
      BY <1>2, <1>3
    <3>2. Len(t.queue) <= t.capacity
      BY <1>2, <1>3, <1>5, <1>6
    <3> QED BY <1>5, <1>6, <3>1, <3>2
  <2>2. Ended(isn, last)'
    BY <1>1, <1>6, <1>7, <1>11, <2>1 DEF Ended
  <2> QED BY <1>1, <1>2, <1>6, <1>7, <1>8, <2>2 DEF Inbound, k
<1> QED BY <1>9, <1>10, <1>11 DEF Inbound

---------------------------------------------------------------------------
(* A peer that sends no payload with its SYN, no more than 2^63 bytes and no *)
(* segment longer than half a lap of sequence numbers.                       *)
PlainPeer ==
    ~SynCarriesData /\ StreamLen < Word \div 2 /\ MaxLen <= Base \div 2

(* The invariant of a receiver that faces one: it is in one of the three     *)
(* conditions, what it holds has arrived, and it knows of the FIN only when  *)
(* the FIN has arrived.                                                      *)
IInv ==
    /\ peerISN \in PeerISNs
    /\ Inbound(peerISN, FinNo)
    /\ Taken \subseteq got
    /\ EndSeen => FinNo \in got

(* A segment of the peer.                                                    *)
LEMMA DeliverIs ==
    ASSUME PlainPeer, IInv, NEW lo \in 0..FinNo, NEW hi \in 0..FinNo,
           lo <= hi, Deliver(lo, hi)
    PROVE  /\ IInv' /\ peerISN' = peerISN
           /\ \E n \in Nat, fin \in BOOLEAN : Received(lo, n, fin, peerISN, FinNo)
<1> DEFINE len == Smaller(hi, StreamLen) - Larger(lo, 1) + 1
           fin == hi = FinNo
           data == Bytes(Larger(lo, 1), len)
           msg == Segment(Wrap(lo, peerISN), lo = 0, data, fin)
<1>1. /\ StreamLen \in Nat /\ StreamLen < Word \div 2
      /\ MaxLen \in Nat /\ MaxLen <= Base \div 2 /\ peerISN \in Wrap32
      /\ FinNo = StreamLen + 1
      /\ Base \in Nat \ {0} /\ Base \div 2 \in Nat
      /\ 2 * (Base \div 2) = Base /\ Word \div 2 \in Nat
  BY PeerAssumption, StreamAssumption, HalfLap DEF IInv, FinNo, PlainPeer
<1>2. SegmentOf(lo, hi) = msg
  BY DEF SegmentOf, Bytes
<1>3. len \in Nat /\ Larger(lo, 1) + len = Smaller(hi, StreamLen) + 1
      /\ Larger(lo, 1) \in Nat /\ Larger(lo, 1) >= lo
  BY <1>1 DEF Smaller, Larger
<1>4. Len(data) = len
  <2> DEFINE a == Larger(lo, 1)
  <2> HIDE DEF a, len
  <2>1. a \in Nat /\ len \in Nat
    BY <1>3 DEF a
  <2> QED BY <2>1, BytesFacts DEF a
<1>5. /\ msg.payload = data /\ msg.SYN = (lo = 0) /\ msg.FIN = fin
  BY DEF Segment
<1>6. /\ receive(msg) /\ peerISN' = peerISN
      /\ got' = IF SYN_flag \/ lo = 0 THEN got \cup lo..hi ELSE got
  BY <1>2 DEF Deliver
<1>7. /\ Len(data) <= MaxLen
      /\ lo = 0 => data = <<>>
      /\ fin => hi <= re.byte_ready_ + AvailableCapacity(inbound)
      /\ re.byte_ready_ - lo < Base \div 2 /\ lo - re.byte_ready_ < Base \div 2
  BY <1>2, <1>5 DEF Deliver, PeerMaySend, PlainPeer
<1>8. lo = 0 => len = 0
  BY <1>4, <1>7, EmptySeq
<1> HIDE DEF msg, data
<1>9. /\ Larger(lo, 1) + len <= FinNo
      /\ fin => Larger(lo, 1) + len = FinNo
  BY <1>1, <1>3 DEF Smaller
<1>10. fin => FinNo <= Edge(re, inbound)
  BY <1>7 DEF Edge
<1>11. Inbound(peerISN, FinNo) /\ FinNo \in Nat
  BY <1>1 DEF IInv
<1>12. ASSUME SYN_flag PROVE Placed(lo, len, peerISN)
  <2>1. /\ checkpoint = BytesPushed(inbound) /\ BytesPushed(inbound) \in Nat
        /\ BytesPushed(inbound) + 1 <= FinNo
        /\ re.byte_ready_
              = BytesPushed(inbound) + Bit(SYN_flag) + Bit(FIN_flag)
        /\ FIN_flag \in BOOLEAN
        /\ FIN_flag => BytesPushed(inbound) + 1 = FinNo
    BY <1>11, <1>12, InboundFacts DEF Inbound
  <2>2. Bit(SYN_flag) = 1 /\ Bit(FIN_flag) = IF FIN_flag THEN 1 ELSE 0
    BY <1>12 DEF Bit
  <2>3. checkpoint \in Nat /\ checkpoint < Word \div 2
    BY <1>1, <2>1
  <2>4. checkpoint - lo < Base \div 2
    BY <1>1, <1>7, <2>1, <2>2
  <2>5. lo - checkpoint <= Base \div 2
    <3>1. CASE ~FIN_flag
      BY <1>1, <1>7, <2>1, <2>2, <3>1
    <3>2. CASE FIN_flag
      <4>1. lo <= checkpoint + 1
        BY <1>1, <2>1, <3>2
      <4>2. Base \div 2 >= 1
        BY <1>1
      <4> QED BY <1>1, <2>3, <4>1, <4>2
    <3> QED BY <2>1, <3>1, <3>2
  <2> DEFINE u == Unwrap(Wrap(lo, peerISN), peerISN, checkpoint)
  <2>6. lo \in Nat
    BY <1>1
  <2>7. u = lo \/ (u \in Nat /\ u + Base = lo /\ lo = checkpoint + Base \div 2)
    BY <1>1, <2>3, <2>4, <2>5, <2>6, UnwrapNearby
  <2> HIDE DEF u
  <2>8. ASSUME u # lo PROVE u + len < re.byte_ready_
    <3>1. len <= Base \div 2
      BY <1>1, <1>3, <1>4, <1>7
    <3>2. u + len <= checkpoint
      BY <1>1, <1>3, <2>3, <2>7, <2>8, <3>1
    <3>3. checkpoint < re.byte_ready_
      BY <2>1, <2>2
    <3> QED BY <1>3, <2>1, <2>2, <2>3, <2>7, <2>8, <3>2, <3>3
  <2> QED BY <2>7, <2>8 DEF Placed, u
<1> DEFINE p == lo
<1>13. Received(lo, len, fin, peerISN, FinNo)
  <2>1. receive(Segment(Wrap(lo, peerISN), lo = 0, Bytes(Larger(lo, 1), len), fin))
    BY <1>6 DEF msg, data
  <2>2. lo \in Nat /\ FinNo \in Nat \ {0} /\ FinNo <= Word \div 2 /\ fin \in BOOLEAN
    BY <1>1
  <2> HIDE DEF len, fin
  <2> QED BY <1>1, <1>3, <1>8, <1>9, <1>10, <1>11, <1>12, <2>1, <2>2, ReceiveIs
<1>14. lo .. (Larger(lo, 1) + len - 1) \subseteq lo .. hi
  BY <1>1, <1>3, <1>8 DEF Smaller
<1>15. Taken' \subseteq got'
  <2>1. CASE SYN_flag \/ lo = 0
    BY <1>6, <1>13, <1>14, <2>1 DEF Received, IInv
  <2>2. CASE ~(SYN_flag \/ lo = 0)
    <3>1. Taken' = {}
      BY <1>13, <2>2 DEF Received, Taken
    <3> QED BY <3>1
  <2> QED BY <2>1, <2>2
<1>16. EndSeen' => FinNo \in got'
  <2>1. CASE SYN_flag \/ lo = 0
    <3>1. got \subseteq got' /\ (fin => FinNo \in got')
      BY <1>1, <1>6, <2>1
    <3> QED BY <1>13, <3>1 DEF Received, IInv
  <2>2. CASE ~(SYN_flag \/ lo = 0)
    BY <1>13, <2>2 DEF Received, EndSeen
  <2> QED BY <2>1, <2>2
<1>17. IInv'
  BY <1>6, <1>13, <1>15, <1>16
     DEF IInv, Received, FinNo, Inbound, Open, Ended, Listening
<1> QED BY <1>3, <1>6, <1>13, <1>17

LEMMA DeliverEmptyIs ==
    ASSUME PlainPeer, IInv, NEW lo \in 1..(FinNo + 1), DeliverEmpty(lo)
    PROVE  UNCHANGED vars
<1>1. /\ FinNo \in Nat /\ FinNo <= Word \div 2 /\ peerISN \in Wrap32
      /\ Inbound(peerISN, FinNo)
  BY PeerAssumption, StreamAssumption, HalfLap DEF IInv, FinNo, PlainPeer
<1>2. lo \in Nat
  BY <1>1
<1>3. Wrap(lo, peerISN) \in Wrap32
  BY <1>1, <1>2, WrapOfSum
<1>4. receive(Segment(Wrap(lo, peerISN), FALSE, <<>>, FALSE))
      /\ UNCHANGED <<peerISN, got>>
  BY DEF DeliverEmpty
<1>5. UNCHANGED receiverVars
  BY <1>1, <1>3, <1>4, ReceiveEmptyIs
<1> QED BY <1>4, <1>5 DEF vars

LEMMA ReadBytesIs ==
    ASSUME IInv, NEW n \in 1..InboundCapacity, ReadBytes(n)
    PROVE  /\ IInv' /\ BytesPushed(inbound') = BytesPushed(inbound)
           /\ SYN_flag' = SYN_flag /\ FIN_flag' = FIN_flag
           /\ inbound'.popped >= inbound.popped
<1>1. FinNo \in Nat /\ n \in Nat /\ Inbound(peerISN, FinNo) /\ ReadInbound(n)
  BY PeerAssumption, StreamAssumption, ReceiverAssumption DEF IInv, FinNo, ReadBytes
<1>2. /\ Inbound(peerISN, FinNo)'
      /\ inbound'.popped = inbound.popped + Smaller(n, Len(inbound.queue))
      /\ BytesPushed(inbound') = BytesPushed(inbound)
      /\ SYN_flag' = SYN_flag /\ FIN_flag' = FIN_flag
      /\ Taken' = Taken /\ (EndSeen' <=> EndSeen)
  <2>1. /\ ReadInbound(n) /\ UNCHANGED peerISN
    BY DEF ReadBytes
  <2> QED BY <1>1, <2>1, ReadIs DEF FinNo, Inbound, Listening, Open, Ended
<1>3. inbound.popped \in Nat /\ Len(inbound.queue) \in Nat
  BY <1>1, InboundFacts
<1>4. Smaller(n, Len(inbound.queue)) \in Nat
  BY <1>1, <1>3 DEF Smaller
<1> QED BY <1>2, <1>3, <1>4 DEF IInv, ReadBytes, FinNo

LEMMA InitIInv == Init => IInv
<1> SUFFICES ASSUME Init PROVE IInv
  OBVIOUS
<1>1. Listening /\ peerISN \in PeerISNs /\ got = {}
  BY DEF Init, ReceiverInit, Listening
<1>2. /\ inbound.capacity = InboundCapacity /\ inbound.error = FALSE
      /\ BytesPushed(inbound) = 0
  <2>1. inbound = [capacity |-> InboundCapacity, queue |-> <<>>, popped |-> 0,
                   closed |-> FALSE, error |-> FALSE]
    BY <1>1 DEF Listening, NewStream
  <2> QED BY <2>1, EmptySeq DEF BytesPushed
<1>3. Inbound(peerISN, FinNo)
  BY <1>1, <1>2 DEF Inbound, Listening
<1>4. Taken = {} /\ ~EndSeen
  BY <1>1 DEF Taken, EndSeen, Listening
<1> QED BY <1>1, <1>3, <1>4 DEF IInv

LEMMA NextIInv ==
    ASSUME PlainPeer, IInv, [Next]_vars
    PROVE  IInv'
<1>1. ASSUME UNCHANGED vars PROVE IInv'
  BY <1>1 DEF vars, receiverVars, IInv, Inbound, Listening, Open, Ended, Taken,
              EndSeen, FinNo
<1>2. ASSUME NEW lo \in 0..FinNo, NEW hi \in 0..FinNo, lo <= hi, Deliver(lo, hi)
      PROVE  IInv'
  BY <1>2, DeliverIs
<1>3. ASSUME NEW lo \in 1..(FinNo + 1), DeliverEmpty(lo) PROVE IInv'
  BY <1>1, <1>3, DeliverEmptyIs
<1>4. ASSUME NEW n \in 1..InboundCapacity, ReadBytes(n) PROVE IInv'
  BY <1>4, ReadBytesIs
<1> QED BY <1>1, <1>2, <1>3, <1>4 DEF Next

(* For every stream, window and initial sequence number, whatever segments   *)
(* arrive in whatever order: the three conditions of a receiver are its only *)
(* ones, and what it holds or acknowledges has arrived.                      *)
THEOREM ReceiverIsInvariant == PlainPeer => (Spec => []IInv)
<1> SUFFICES ASSUME PlainPeer PROVE Spec => []IInv
  OBVIOUS
<1>1. Init => IInv
  BY InitIInv
<1>2. IInv /\ [Next]_vars => IInv'
  BY NextIInv
<1> QED BY <1>1, <1>2, PTL DEF Spec

(* The numbers the ackno and the window are computed from.                   *)
NumbersAre ==
    /\ AckNumber = re.byte_ready_ /\ AckNumber \in Nat
    /\ inbound.popped \in Nat /\ InboundCapacity \in Nat
    /\ AvailableCapacity(inbound) \in Nat
    /\ AckNumber + AvailableCapacity(inbound)
         = inbound.popped + InboundCapacity + Bit(SYN_flag) + Bit(FIN_flag)
    /\ SYN_flag \in BOOLEAN /\ FIN_flag \in BOOLEAN
    /\ Bit(SYN_flag) \in Nat /\ Bit(FIN_flag) \in Nat

LEMMA NumbersHold == IInv => NumbersAre
<1> SUFFICES ASSUME IInv PROVE NumbersAre
  OBVIOUS
<1>1. FinNo \in Nat /\ Inbound(peerISN, FinNo)
  BY PeerAssumption, StreamAssumption DEF IInv, FinNo
<1>2. /\ inbound.popped \in Nat /\ Len(inbound.queue) \in Nat
      /\ InboundCapacity \in Nat
      /\ BytesPushed(inbound) = inbound.popped + Len(inbound.queue)
      /\ AvailableCapacity(inbound) = InboundCapacity - Len(inbound.queue)
      /\ AvailableCapacity(inbound) \in Nat
      /\ SYN_flag \in BOOLEAN /\ FIN_flag \in BOOLEAN
      /\ re.byte_ready_ = BytesPushed(inbound) + Bit(SYN_flag) + Bit(FIN_flag)
      /\ re.byte_ready_ \in Nat
  BY <1>1, InboundFacts
<1>3. Bit(SYN_flag) \in Nat /\ Bit(FIN_flag) \in Nat
  BY <1>2 DEF Bit
<1>4. AckNumber = re.byte_ready_
  BY <1>2 DEF AckNumber
<1> HIDE DEF NumbersAre
<1>5. AckNumber + AvailableCapacity(inbound)
        = inbound.popped + InboundCapacity + Bit(SYN_flag) + Bit(FIN_flag)
  BY <1>2, <1>3, <1>4
<1> QED BY <1>2, <1>3, <1>4, <1>5 DEF NumbersAre

(* For every stream, window and initial sequence number, the reader gets the *)
(* peer's bytes in order.  The peer is plain, and as PeerMaySend guards it: a*)
(* FIN is sent only within the window offered now, and no segment arrives    *)
(* from half a lap or more away.                                             *)
THEOREM BytesArriveInOrder == PlainPeer => (Spec => []InboundIntact)
<1> SUFFICES ASSUME PlainPeer PROVE Spec => []InboundIntact
  OBVIOUS
<1>1. IInv => InboundIntact
  <2> SUFFICES ASSUME IInv PROVE InboundIntact
    OBVIOUS
  <2>1. /\ inbound.popped \in Nat /\ Len(inbound.queue) \in Nat
        /\ inbound.queue = Bytes(1 + inbound.popped, Len(inbound.queue))
    BY PeerAssumption, StreamAssumption, InboundFacts DEF IInv, FinNo
  <2>2. \A i \in 1..Len(inbound.queue) :
           1 + inbound.popped + i - 1 = inbound.popped + i
    BY <2>1
  <2>3. Bytes(1 + inbound.popped, Len(inbound.queue))
           = [i \in 1..Len(inbound.queue) |-> inbound.popped + i]
    BY <2>2 DEF Bytes
  <2> QED BY <2>1, <2>3 DEF InboundIntact
<1> QED BY <1>1, ReceiverIsInvariant, PTL

(* ... and the ackno covers exactly the numbers before the first gap: each   *)
(* has arrived, and the FIN among them only after every byte.                *)
THEOREM AcksAreCumulative == PlainPeer => (Spec => []AckIsCumulative)
<1> SUFFICES ASSUME PlainPeer PROVE Spec => []AckIsCumulative
  OBVIOUS
<1>1. IInv => AckIsCumulative
  <2> SUFFICES ASSUME IInv, SYN_flag
               PROVE  /\ send.ackno = Wrap(AckNumber, peerISN)
                      /\ re.byte_ready_ = AckNumber
                      /\ 0 .. AckNumber - 1 \subseteq got
                      /\ FIN_flag => AckNumber = FinNo + 1
    BY DEF AckIsCumulative
  <2> DEFINE pushed == BytesPushed(inbound)
  <2>1. /\ FinNo \in Nat /\ peerISN \in Wrap32
    BY PeerAssumption, StreamAssumption DEF IInv, FinNo
  <2>2. /\ pushed \in Nat /\ ISN = peerISN /\ FIN_flag \in BOOLEAN
        /\ FIN_flag => pushed + 1 = FinNo
    BY <2>1, InboundFacts DEF IInv
  <2>3. AckNumber = re.byte_ready_ /\ AckNumber \in Nat
    BY NumbersHold DEF NumbersAre
  <2>4. Bit(SYN_flag) = 1 /\ Bit(FIN_flag) = (IF FIN_flag THEN 1 ELSE 0)
    BY DEF Bit
  <2> HIDE DEF pushed
  <2>5. AckNumber = pushed + 1 + Bit(FIN_flag)
    BY <2>2, <2>4 DEF AckNumber, pushed
  <2>6. send.ackno = Plus(Plus(Wrap(pushed, peerISN), 1), Bit(FIN_flag))
    BY <2>2, <2>4 DEF send, Ack, Ackno, pushed
  <2>7. Plus(Plus(Wrap(pushed, peerISN), 1), Bit(FIN_flag))
          = Wrap(pushed + 1 + Bit(FIN_flag), peerISN)
    <3> DEFINE b == Bit(FIN_flag)
    <3>1. b \in Nat /\ 1 \in Nat /\ pushed + 1 \in Nat
      BY <2>2, <2>4
    <3> HIDE DEF b
    <3>2. Plus(Wrap(pushed, peerISN), 1) = Wrap(pushed + 1, peerISN)
      BY <2>1, <2>2, <3>1, WrapOfSum
    <3>3. Plus(Wrap(pushed + 1, peerISN), b) = Wrap(pushed + 1 + b, peerISN)
      BY <2>1, <3>1, WrapOfSum
    <3> QED BY <3>2, <3>3 DEF b
  <2>8. 0..pushed \subseteq got
    BY DEF IInv, Taken, pushed
  <2>9. FIN_flag => FinNo \in got
    BY DEF IInv, EndSeen
  <2>10. 0 .. AckNumber - 1 \subseteq got
    <3>1. CASE ~FIN_flag
      <4>1. AckNumber - 1 = pushed
        BY <2>2, <2>4, <2>5, <3>1
      <4> QED BY <2>8, <4>1
    <3>2. CASE FIN_flag
      <4>1. AckNumber - 1 = pushed + 1 /\ FinNo = pushed + 1
        BY <2>2, <2>4, <2>5, <3>2
      <4>2. 0 .. pushed + 1 = 0 .. pushed \cup {pushed + 1}
        BY <2>2
      <4> QED BY <2>8, <2>9, <3>2, <4>1, <4>2
    <3> QED BY <3>1, <3>2
  <2>11. FIN_flag => AckNumber = FinNo + 1
    BY <2>2, <2>4, <2>5
  <2> QED BY <2>3, <2>5, <2>6, <2>7, <2>10, <2>11
<1> QED BY <1>1, ReceiverIsInvariant, PTL

(* ... and no step takes back room it has advertised.                        *)
THEOREM WindowsNeverShrink == PlainPeer => (Spec => WindowNeverShrinks)
<1> SUFFICES ASSUME PlainPeer PROVE Spec => WindowNeverShrinks
  OBVIOUS
<1> DEFINE Grows == /\ AckNumber' >= AckNumber
                    /\ AckNumber' + Window' >= AckNumber + Window
<1>1. IInv /\ IInv' /\ [Next]_vars => [Grows]_vars
  <2> SUFFICES ASSUME IInv, IInv', [Next]_vars PROVE Grows \/ UNCHANGED vars
    OBVIOUS
  <2>1. NumbersAre /\ NumbersAre'
    <3>1. IInv' => NumbersAre'
      BY NumbersHold, PTL
    <3> QED BY <3>1, NumbersHold
  <2> DEFINE Later == /\ AckNumber' >= AckNumber
                      /\ inbound'.popped >= inbound.popped
                      /\ SYN_flag => SYN_flag'
                      /\ FIN_flag => FIN_flag'
  <2>2. ASSUME Later PROVE Grows
    <3> DEFINE edge == AckNumber + AvailableCapacity(inbound)
    <3>1. /\ AckNumber \in Nat /\ AckNumber' \in Nat /\ edge \in Nat /\ edge' \in Nat
          /\ AvailableCapacity(inbound) \in Nat
          /\ AvailableCapacity(inbound)' \in Nat
          /\ MaxWindow \in Nat
      BY <2>1, ReceiverAssumption DEF NumbersAre
    <3>2. edge' >= edge
      <4>1. Bit(SYN_flag)' >= Bit(SYN_flag) /\ Bit(FIN_flag)' >= Bit(FIN_flag)
        BY <2>1, <2>2 DEF NumbersAre, Bit
      <4> QED BY <2>1, <2>2, <4>1 DEF NumbersAre
    <3>3. AckNumber + Window = Smaller(edge, AckNumber + MaxWindow)
      BY <3>1 DEF Window, Smaller
    <3>4. AckNumber' + Window' = Smaller(edge', AckNumber' + MaxWindow)
      BY <3>1 DEF Window, Smaller
    <3>5. AckNumber' >= AckNumber
      BY <2>2
    <3> HIDE DEF edge
    <3>6. Smaller(edge', AckNumber' + MaxWindow)
             >= Smaller(edge, AckNumber + MaxWindow)
      <4>1. ASSUME NEW a \in Nat, NEW b \in Nat, NEW c \in Nat, NEW d \in Nat,
                   c >= a, d >= b
            PROVE  Smaller(c, d) >= Smaller(a, b)
        BY <4>1 DEF Smaller
      <4>2. /\ AckNumber + MaxWindow \in Nat /\ AckNumber' + MaxWindow \in Nat
            /\ AckNumber' + MaxWindow >= AckNumber + MaxWindow
        <5>1. ASSUME NEW a \in Nat, NEW c \in Nat, NEW m \in Nat, c >= a
              PROVE  a + m \in Nat /\ c + m \in Nat /\ c + m >= a + m
          BY <5>1
        <5>2. AckNumber \in Nat /\ AckNumber' \in Nat /\ MaxWindow \in Nat
          BY <3>1
        <5> QED BY <3>5, <5>1, <5>2
      <4> QED BY <3>1, <3>2, <4>1, <4>2
    <3> QED BY <3>3, <3>4, <3>5, <3>6
  <2>3. ASSUME NEW lo \in 0..FinNo, NEW hi \in 0..FinNo, lo <= hi, Deliver(lo, hi)
        PROVE  Later
    <3>1. PICK n \in Nat, fin \in BOOLEAN : Received(lo, n, fin, peerISN, FinNo)
      BY <2>3, DeliverIs
    <3> QED BY <2>1, <3>1 DEF Received, NumbersAre
  <2>4. ASSUME NEW lo \in 1..(FinNo + 1), DeliverEmpty(lo) PROVE UNCHANGED vars
    BY <2>4, DeliverEmptyIs
  <2>5. ASSUME NEW n \in 1..InboundCapacity, ReadBytes(n) PROVE Later
    <3>1. /\ BytesPushed(inbound') = BytesPushed(inbound)
          /\ SYN_flag' = SYN_flag /\ FIN_flag' = FIN_flag
          /\ inbound'.popped >= inbound.popped
      BY <2>5, ReadBytesIs
    <3>2. AckNumber' = AckNumber
      BY <3>1 DEF AckNumber
    <3> QED BY <2>1, <3>1, <3>2 DEF NumbersAre
  <2> HIDE DEF Grows, Later
  <2> QED BY <2>2, <2>3, <2>4, <2>5 DEF Next
<1> QED BY <1>1, ReceiverIsInvariant, PTL DEF Spec, WindowNeverShrinks
=============================================================================
