----------------------------- MODULE DataFacts -----------------------------
(* Facts about data that the proofs rest on: division with remainder by a    *)
(* positive number, for the ring buffer and for wrapping sequence numbers,   *)
(* the least element of a set of numbers, for arguments by induction, tables *)
(* with some of the keys, how often values occur in a sequence, and what     *)
(* concatenation does to the elements at the seam.                           *)
EXTENDS Integers, Sequences, FiniteSetTheorems, FunctionTheorems,
        SequenceTheorems, WellFoundedInduction, TLAPS

(* A number is the divisor times the quotient plus a remainder in range.     *)
LEMMA DivisionAlgorithm ==
    ASSUME NEW a \in Int, NEW b \in Nat \ {0}
    PROVE  /\ a % b \in 0..(b - 1)
           /\ a \div b \in Int
           /\ a = b * (a \div b) + (a % b)
OBVIOUS

(* Quotient and remainder are unique.                                        *)
LEMMA DivisionUnique ==
    ASSUME NEW b \in Nat \ {0}, NEW q1 \in Int, NEW q2 \in Int,
           NEW m1 \in 0..(b - 1), NEW m2 \in 0..(b - 1),
           b * q1 + m1 = b * q2 + m2
    PROVE  q1 = q2 /\ m1 = m2
<1>1. b * (q1 - q2) = m2 - m1
  OBVIOUS
<1>2. CASE q1 - q2 >= 1
  <2>1. b * (q1 - q2) >= b
    BY <1>2
  <2> QED BY <2>1, <1>1
<1>3. CASE q1 - q2 <= -1
  <2>1. b * (q1 - q2) <= -b
    BY <1>3
  <2> QED BY <2>1, <1>1
<1>4. CASE q1 = q2
  BY <1>4, <1>1
<1> QED BY <1>2, <1>3, <1>4

(* A decomposition into multiple and remainder determines both.              *)
LEMMA RemainderIs ==
    ASSUME NEW b \in Nat \ {0}, NEW a \in Int, NEW q \in Int,
           NEW m \in 0..(b - 1), a = b * q + m
    PROVE  a % b = m
BY DivisionAlgorithm, DivisionUnique

(* The remainder of a sum whose second part is less than the divisor.        *)
LEMMA RemainderOfSum ==
    ASSUME NEW b \in Nat \ {0}, NEW a \in Int, NEW j \in 0..(b - 1)
    PROVE  (a + j) % b = IF (a % b) + j < b THEN (a % b) + j ELSE (a % b) + j - b
<1> DEFINE q == a \div b
           m == a % b
<1>1. m \in 0..(b - 1) /\ q \in Int /\ a = b * q + m
  BY DivisionAlgorithm
<1> HIDE DEF q, m
<1>2. CASE m + j < b
  <2>1. a + j \in Int
    OBVIOUS
  <2>2. a + j = b * q + (m + j)
    BY <1>1
  <2>3. m + j \in 0..(b - 1)
    BY <1>1, <1>2
  <2>4. (a + j) % b = m + j
    BY <1>1, <2>1, <2>2, <2>3, RemainderIs, ZenonT(30)
  <2> QED BY <2>4, <1>2 DEF m
<1>3. CASE m + j >= b
  <2>1. a + j \in Int /\ q + 1 \in Int
    BY <1>1
  <2>2. a + j = b * (q + 1) + (m + j - b)
    BY <1>1
  <2>3. m + j - b \in 0..(b - 1)
    BY <1>1, <1>3
  <2>4. (a + j) % b = m + j - b
    BY <2>1, <2>2, <2>3, RemainderIs, ZenonT(30)
  <2> QED BY <2>4, <1>3, <1>1 DEF m
<1> QED BY <1>1, <1>2, <1>3

(* A number in range is its own remainder, also one lap further on.          *)
LEMMA RemainderOfSlot ==
    ASSUME NEW b \in Nat \ {0}, NEW m \in 0..(b - 1)
    PROVE  m % b = m /\ (m + b) % b = m
<1>1. m = b * 0 + m /\ m + b = b * 1 + m /\ m \in Int /\ m + b \in Int
  OBVIOUS
<1>2. m % b = m
  BY <1>1, RemainderIs, 0 \in Int, ZenonT(30)
<1>3. (m + b) % b = m
  BY <1>1, RemainderIs, 1 \in Int, ZenonT(30)
<1> QED BY <1>2, <1>3

(* Two numbers less than a lap apart have different remainders.              *)
LEMMA RemaindersDiffer ==
    ASSUME NEW b \in Nat \ {0}, NEW a \in Int, NEW j \in 1..(b - 1)
    PROVE  (a + j) % b # a % b
<1>1. j \in 0..(b - 1)
  OBVIOUS
<1>2. (a + j) % b = IF (a % b) + j < b THEN (a % b) + j ELSE (a % b) + j - b
  BY <1>1, RemainderOfSum
<1>3. a % b \in 0..(b - 1)
  BY DivisionAlgorithm
<1> QED BY <1>2, <1>3

(* A set of natural numbers that is not empty has a least element.           *)
LEMMA LeastNumber ==
    ASSUME NEW T \in SUBSET Nat, T # {}
    PROVE  \E x \in T : \A y \in T : x <= y
<1> DEFINE R == OpToRel(<, Nat)
<1>1. IsWellFoundedOn(R, Nat)
  BY NatLessThanWellFounded, Zenon
<1>2. \A x, y \in Nat : <<y, x>> \in R <=> y < x
  BY Zenon DEF OpToRel
<1> HIDE DEF R
<1>3. PICK x \in T : \A y \in T : <<y, x>> \notin R
  BY <1>1, WFMin
<1>4. x \in Nat /\ \A y \in T : y \in Nat /\ ~(y < x)
  BY <1>2, <1>3
<1> QED BY <1>4

(* Induction: a set of natural numbers that holds the first number and, with *)
(* each number below the last, the next one, holds all of them.              *)
LEMMA InductionUpTo ==
    ASSUME NEW T, NEW n \in Nat, 0 \in T,
           \A k \in 0..(n - 1) : k \in T => k + 1 \in T
    PROVE  0..n \subseteq T
<1> SUFFICES ASSUME ~(0..n \subseteq T) PROVE FALSE
  OBVIOUS
<1> DEFINE Missing == (0..n) \ T
<1>1. Missing \in SUBSET Nat /\ Missing # {}
  OBVIOUS
<1>2. PICK x \in Missing : \A y \in Missing : x <= y
  BY <1>1, LeastNumber, ZenonT(30)
<1>3. x # 0 /\ x - 1 \in 0..(n - 1) /\ x = (x - 1) + 1
  OBVIOUS
<1>4. x - 1 \notin Missing
  BY <1>2, <1>3
<1> QED BY <1>3, <1>4
---------------------------------------------------------------------------
(* Finite tables from some of K to V.                                        *)
Tables(K, V) == UNION {[D -> V] : D \in SUBSET K}

LEMMA TableFacts ==
    ASSUME NEW K, NEW V, NEW map \in Tables(K, V)
    PROVE  /\ DOMAIN map \subseteq K
           /\ \A k \in DOMAIN map : map[k] \in V
           /\ map = [k \in DOMAIN map |-> map[k]]
BY DEF Tables

LEMMA MakeTable ==
    ASSUME NEW K, NEW V, NEW D \in SUBSET K, NEW map \in [D -> V]
    PROVE  map \in Tables(K, V)
BY DEF Tables

(* A table with some of its keys is one.                                     *)
LEMMA RestrictFacts ==
    ASSUME NEW K, NEW V, NEW map \in Tables(K, V),
           NEW D \in SUBSET (DOMAIN map)
    PROVE  /\ Restrict(map, D) \in Tables(K, V)
           /\ DOMAIN Restrict(map, D) = D
           /\ \A k \in D : Restrict(map, D)[k] = map[k]
<1>1. D \in SUBSET K
  BY TableFacts
<1>2. Restrict(map, D) \in [D -> V]
  BY TableFacts DEF Restrict
<1>3. Restrict(map, D) \in Tables(K, V)
  BY <1>1, <1>2, MakeTable
<1> QED BY <1>3 DEF Restrict
---------------------------------------------------------------------------
(* Where, and how often, a member of V occurs in a sequence.                 *)
Positions(s, V)   == {i \in DOMAIN s : s[i] \in V}
Occurrences(s, V) == Cardinality(Positions(s, V))

LEMMA OccurrencesAre ==
    ASSUME NEW S, NEW s \in Seq(S), NEW V
    PROVE  /\ IsFiniteSet(Positions(s, V)) /\ Occurrences(s, V) \in Nat
           /\ (\A i \in DOMAIN s : s[i] \notin V) => Occurrences(s, V) = 0
           /\ Occurrences(s, V) = 0 => \A i \in DOMAIN s : s[i] \notin V
<1>1. DOMAIN s = 1..Len(s) /\ Len(s) \in Nat
  BY LenProperties
<1>2. IsFiniteSet(1..Len(s)) /\ Positions(s, V) \subseteq 1..Len(s)
  BY <1>1, FS_Interval, 1 \in Int, Len(s) \in Int DEF Positions
<1>3. IsFiniteSet(Positions(s, V)) /\ Occurrences(s, V) \in Nat
  BY <1>2, FS_Subset, FS_CardinalityType DEF Occurrences
<1>4. Positions(s, V) = {} <=> Occurrences(s, V) = 0
  BY <1>3, FS_EmptySet DEF Occurrences
<1> QED BY <1>3, <1>4 DEF Positions

LEMMA OccurrencesInNone ==
    ASSUME NEW V PROVE Occurrences(<<>>, V) = 0
<1>1. <<>> \in Seq({}) /\ DOMAIN (<<>>) = {}
  BY EmptySeq
<1> DEFINE none == <<>>
<1>2. none \in Seq({}) /\ \A i \in DOMAIN none : none[i] \notin V
  BY <1>1
<1> HIDE DEF none
<1>3. Occurrences(none, V) = 0
  BY <1>2, OccurrencesAre
<1> QED BY <1>3 DEF none

LEMMA OccurrencesInOne ==
    ASSUME NEW x, NEW V
    PROVE  Occurrences(<<x>>, V) = IF x \in V THEN 1 ELSE 0
<1>1. DOMAIN (<<x>>) = {1} /\ <<x>>[1] = x
  OBVIOUS
<1>2. Positions(<<x>>, V) = IF x \in V THEN {1} ELSE {}
  BY <1>1 DEF Positions
<1>3. Cardinality({1}) = 1
  BY FS_Singleton
<1>4. Cardinality({}) = 0
  BY FS_EmptySet
<1> QED BY <1>2, <1>3, <1>4 DEF Occurrences

(* Occurrences in two sequences, one behind the other, add up.               *)
LEMMA OccurrencesInBoth ==
    ASSUME NEW S, NEW s \in Seq(S), NEW t \in Seq(S), NEW V
    PROVE  Occurrences(s \o t, V) = Occurrences(s, V) + Occurrences(t, V)
<1> DEFINE m == Len(s)
           A == Positions(s, V)
           B == Positions(t, V)
           C == {m + j : j \in B}
<1>1. /\ m \in Nat /\ Len(t) \in Nat
      /\ DOMAIN s = 1..m /\ DOMAIN t = 1..Len(t)
      /\ DOMAIN (s \o t) = 1..(m + Len(t))
      /\ \A i \in 1..(m + Len(t)) :
            (s \o t)[i] = IF i <= m THEN s[i] ELSE t[i - m]
  <2>1. s \o t \in Seq(S) /\ Len(s \o t) = m + Len(t)
    BY ConcatProperties
  <2> QED BY <2>1, LenProperties, ConcatProperties
<1>2. IsFiniteSet(A) /\ IsFiniteSet(B)
  BY OccurrencesAre
<1>3. \A i \in A : i \in 1..m /\ s[i] \in V
  BY <1>1 DEF Positions
<1>4. \A j \in B : j \in 1..Len(t) /\ t[j] \in V
  BY <1>1 DEF Positions
<1> HIDE DEF m
<1>5. ASSUME NEW i \in Positions(s \o t, V) PROVE i \in A \cup C
  <2>1. i \in 1..(m + Len(t)) /\ (s \o t)[i] \in V
    BY <1>1 DEF Positions
  <2>2. CASE i <= m
    BY <1>1, <2>1, <2>2 DEF Positions
  <2>3. CASE ~(i <= m)
    <3>1. i - m \in 1..Len(t) /\ m + (i - m) = i
      BY <1>1, <2>1, <2>3
    <3>2. i - m \in B
      BY <1>1, <2>1, <2>3, <3>1 DEF Positions
    <3> QED BY <3>1, <3>2
  <2> QED BY <2>2, <2>3
<1>6. ASSUME NEW i \in A PROVE i \in Positions(s \o t, V)
  <2>1. i \in 1..(m + Len(t)) /\ i <= m
    BY <1>1, <1>3
  <2> QED BY <1>1, <1>3, <2>1 DEF Positions
<1>7. ASSUME NEW j \in B PROVE m + j \in Positions(s \o t, V)
  <2>1. m + j \in 1..(m + Len(t)) /\ ~(m + j <= m) /\ (m + j) - m = j
    BY <1>1, <1>4
  <2>2. (s \o t)[m + j] = t[j]
    BY <1>1, <2>1
  <2> QED BY <1>1, <1>4, <2>1, <2>2 DEF Positions
<1>8. Positions(s \o t, V) = A \cup C
  BY <1>5, <1>6, <1>7
<1>9. A \cap C = {}
  <2> SUFFICES ASSUME NEW j \in B, m + j \in A PROVE FALSE
    OBVIOUS
  <2>1. m + j \in 1..m /\ j \in 1..Len(t)
    BY <1>3, <1>4
  <2> QED BY <1>1, <2>1
<1>10. IsFiniteSet(C) /\ Cardinality(C) = Cardinality(B)
  <2> DEFINE f == [j \in B |-> m + j]
  <2>1. f \in [B -> C] /\ \A c \in C : \E j \in B : f[j] = c
    OBVIOUS
  <2>2. ASSUME NEW a \in B, NEW b \in B, f[a] = f[b] PROVE a = b
    <3>1. a \in Nat /\ b \in Nat /\ m + a = m + b
      BY <1>4, <2>2
    <3> QED BY <1>1, <3>1
  <2>3. DOMAIN f = B
    OBVIOUS
  <2> HIDE DEF f, B, C
  <2>4. f \in Bijection(B, C)
    BY <2>1, <2>2, <2>3 DEF Bijection, Injection, Surjection, IsInjective
  <2>5. ExistsBijection(B, C)
    BY <2>4 DEF ExistsBijection
  <2> QED BY <1>2, <2>5, FS_Bijection
<1> HIDE DEF A, B, C
<1>11. Cardinality(A \cup C) = Cardinality(A) + Cardinality(C)
  <2>1. Cardinality(A \cup C)
            = Cardinality(A) + Cardinality(C) - Cardinality(A \cap C)
    BY <1>2, <1>10, FS_Union
  <2>2. Cardinality(A \cap C) = 0
    BY <1>9, FS_EmptySet
  <2>3. Cardinality(A) \in Nat /\ Cardinality(C) \in Nat
    BY <1>2, <1>10, FS_CardinalityType
  <2> QED BY <2>1, <2>2, <2>3
<1> QED BY <1>8, <1>10, <1>11 DEF Occurrences, A, B

LEMMA OccurrencesAppended ==
    ASSUME NEW S, NEW s \in Seq(S), NEW x \in S, NEW V
    PROVE  Occurrences(Append(s, x), V)
               = Occurrences(s, V) + (IF x \in V THEN 1 ELSE 0)
<1>1. Append(s, x) = s \o <<x>> /\ <<x>> \in Seq(S)
  BY AppendIsConcat
<1> DEFINE one == <<x>>
<1>2. Occurrences(one, V) = IF x \in V THEN 1 ELSE 0
  BY OccurrencesInOne
<1>3. Append(s, x) = s \o one /\ one \in Seq(S)
  BY <1>1
<1> HIDE DEF one
<1>4. Occurrences(s \o one, V) = Occurrences(s, V) + Occurrences(one, V)
  BY <1>3, OccurrencesInBoth
<1> QED BY <1>2, <1>3, <1>4

LEMMA OccurrencesInTail ==
    ASSUME NEW S, NEW s \in Seq(S), s # <<>>, NEW V
    PROVE  Occurrences(s, V)
               = (IF Head(s) \in V THEN 1 ELSE 0) + Occurrences(Tail(s), V)
<1>1. s = <<Head(s)>> \o Tail(s) /\ Tail(s) \in Seq(S) /\ Head(s) \in S
  BY HeadTailProperties, HeadTailAppend, ConcatProperties, SeqEqual
<1> DEFINE one  == <<Head(s)>>
           rest == Tail(s)
<1>2. Occurrences(one, V) = IF Head(s) \in V THEN 1 ELSE 0
  BY OccurrencesInOne
<1>3. s = one \o rest /\ one \in Seq(S) /\ rest \in Seq(S)
  BY <1>1
<1> HIDE DEF one, rest
<1>4. Occurrences(one \o rest, V) = Occurrences(one, V) + Occurrences(rest, V)
  BY <1>3, OccurrencesInBoth
<1> QED BY <1>2, <1>3, <1>4 DEF rest
---------------------------------------------------------------------------
(* A sequence is its first n elements and the rest.                          *)
LEMMA SplitAt ==
    ASSUME NEW S, NEW s \in Seq(S), NEW n \in 0 .. Len(s)
    PROVE  /\ SubSeq(s, 1, n) \in Seq(S) /\ SubSeq(s, n + 1, Len(s)) \in Seq(S)
           /\ SubSeq(s, 1, n) \o SubSeq(s, n + 1, Len(s)) = s
           /\ Len(SubSeq(s, 1, n)) = n
<1>1. Len(s) \in Nat /\ \A i \in 1 .. Len(s) : s[i] \in S
  BY LenProperties, ElementOfSeq
<1>2. SubSeq(s, 1, n) \in Seq(S) /\ Len(SubSeq(s, 1, n)) = n
  BY <1>1, SubSeqProperties
<1>3. SubSeq(s, n + 1, Len(s)) \in Seq(S)
  BY <1>1, SubSeqProperties
<1>4. SubSeq(s, 1, n) \o SubSeq(s, n + 1, Len(s)) = SubSeq(s, 1, Len(s))
  <2> DEFINE m   == 1
             len == Len(s)
  <2>1. /\ m \in 1 .. Len(s) + 1 /\ n \in m - 1 .. Len(s)
        /\ len \in n .. Len(s)
    BY <1>1
  <2> HIDE DEF m, len
  <2>2. SubSeq(s, m, n) \o SubSeq(s, n + 1, len) = SubSeq(s, m, len)
    BY <2>1, ConcatAdjacentSubSeq
  <2> QED BY <2>2 DEF m, len
<1>5. SubSeq(s, 1, Len(s)) = s
  BY SubSeqFull
<1> QED BY <1>2, <1>3, <1>4, <1>5

(* Appending to the second of two sequences, and moving the first element or *)
(* the first n of the second to the end of the first.                        *)
LEMMA ConcatAppend ==
    ASSUME NEW S, NEW s \in Seq(S), NEW t \in Seq(S), NEW e \in S
    PROVE  s \o Append(t, e) = Append(s \o t, e)
<1> DEFINE one == <<e>>
<1>1. /\ Append(t, e) = t \o one /\ one \in Seq(S)
      /\ Append(s \o t, e) = (s \o t) \o one
  <2>1. s \o t \in Seq(S)
    BY ConcatProperties
  <2>2. Append(t, e) = t \o one /\ one \in Seq(S)
    BY AppendIsConcat
  <2>3. Append(s \o t, e) = (s \o t) \o one
    <3> DEFINE st == s \o t
    <3> HIDE DEF st
    <3>1. Append(st, e) = st \o one
      BY <2>1, AppendIsConcat DEF st
    <3> QED BY <3>1 DEF st
  <2> QED BY <2>2, <2>3
<1> HIDE DEF one
<1>2. one \in Seq(S)
  BY <1>1
<1>3. (s \o t) \o one = s \o (t \o one)
  BY <1>2, ConcatAssociative, SMTT(30)
<1> QED BY <1>1, <1>3

LEMMA HeadMoves ==
    ASSUME NEW S, NEW s \in Seq(S), NEW t \in Seq(S), t # <<>>
    PROVE  Append(s, Head(t)) \o Tail(t) = s \o t
<1> DEFINE first == Head(t)
           rest  == Tail(t)
           one   == <<first>>
<1>1. t = one \o rest /\ rest \in Seq(S) /\ first \in S
  BY HeadTailProperties, HeadTailAppend, ConcatProperties, SeqEqual
<1> HIDE DEF first, rest
<1>2. Append(s, first) = s \o one /\ one \in Seq(S)
  BY <1>1, AppendIsConcat
<1> HIDE DEF one
<1>3. (s \o one) \o rest = s \o (one \o rest)
  BY <1>1, <1>2, ConcatAssociative
<1> QED BY <1>1, <1>2, <1>3 DEF first, rest

LEMMA FrontMoves ==
    ASSUME NEW S, NEW s \in Seq(S), NEW t \in Seq(S), NEW n \in 0 .. Len(t)
    PROVE  (s \o SubSeq(t, 1, n)) \o SubSeq(t, n + 1, Len(t)) = s \o t
<1> DEFINE front == SubSeq(t, 1, n)
           rest  == SubSeq(t, n + 1, Len(t))
<1>1. front \in Seq(S) /\ rest \in Seq(S)
  BY SplitAt
<1>2. front \o rest = t
  BY SplitAt
<1> HIDE DEF front, rest
<1>3. (s \o front) \o rest = s \o (front \o rest)
  BY <1>1, ConcatAssociative, SMTT(30)
<1> QED BY <1>2, <1>3 DEF front, rest
============================================================================
