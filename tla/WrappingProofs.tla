--------------------------- MODULE WrappingProofs ---------------------------
(* Lemmas about src/src/wrapping_integers.cc for every width of the wrapped  *)
(* and of the absolute number: unwrap() finds the closest candidate as long  *)
(* as the checkpoint is in the lower half of its word.                       *)
EXTENDS WrappingIntegers, DataFacts

(* What the assumption on the widths comes to.                               *)
LEMMA Widths ==
    /\ Base \in Nat \ {0} /\ Word \in Nat /\ Base \div 2 \in Nat
    /\ 2 * (Base \div 2) = Base
    /\ Word >= 2 * Base /\ 2 * (Word \div 2) = Word /\ Word \div 2 \in Nat
    /\ Word \div Base \in Nat /\ Word \div Base >= 2
<1>1. Base \in Nat \ {0} /\ Word \in Nat /\ Word > 0
  BY BaseAssumption
<1>2. Base = 2 * (Base \div 2) /\ Base \div 2 \in Nat
  BY <1>1, BaseAssumption
<1> DEFINE q == Word \div (2 * Base)
<1>3. Word = (2 * Base) * q + (Word % (2 * Base)) /\ q \in Int
  <2>1. 2 * Base \in Nat \ {0} /\ Word \in Int
    BY <1>1
  <2> QED BY <2>1, DivisionAlgorithm, ZenonT(30)
<1>4. Word = (2 * Base) * q
  BY <1>1, <1>3, BaseAssumption
<1> HIDE DEF q
<1>5. q >= 1
  <2>1. CASE q <= 0
    <3>1. (2 * Base) * q <= 0
      BY <1>1, <1>3, <2>1
    <3> QED BY <3>1, <1>1, <1>4
  <2> QED BY <2>1, <1>3
<1>6. Word >= 2 * Base
  <2>1. (2 * Base) * q = 2 * Base + (2 * Base) * (q - 1)
    BY <1>1, <1>3
  <2>2. (2 * Base) * (q - 1) >= 0
    BY <1>1, <1>3, <1>5
  <2>3. 2 * Base \in Int /\ (2 * Base) * (q - 1) \in Int
    BY <1>1, <1>3
  <2> QED BY <2>1, <2>2, <2>3, <1>4
<1>7. 2 * (Word \div 2) = Word /\ Word \div 2 \in Nat
  <2>1. Word = 2 * (Base * q) /\ Base * q \in Int
    BY <1>1, <1>3, <1>4
  <2> QED BY <2>1, <1>1
<1>8. Word \div Base \in Nat /\ Word \div Base >= 2
  <2> DEFINE d == Word \div Base
             m == Word % Base
  <2>1. d \in Int /\ m \in 0..(Base - 1) /\ Word = Base * d + m
    BY <1>1, DivisionAlgorithm
  <2> HIDE DEF d, m
  <2>2. ASSUME d <= 1 PROVE FALSE
    <3>1. Base * d <= Base
      BY <1>1, <2>1, <2>2
    <3>2. Base * d \in Int
      BY <1>1, <2>1
    <3> QED BY <3>1, <3>2, <2>1, <1>1, <1>6
  <2>3. d >= 2
    BY <2>1, <2>2
  <2> QED BY <2>1, <2>3 DEF d
<1> QED BY <1>1, <1>2, <1>6, <1>7, <1>8

(* Where an absolute number lies: its lap, and its place within the lap,     *)
(* which is what unwrap() calls modlen.                                      *)
LEMMA PlaceInLap ==
    ASSUME NEW n \in Nat, NEW zero \in Wrap32
    PROVE  (Wrap(n, zero) - zero + Base) % Base = n % Base
<1> DEFINE q == n \div Base
           m == n % Base
           raw == Wrap(n, zero)
<1>1. Base \in Nat \ {0} /\ zero \in 0..(Base - 1)
  BY Widths DEF Wrap32
<1>2. q \in Int /\ m \in 0..(Base - 1) /\ n = Base * q + m
  BY <1>1, DivisionAlgorithm
<1>3. raw \in 0..(Base - 1) /\ raw = IF m + zero < Base THEN m + zero
                                     ELSE m + zero - Base
  <2>1. n \in Int
    OBVIOUS
  <2>2. (n + zero) % Base = IF m + zero < Base THEN m + zero
                            ELSE m + zero - Base
    BY <2>1, <1>1, RemainderOfSum, ZenonT(30)
  <2> HIDE DEF m
  <2> QED BY <2>2, <1>1, <1>2 DEF Wrap
<1> HIDE DEF raw, m, q
<1>4. m % Base = m /\ (m + Base) % Base = m
  BY <1>1, <1>2, RemainderOfSlot, ZenonT(30)
<1>5. raw - zero + Base = m + Base \/ raw - zero + Base = m
  BY <1>1, <1>2, <1>3
<1>6. (raw - zero + Base) % Base = m
  BY <1>4, <1>5
<1> QED BY <1>6 DEF raw, m

(* unwrap() from a checkpoint in the lower half of the word: the candidate   *)
(* in the lap of the checkpoint or one of its neighbours that is the first   *)
(* not to lie more than half a lap below the checkpoint.                     *)
LEMMA UnwrapResult ==
    ASSUME NEW raw \in Wrap32, NEW zero \in Wrap32,
           NEW cp \in Nat, cp < Word \div 2
    PROVE  LET m == (raw - zero + Base) % Base
               r == Unwrap(raw, zero, cp)
           IN  /\ m \in 0..(Base - 1)
               /\ \E lap \in Nat : r = lap * Base + m
               /\ r >= cp - Base \div 2
               /\ r < Base \/ r < cp + Base \div 2
<1> DEFINE m   == (raw - zero + Base) % Base
           lap == cp \div Base
           first == FirstCandidate(raw, zero, cp)
           P(k) == /\ CloseEnough(first + k * Base, cp)
                   /\ \A j \in 0..(k - 1) : ~CloseEnough(first + j * Base, cp)
           laps == CHOOSE k \in 0 .. Word \div Base : P(k)
<1>1. /\ Base \in Nat \ {0} /\ Word \in Nat /\ Base \div 2 \in Nat
      /\ 2 * (Base \div 2) = Base
      /\ Word \div Base \in Nat /\ Word \div Base >= 2
      /\ cp < Word
  BY Widths
<1>2. m \in 0..(Base - 1)
  <2>1. raw - zero + Base \in Int
    BY <1>1 DEF Wrap32
  <2> QED BY <2>1, <1>1, DivisionAlgorithm, ZenonT(30)
<1>3. lap \in Nat /\ cp >= Base * lap /\ cp < Base * lap + Base
  <2> DEFINE p == cp % Base
  <2>1. lap \in Int /\ p \in 0..(Base - 1) /\ cp = Base * lap + p
    BY <1>1, DivisionAlgorithm
  <2> HIDE DEF p, lap
  <2>2. ASSUME lap <= -1 PROVE FALSE
    <3>1. Base * lap <= -Base /\ Base * lap \in Int
      BY <1>1, <2>1, <2>2
    <3> QED BY <3>1, <2>1, <1>1
  <2>3. Base * lap \in Int
    BY <1>1, <2>1
  <2> QED BY <1>1, <2>1, <2>2, <2>3
<1>4. first = IF lap = 0 THEN m ELSE (lap - 1) * Base + m
  <2>1. Quotient(Signed(cp), Base) = lap
    BY DEF Quotient, Signed
  <2>2. CASE lap = 0
    BY <2>1, <2>2 DEF FirstCandidate
  <2>3. CASE lap # 0
    <3> DEFINE c == (lap - 1) * Base + m
    <3>1. c \in 0..(Word - 1)
      <4> HIDE DEF lap, m
      <4>1. (lap - 1) * Base >= 0 /\ (lap - 1) * Base = Base * lap - Base
            /\ Base * lap \in Int
        BY <1>1, <1>3, <2>3
      <4> QED BY <4>1, <1>1, <1>2, <1>3
    <3>2. c % Word = c
      BY <3>1, <1>1, RemainderOfSlot
    <3> QED BY <2>1, <2>3, <3>2 DEF FirstCandidate
  <2> QED BY <2>2, <2>3
<1> HIDE DEF m, lap, first
<1>5. /\ first \in Nat
      /\ \E l \in Nat : first = l * Base + m
      /\ first < Base \/ first < cp
      /\ first + 2 * Base > cp
  <2>1. CASE lap = 0
    <3>1. first = m /\ m = 0 * Base + m
      BY <1>1, <1>2, <1>4, <2>1
    <3> QED BY <3>1, <1>1, <1>2, <1>3, <2>1
  <2>2. CASE lap # 0
    <3>1. /\ first = (lap - 1) * Base + m /\ lap - 1 \in Nat
          /\ (lap - 1) * Base = Base * lap - Base
          /\ (lap - 1) * Base \in Nat
      BY <1>1, <1>3, <1>4, <2>2
    <3> QED BY <3>1, <1>1, <1>2, <1>3
  <2> QED BY <2>1, <2>2
<1>6. \E k \in 0..2 : P(k)
  <2>1. first + 0 * Base = first /\ first + 1 * Base = first + Base
        /\ first + 2 * Base \in Int
    BY <1>1, <1>5
  <2>2. CloseEnough(first + 2 * Base, cp)
    BY <1>1, <1>5 DEF CloseEnough
  <2>3. CASE CloseEnough(first + 0 * Base, cp)
    BY <2>3
  <2>4. CASE ~CloseEnough(first + 0 * Base, cp)
             /\ CloseEnough(first + 1 * Base, cp)
    <3>1. \A j \in 0..(1 - 1) : j = 0
      OBVIOUS
    <3>2. P(1)
      BY <3>1, <2>4
    <3> QED BY <3>2
  <2>5. CASE ~CloseEnough(first + 0 * Base, cp)
             /\ ~CloseEnough(first + 1 * Base, cp)
    <3>1. \A j \in 0..(2 - 1) : j = 0 \/ j = 1
      OBVIOUS
    <3>2. P(2)
      BY <3>1, <2>2, <2>5
    <3> QED BY <3>2
  <2> QED BY <2>3, <2>4, <2>5
<1>7. laps \in 0 .. Word \div Base /\ P(laps)
  <2> HIDE DEF P
  <2>1. \E k \in 0 .. Word \div Base : P(k)
    <3>1. \A k \in 0..2 : k \in 0 .. Word \div Base
      BY <1>1
    <3> QED BY <3>1, <1>6
  <2> QED BY <2>1, Zenon
<1> HIDE DEF laps
<1>8. Unwrap(raw, zero, cp) = first + laps * Base
  BY Zenon DEF Unwrap, first, laps
<1> DEFINE r == first + laps * Base
<1>9. laps \in Nat /\ laps * Base \in Nat
  BY <1>1, <1>7
<1>10. \E l \in Nat : r = l * Base + m
  <2>1. PICK l \in Nat : first = l * Base + m
    BY <1>5
  <2>2. r = (l + laps) * Base + m /\ l + laps \in Nat
    BY <2>1, <1>1, <1>2, <1>9
  <2> QED BY <2>2
<1>11. r >= cp - Base \div 2
  BY <1>1, <1>5, <1>7, <1>9 DEF CloseEnough
<1>12. r < Base \/ r < cp + Base \div 2
  <2>1. CASE laps = 0
    <3>1. r = first
      BY <2>1, <1>1, <1>5
    <3> QED BY <3>1, <1>1, <1>5
  <2>2. CASE laps # 0
    <3>1. laps - 1 \in 0..(laps - 1)
      BY <2>2, <1>9
    <3>2. ~CloseEnough(first + (laps - 1) * Base, cp)
      BY <3>1, <1>7
    <3>3. (laps - 1) * Base = laps * Base - Base
      BY <1>1, <1>9
    <3> QED BY <3>2, <3>3, <1>1, <1>5, <1>9 DEF CloseEnough
  <2> QED BY <2>1, <2>2
<1> QED BY <1>2, <1>8, <1>10, <1>11, <1>12 DEF m

(* Two numbers at the same place of their laps are equal or at least a lap   *)
(* apart.                                                                    *)
LEMMA LapsApart ==
    ASSUME NEW a \in Int, NEW b \in Int, NEW m \in Int,
           a * Base + m # b * Base + m
    PROVE  \/ a * Base + m >= b * Base + m + Base
           \/ b * Base + m >= a * Base + m + Base
<1>1. Base \in Nat \ {0}
  BY Widths
<1>2. CASE a > b
  <2>1. (a - b - 1) * Base >= 0
    BY <1>1, <1>2
  <2>2. a * Base = b * Base + Base + (a - b - 1) * Base
    BY <1>1
  <2> QED BY <2>1, <2>2, <1>1
<1>3. CASE b > a
  <2>1. (b - a - 1) * Base >= 0
    BY <1>1, <1>3
  <2>2. b * Base = a * Base + Base + (b - a - 1) * Base
    BY <1>1
  <2> QED BY <2>1, <2>2, <1>1
<1>4. a # b
  OBVIOUS
<1> QED BY <1>2, <1>3, <1>4

(* The absolute numbers that wrap to raw are those at its place in a lap.    *)
LEMMA SamePlace ==
    ASSUME NEW n \in Nat, NEW zero \in Wrap32, NEW raw \in Wrap32
    PROVE  Wrap(n, zero) = raw <=> n % Base = (raw - zero + Base) % Base
<1>1. Base \in Nat \ {0} /\ zero \in 0..(Base - 1) /\ raw \in 0..(Base - 1)
  BY Widths DEF Wrap32
<1> DEFINE w == Wrap(n, zero)
<1>2. w \in 0..(Base - 1)
  <2>1. n + zero \in Int
    BY <1>1
  <2> QED BY <2>1, <1>1, DivisionAlgorithm, ZenonT(30) DEF Wrap
<1>3. (w - zero + Base) % Base = n % Base
  BY PlaceInLap
<1>4. \A x \in 0..(Base - 1) :
         (x - zero + Base) % Base =
             IF x >= zero THEN x - zero ELSE x - zero + Base
  <2>1. SUFFICES ASSUME NEW x \in 0..(Base - 1)
                 PROVE  (x - zero + Base) % Base =
                            IF x >= zero THEN x - zero ELSE x - zero + Base
    OBVIOUS
  <2>2. CASE x >= zero
    <3>1. x - zero \in 0..(Base - 1)
      BY <1>1, <2>2
    <3>2. (x - zero + Base) % Base = x - zero
      BY <3>1, <1>1, RemainderOfSlot, ZenonT(30)
    <3> QED BY <3>2, <2>2
  <2>3. CASE ~(x >= zero)
    <3>1. x - zero + Base \in 0..(Base - 1)
      BY <1>1, <2>3
    <3>2. (x - zero + Base) % Base = x - zero + Base
      BY <3>1, <1>1, RemainderOfSlot, ZenonT(30)
    <3> QED BY <3>2, <2>3
  <2> QED BY <2>2, <2>3
<1> HIDE DEF w
<1>5. (w - zero + Base) % Base = (raw - zero + Base) % Base <=> w = raw
  BY <1>1, <1>2, <1>4
<1> QED BY <1>3, <1>5 DEF w

(* What is at place m of lap number lap wraps to raw, and what wraps to raw  *)
(* is at its place of some lap.                                              *)
LEMMA AtPlace ==
    ASSUME NEW n \in Nat, NEW zero \in Wrap32, NEW raw \in Wrap32
    PROVE  LET m == (raw - zero + Base) % Base
           IN  Wrap(n, zero) = raw <=> \E lap \in Int : n = lap * Base + m
<1> DEFINE m == (raw - zero + Base) % Base
<1>1. Base \in Nat \ {0}
  BY Widths
<1>2. m \in 0..(Base - 1)
  <2>1. raw - zero + Base \in Int
    BY <1>1 DEF Wrap32
  <2> QED BY <2>1, <1>1, DivisionAlgorithm, ZenonT(30)
<1>3. Wrap(n, zero) = raw <=> n % Base = m
  BY SamePlace
<1> HIDE DEF m
<1>4. ASSUME n % Base = m PROVE \E lap \in Int : n = lap * Base + m
  <2> DEFINE q == n \div Base
  <2>1. q \in Int /\ n = Base * q + (n % Base)
    BY <1>1, DivisionAlgorithm
  <2> HIDE DEF q
  <2>2. n = q * Base + m
    BY <2>1, <1>1, <1>2, <1>4
  <2> QED BY <2>1, <2>2
<1>5. ASSUME NEW lap \in Int, n = lap * Base + m PROVE n % Base = m
  <2>1. n = Base * lap + m /\ n \in Int /\ lap \in Int
    BY <1>1, <1>2, <1>5
  <2> QED BY <2>1, <1>1, <1>2, RemainderIs, ZenonT(30)
<1> QED BY <1>3, <1>4, <1>5 DEF m

(* From every checkpoint in the lower half of the word, unwrap() returns a   *)
(* number that wraps to its argument, and none that does is closer: the      *)
(* promise of wrapping_integers.hh:24-30, for all widths.                    *)
LEMMA UnwrapClosest ==
    ASSUME NEW raw \in Wrap32, NEW zero \in Wrap32,
           NEW cp \in Nat, cp < Word \div 2
    PROVE  LET r == Unwrap(raw, zero, cp)
           IN  /\ r \in 0 .. Word - 1
               /\ Wrap(r, zero) = raw
               /\ \A n \in Nat : Wrap(n, zero) = raw =>
                     Distance(r, cp) <= Distance(n, cp)
<1> DEFINE r == Unwrap(raw, zero, cp)
           m == (raw - zero + Base) % Base
<1>1. /\ Base \in Nat \ {0} /\ Base \div 2 \in Nat
      /\ 2 * (Base \div 2) = Base
      /\ Word \in Nat /\ Word >= 2 * Base /\ 2 * (Word \div 2) = Word
      /\ Word \div 2 \in Nat
  BY Widths
<1>2. /\ m \in 0..(Base - 1)
      /\ \E lap \in Nat : r = lap * Base + m
      /\ r >= cp - Base \div 2
      /\ r < Base \/ r < cp + Base \div 2
  BY UnwrapResult
<1>3. \A n \in Nat :
         Wrap(n, zero) = raw <=> \E lap \in Int : n = lap * Base + m
  BY AtPlace
<1> HIDE DEF r, m
<1>4. PICK lap \in Nat : r = lap * Base + m
  BY <1>2
<1>5. r \in Nat
  <2>1. lap * Base \in Nat
    BY <1>1
  <2> QED BY <2>1, <1>2, <1>4
<1>6. r <= Word - 1
  BY <1>1, <1>2, <1>5
<1>7. Wrap(r, zero) = raw
  <2>1. lap \in Int
    OBVIOUS
  <2> QED BY <2>1, <1>3, <1>4, <1>5
<1>8. ASSUME NEW n \in Nat, Wrap(n, zero) = raw
      PROVE  Distance(r, cp) <= Distance(n, cp)
  <2>1. PICK l \in Int : n = l * Base + m
    BY <1>3, <1>8
  <2>2. CASE n = r
    BY <2>2, <1>5 DEF Distance
  <2>3. CASE n # r
    <3>1. n >= r + Base \/ r >= n + Base
      <4>1. lap \in Int /\ m \in Int /\ l * Base + m # lap * Base + m
        BY <1>1, <1>2, <1>4, <2>1, <2>3
      <4>2. \/ l * Base + m >= lap * Base + m + Base
            \/ lap * Base + m >= l * Base + m + Base
        BY <4>1, LapsApart
      <4> QED BY <4>2, <1>4, <2>1
    <3>2. CASE n >= r + Base
      BY <3>2, <1>1, <1>2, <1>5 DEF Distance
    <3>3. CASE r >= n + Base
      <4>1. r < cp + Base \div 2
        BY <3>3, <1>1, <1>2, <1>5
      <4> QED BY <4>1, <3>3, <1>1, <1>2, <1>5 DEF Distance
    <3> QED BY <3>1, <3>2, <3>3
  <2> QED BY <2>2, <2>3
<1> QED BY <1>5, <1>6, <1>7, <1>8 DEF r

(* Less than half a lap away from the checkpoint, unwrap() undoes wrap().    *)
LEMMA UnwrapUndoesWrap ==
    ASSUME NEW n \in Nat, NEW zero \in Wrap32,
           NEW cp \in Nat, cp < Word \div 2,
           Distance(n, cp) < Base \div 2
    PROVE  Unwrap(Wrap(n, zero), zero, cp) = n
<1> DEFINE raw == Wrap(n, zero)
           r == Unwrap(raw, zero, cp)
           m == (raw - zero + Base) % Base
<1>1. /\ Base \in Nat \ {0} /\ Base \div 2 \in Nat
      /\ 2 * (Base \div 2) = Base
  BY Widths
<1>2. raw \in Wrap32
  <2>1. n + zero \in Int
    BY <1>1 DEF Wrap32
  <2> QED BY <2>1, <1>1, DivisionAlgorithm, ZenonT(30) DEF Wrap, Wrap32
<1> HIDE DEF raw
<1>3. /\ r \in 0 .. Word - 1
      /\ Wrap(r, zero) = raw
      /\ \A k \in Nat : Wrap(k, zero) = raw => Distance(r, cp) <= Distance(k, cp)
  BY <1>2, UnwrapClosest
<1>4. m \in 0..(Base - 1)
  <2>1. raw - zero + Base \in Int
    BY <1>1, <1>2 DEF Wrap32
  <2> QED BY <2>1, <1>1, DivisionAlgorithm, ZenonT(30)
<1>5. r \in Nat
  <2>1. Word \in Nat
    BY Widths
  <2> QED BY <2>1, <1>3
<1>6. \A k \in Nat :
         Wrap(k, zero) = raw <=> \E lap \in Int : k = lap * Base + m
  BY <1>2, AtPlace
<1> HIDE DEF r, m
<1>7. PICK a \in Int : r = a * Base + m
  BY <1>3, <1>5, <1>6
<1>8. Wrap(n, zero) = raw
  BY DEF raw
<1>9. PICK b \in Int : n = b * Base + m
  BY <1>6, <1>8
<1>10. Distance(r, cp) < Base \div 2
  <2>1. Distance(r, cp) <= Distance(n, cp)
    BY <1>3, <1>8
  <2>2. Distance(r, cp) \in Int /\ Distance(n, cp) \in Int
    BY <1>5 DEF Distance
  <2> QED BY <2>1, <2>2, <1>1
<1>11. ASSUME r # n PROVE FALSE
  <2>1. m \in Int /\ a * Base + m # b * Base + m
    BY <1>4, <1>7, <1>9, <1>11
  <2>2. \/ a * Base + m >= b * Base + m + Base
        \/ b * Base + m >= a * Base + m + Base
    BY <2>1, LapsApart
  <2>3. r >= n + Base \/ n >= r + Base
    BY <2>2, <1>7, <1>9
  <2> QED BY <2>3, <1>1, <1>5, <1>10 DEF Distance
<1> QED BY <1>11 DEF r, raw

(* wrap() gives a raw value, and adding to it wraps the sum.                 *)
LEMMA WrapOfSum ==
    ASSUME NEW n \in Nat, NEW k \in Nat, NEW zero \in Wrap32
    PROVE  /\ Wrap(n, zero) \in Wrap32
           /\ Plus(Wrap(n, zero), k) = Wrap(n + k, zero)
           /\ Wrap(0, zero) = zero
<1> DEFINE a == n + zero
           q == a \div Base
           m == a % Base
           r == (m + k) % Base
           p == (m + k) \div Base
<1>1. Base \in Nat \ {0} /\ zero \in 0..(Base - 1) /\ a \in Int
  BY Widths DEF Wrap32
<1>2. m \in 0..(Base - 1) /\ q \in Int /\ a = Base * q + m
  BY <1>1, DivisionAlgorithm, ZenonT(30)
<1>3. Wrap(n, zero) = m /\ Wrap(n + k, zero) = (a + k) % Base
  <2>1. (n + k) + zero = a + k
    BY <1>1
  <2> QED BY <2>1 DEF Wrap
<1> HIDE DEF a, q, m
<1>4. r \in 0..(Base - 1) /\ p \in Int /\ m + k = Base * p + r
  <2>1. m + k \in Int
    BY <1>2
  <2> QED BY <1>1, <2>1, DivisionAlgorithm, ZenonT(30)
<1> HIDE DEF r, p
<1>5. (a + k) % Base = r
  <2>1. a + k = Base * (q + p) + r /\ a + k \in Int /\ q + p \in Int
    BY <1>1, <1>2, <1>4
  <2> QED BY <1>1, <1>4, <2>1, RemainderIs, ZenonT(30)
<1>6. Wrap(0, zero) = zero
  <2>1. 0 + zero = zero /\ zero % Base = zero
    BY <1>1, RemainderOfSlot
  <2> QED BY <2>1 DEF Wrap
<1> QED BY <1>2, <1>3, <1>5, <1>6 DEF r, m, Wrap32, Plus

(* At most half a lap above the checkpoint, unwrap() undoes wrap() too, but  *)
(* for a number exactly half a lap above, for which it may return the one as *)
(* far below: ties go to the lower candidate.                                *)
LEMMA UnwrapNearby ==
    ASSUME NEW n \in Nat, NEW zero \in Wrap32,
           NEW cp \in Nat, cp < Word \div 2,
           cp - n < Base \div 2, n - cp <= Base \div 2
    PROVE  LET r == Unwrap(Wrap(n, zero), zero, cp)
           IN  r = n \/ (r \in Nat /\ r + Base = n /\ n = cp + Base \div 2)
<1> DEFINE raw == Wrap(n, zero)
           r == Unwrap(raw, zero, cp)
           m == (raw - zero + Base) % Base
           half == Base \div 2
<1>1. Base \in Nat \ {0} /\ half \in Nat /\ 2 * half = Base /\ Word \in Nat
  BY Widths
<1>2. raw \in Wrap32
  BY WrapOfSum
<1>3. m \in 0..(Base - 1)
  <2>1. raw - zero + Base \in Int
    BY <1>1, <1>2 DEF Wrap32
  <2> QED BY <2>1, <1>1, DivisionAlgorithm, ZenonT(30)
<1>4. Wrap(n, zero) = raw
  OBVIOUS
<1> HIDE DEF raw
<1>5. /\ r \in Nat /\ Wrap(r, zero) = raw
      /\ \A k \in Nat : Wrap(k, zero) = raw => Distance(r, cp) <= Distance(k, cp)
  BY <1>1, <1>2, UnwrapClosest
<1>6. \A k \in Nat :
         Wrap(k, zero) = raw <=> \E lap \in Int : k = lap * Base + m
  BY <1>2, AtPlace
<1> HIDE DEF r, m
<1>7. PICK a \in Int : r = a * Base + m
  BY <1>5, <1>6
<1>8. PICK b \in Int : n = b * Base + m
  BY <1>4, <1>6
<1>9. Distance(r, cp) <= Distance(n, cp)
  BY <1>4, <1>5
<1>10. CASE r # n
  <2>1. m \in Int /\ a * Base + m # b * Base + m
    BY <1>3, <1>7, <1>8, <1>10
  <2>2. \/ a * Base + m >= b * Base + m + Base
        \/ b * Base + m >= a * Base + m + Base
    BY <2>1, LapsApart
  <2>3. r >= n + Base \/ n >= r + Base
    BY <2>2, <1>7, <1>8
  <2> HIDE DEF half
  <2>4. cp - n < half /\ n - cp <= half
    BY DEF half
  <2>5. r + Base = n /\ n = cp + half
    BY <2>3, <2>4, <1>1, <1>5, <1>9 DEF Distance
  <2> QED BY <2>5, <1>5 DEF r, raw, half
<1> QED BY <1>10 DEF r, raw

(* What sender and receiver use of this: the widths, that unwrap() gives an  *)
(* absolute number, and that a number in flight is recovered.                *)
LEMMA HalfLap ==
    /\ Base \in Nat \ {0} /\ Base \div 2 \in Nat /\ 2 * (Base \div 2) = Base
    /\ Word \in Nat /\ Word \div 2 \in Nat /\ Base <= Word \div 2
<1> DEFINE w == Word \div 2
<1>1. w \in Nat /\ 2 * w = Word /\ Word >= 2 * Base /\ Base \in Nat
  BY Widths
<1> HIDE DEF w
<1>2. Base <= w
  BY <1>1
<1> QED BY <1>2, Widths DEF w

LEMMA UnwrapIsNat ==
    ASSUME NEW raw \in Wrap32, NEW zero \in Wrap32, NEW cp \in Nat,
           cp < Word \div 2
    PROVE  Unwrap(raw, zero, cp) \in Nat
<1>1. Unwrap(raw, zero, cp) \in 0 .. Word - 1
  BY UnwrapClosest
<1> QED BY <1>1, HalfLap

LEMMA UnwrapRecovers ==
    ASSUME NEW n \in Nat, NEW zero \in Wrap32, NEW cp \in Nat,
           cp < Word \div 2, n <= cp, cp - n < Base \div 2
    PROVE  Unwrap(Wrap(n, zero), zero, cp) = n
<1>1. Distance(n, cp) < Base \div 2
  BY DEF Distance
<1> QED BY <1>1, UnwrapUndoesWrap
=============================================================================
