------------------------- MODULE WrappingIntegers -------------------------
(* src/src/wrapping_integers.cc: Wrap32, the 32-bit wrapping sequence number *)
(* of a TCP header, and its conversion from and to the 64-bit absolute       *)
(* sequence number a TCP endpoint counts with.                               *)
(* Base stands for 2^32 and Word for 2^64.  A Wrap32 is its raw value.       *)
EXTENDS Integers

CONSTANTS Base, Word

ASSUME BaseAssumption ==
    /\ Base \in Nat \ {0} /\ Word \in Nat
    /\ Base % 2 = 0
    /\ Word % (2 * Base) = 0 /\ Word > 0

Wrap32 == 0 .. Base - 1

(* Mutant: the zero point is left out.                                       *)
WrapFromZero(n, zero_point) == n % Base
Wrap(n, zero_point) == (n + zero_point) % Base

(* Wrap32::operator+                                                         *)
Plus(raw, n) == (raw + n) % Base

(* int64_t(n) of a 64-bit unsigned n, and the division of C++, which rounds  *)
(* toward zero.                                                              *)
Signed(n) == IF n < Word \div 2 THEN n ELSE n - Word
Quotient(a, b) == IF a >= 0 THEN a \div b ELSE -((-a) \div b)

(* Where unwrap() starts looking: the candidate one lap below the checkpoint *)
(* or, in the first lap, the smallest candidate.                             *)
FirstCandidate(raw, zero_point, checkpoint) ==
    LET modlen == (raw - zero_point + Base) % Base
        lap    == Quotient(Signed(checkpoint), Base)
    IN  IF lap = 0 THEN modlen ELSE ((lap - 1) * Base + modlen) % Word

(* The loop adds a lap until the candidate is no longer more than half a lap *)
(* below the checkpoint.                                                     *)
CloseEnough(candidate, checkpoint) ==
    candidate >= checkpoint \/ checkpoint - candidate <= Base \div 2

(* Mutant: the search stops a whole lap below the checkpoint.                *)
UnwrapTooEarly(raw, zero_point, checkpoint) ==
    LET first == FirstCandidate(raw, zero_point, checkpoint)
        laps  == CHOOSE k \in 0 .. Word \div Base :
                    /\ CloseEnough(first + k * Base + Base \div 2, checkpoint)
                    /\ \A j \in 0..(k - 1) :
                         ~CloseEnough(first + j * Base + Base \div 2, checkpoint)
    IN  first + laps * Base

Unwrap(raw, zero_point, checkpoint) ==
    LET first == FirstCandidate(raw, zero_point, checkpoint)
        laps  == CHOOSE k \in 0 .. Word \div Base :
                    /\ CloseEnough(first + k * Base, checkpoint)
                    /\ \A j \in 0..(k - 1) :
                         ~CloseEnough(first + j * Base, checkpoint)
    IN  first + laps * Base
---------------------------------------------------------------------------
(* How far apart two absolute numbers are.                                   *)
Distance(a, b) == IF a >= b THEN a - b ELSE b - a
============================================================================
