------------------------ MODULE MCWrappingIntegers ------------------------
(* All the conversions two endpoints can ask for within a small word: a      *)
(* sender at any absolute sequence number, a peer whose checkpoint moves     *)
(* on its own, and any initial sequence number.                              *)
EXTENDS WrappingIntegers

CONSTANTS MaxCheckpoint     \* bound: largest checkpoint looked at

ASSUME CheckpointAssumption == MaxCheckpoint \in Nat

VARIABLES initial, absolute, reference

numberVars == <<initial, absolute, reference>>

NumbersInit ==
    /\ initial \in Wrap32
    /\ absolute = 0
    /\ reference = 0

Send(n) ==
    /\ absolute + n <= MaxCheckpoint + Base
    /\ absolute' = absolute + n
    /\ UNCHANGED <<initial, reference>>

Advance(n) ==
    /\ reference + n <= MaxCheckpoint
    /\ reference' = reference + n
    /\ UNCHANGED <<initial, absolute>>

NumbersNext == \E n \in 1..Base : Send(n) \/ Advance(n)

NumbersSpec == NumbersInit /\ [][NumbersNext]_numberVars
---------------------------------------------------------------------------
(* The absolute sequence numbers that wrap to raw.                           *)
Candidates(raw) ==
    {n \in 0 .. Word - 1 : Wrap(n, initial) = raw}

(* "Unwrap: return the absolute sequence number that wraps to this Wrap32,   *)
(* and is closest to the checkpoint" (wrapping_integers.hh:24-30), against   *)
(* the reference definition of closest.                                      *)
UnwrapIsClosest ==
    \A raw \in Wrap32 :
        LET n == Unwrap(raw, initial, reference) IN
        /\ n \in Candidates(raw)
        /\ \A m \in Candidates(raw) :
              Distance(n, reference) <= Distance(m, reference)

(* A receiver whose checkpoint is less than half a lap away from the         *)
(* segment's place in the stream recovers that place from the wrapped value. *)
RoundTrip ==
    Distance(absolute, reference) < Base \div 2 =>
        Unwrap(Wrap(absolute, initial), initial, reference) = absolute
============================================================================
