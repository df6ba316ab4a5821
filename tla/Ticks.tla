------------------------------- MODULE Ticks --------------------------------
(***************************************************************************)
(* The HAL millisecond tick and the signed comparison the firmware makes   *)
(* with it.  HAL_GetTick() returns a uint32_t that wraps; here it wraps at *)
(* TickMod = 2 * HalfRange, so HalfRange = 2^31 is the program itself and  *)
(* a small HalfRange lets TLC walk the clock round several times.          *)
(*                                                                         *)
(* Modular sums are written with one conditional subtraction instead of %, *)
(* which is the same function as long as the increment is below TickMod.   *)
(***************************************************************************)
EXTENDS Integers

CONSTANT HalfRange

ASSUME HalfRangeAssumption == HalfRange \in Nat \ {0}

TickMod == 2 * HalfRange
Ticks == 0 .. TickMod - 1

\* uint32_t addition: the tick d after t.
Later(t, d) == IF t + d >= TickMod THEN t + d - TickMod ELSE t + d

\* uint32_t subtraction: how long after s the tick t reads.
Since(t, s) == IF t >= s THEN t - s ELSE t - s + TickMod

\* (int32_t)(now - timestamp) >= 0
TimeReached(t, timestamp) == Since(t, timestamp) < HalfRange

\* What the firmware will still wait for an armed deadline.
Remaining(t, timestamp) ==
  IF TimeReached(t, timestamp) THEN 0 ELSE Since(timestamp, t)
=============================================================================
