----------------------------- MODULE TsuAdjust -----------------------------
(***************************************************************************)
(* The adjustment register image of tsu_time.c and the controller that     *)
(* fills it.  The image is a sign and a magnitude field of limited width;  *)
(* every tsu_systick_cb writes the image to the hardware once more, which  *)
(* moves the clock by that amount once more.                               *)
(***************************************************************************)
EXTENDS Integers

CONSTANT ADJUST_FIELD       \* number of values of the 30-bit magnitude field

ASSUME FieldAssumption == ADJUST_FIELD \in Nat /\ ADJUST_FIELD > 0

Magnitude(a) == IF a >= 0 THEN a ELSE -a

(***************************************************************************)
(* C's division of a by the positive b: the quotient truncates to zero.    *)
(***************************************************************************)
Quotient(a, b) == IF a >= 0 THEN a \div b ELSE -((-a) \div b)

tsu_adjustment == [direction : {"add", "subtract"}, nanosec : 0 .. ADJUST_FIELD - 1]

NoAdjustment == [direction |-> "add", nanosec |-> 0]

INTEGRAL_DIVISOR == 20

\* Mutant: the correction is the share of the integral alone.
FreqAdjShare(error_ns, integrated) == Quotient(integrated, INTEGRAL_DIVISOR)

freq_adj(error_ns, integrated) == error_ns + Quotient(integrated, INTEGRAL_DIVISOR)

InDeadZone(error_ns, integrated, boundary) ==
  /\ Magnitude(freq_adj(error_ns, integrated)) < boundary
  /\ error_ns > -boundary

\* Mutant: the direction follows the error, not the correction.
FineTuneByError(reg, error_ns, integrated, boundary) ==
  LET f == freq_adj(error_ns, integrated)
  IN  IF InDeadZone(error_ns, integrated, boundary)
        THEN reg
        ELSE [direction |-> IF error_ns > 0 THEN "add" ELSE "subtract",
              nanosec |-> Magnitude(f) % ADJUST_FIELD]

(***************************************************************************)
(* The register image after tsu_clock_fine_tune: unchanged, whatever it    *)
(* holds, when the error lies inside the dead zone.                        *)
(***************************************************************************)
tsu_clock_fine_tune(reg, error_ns, integrated, boundary) ==
  LET f == freq_adj(error_ns, integrated)
  IN  IF InDeadZone(error_ns, integrated, boundary)
        THEN reg
        ELSE [direction |-> IF f > 0 THEN "add" ELSE "subtract",
              nanosec |-> Magnitude(f) % ADJUST_FIELD]

(***************************************************************************)
(* What one write of the image does to the clock (hardware).               *)
(***************************************************************************)
ClockStep(reg) == IF reg.direction = "add" THEN reg.nanosec ELSE -reg.nanosec

=============================================================================
