------------------------------ MODULE PtpTime ------------------------------
(***************************************************************************)
(* The time arithmetic of ptp_sync.c.  A ptp_timestamp_t is a record of    *)
(* signed seconds and nanoseconds; sums and differences are taken field by *)
(* field and are never normalised, so a nanosec field may be negative or   *)
(* exceed one second.  The operators compute with unlimited integers;      *)
(* Intermediates lists the values that an int32_t has to hold on the way.  *)
(* The floating-point field dts is written by the source and never read;   *)
(* it is left out.                                                         *)
(***************************************************************************)
EXTENDS Integers

CONSTANT NS_SEC_PERIOD      \* nanoseconds in one second

ASSUME PeriodAssumption ==
  /\ NS_SEC_PERIOD \in Nat
  /\ NS_SEC_PERIOD > 1
  /\ NS_SEC_PERIOD % 2 = 0

Duration == [seconds : Int, nanosec : Int]

Time(s, n) == [seconds |-> s, nanosec |-> n]

TimeZero == Time(0, 0)

(***************************************************************************)
(* C's integer division by two: it truncates towards zero, unlike \div.    *)
(***************************************************************************)
Half(a) == IF a >= 0 THEN a \div 2 ELSE -((-a) \div 2)

ptp_time_add(a, b) == Time(a.seconds + b.seconds, a.nanosec + b.nanosec)

\* Mutant: the subtrahend's sign is lost.
SubUnsigned(a, b) == ptp_time_add(a, b)

Negative(a) == Time(-a.seconds, -a.nanosec)

ptp_time_sub(a, b) == ptp_time_add(a, Negative(b))

\* Mutant: an odd number of seconds is truncated rather than floored.
ExceptTruncated(a) ==
  IF a.seconds % 2 = 0
    THEN Time(Half(a.seconds), Half(a.nanosec))
    ELSE Time(Half(a.seconds), Half(a.nanosec) + NS_SEC_PERIOD \div 2)

(***************************************************************************)
(* Half of a duration.  An odd second is carried into the nanoseconds.     *)
(***************************************************************************)
ptp_time_except_2(a) ==
  IF a.seconds % 2 = 0
    THEN Time(Half(a.seconds), Half(a.nanosec))
    ELSE Time(Half(a.seconds - 1), Half(a.nanosec) + NS_SEC_PERIOD \div 2)

(***************************************************************************)
(* The calculation made when a Delay_Resp arrives, one operator per local  *)
(* variable of the source.                                                 *)
(***************************************************************************)
PathDelay(t1, t2, t3, t4) ==
  ptp_time_except_2(ptp_time_add(ptp_time_sub(t2, t1), ptp_time_sub(t4, t3)))

ClockOffset(t1, t2, t3, t4) ==
  ptp_time_except_2(ptp_time_sub(ptp_time_sub(t2, t1), ptp_time_sub(t4, t3)))

PropDelay(t1, t2, t3, t4) ==
  ptp_time_sub(PathDelay(t1, t2, t3, t4), ClockOffset(t1, t2, t3, t4))

SyncedTime(t1, t2, t3, t4) == ptp_time_add(t3, PropDelay(t1, t2, t3, t4))

TimeDiff(t1, t2, t3, t4, sys_ts) == ptp_time_sub(SyncedTime(t1, t2, t3, t4), sys_ts)

(***************************************************************************)
(* Every duration that is computed on the way, the negated subtrahends of  *)
(* ptp_time_sub among them.                                                *)
(***************************************************************************)
Intermediates(t1, t2, t3, t4, sys_ts) ==
  LET t2_t1 == ptp_time_sub(t2, t1)
      t4_t3 == ptp_time_sub(t4, t3)
      sum == ptp_time_add(t2_t1, t4_t3)
      difference == ptp_time_sub(t2_t1, t4_t3)
      delay == ptp_time_except_2(sum)
      offset == ptp_time_except_2(difference)
      prop_delay == ptp_time_sub(delay, offset)
      synced_time == ptp_time_add(t3, prop_delay)
  IN  { t2_t1, t4_t3, sum, difference, delay, offset, prop_delay, synced_time,
        ptp_time_sub(synced_time, sys_ts), Negative(t1), Negative(t3),
        Negative(t4_t3), Negative(offset), Negative(sys_ts) }

=============================================================================
