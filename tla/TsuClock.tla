------------------------------ MODULE TsuClock ------------------------------
(***************************************************************************)
(* The time stamp unit of the Ethernet MAC and the code of tsu_time.c that *)
(* reads and writes it.  The counter runs on while the processor performs  *)
(* its register accesses: tsu_get_time reads the seconds, the nanoseconds  *)
(* and the seconds again, and tsu_set_time writes the nanoseconds and then *)
(* the seconds, with any number of clock cycles between two accesses.      *)
(*                                                                         *)
(* start, ideal and rolled are history variables: the clock when the       *)
(* current read began, the clock that one indivisible write would have     *)
(* left, and the seconds that went by between the two writes.              *)
(***************************************************************************)
EXTENDS PtpTime

CONSTANTS TICK,             \* nanoseconds per cycle of the unit's clock
          MaxSeconds        \* bound on the seconds counter

ASSUME TickAssumption ==
  /\ TICK \in 1 .. NS_SEC_PERIOD - 1
  /\ MaxSeconds \in Nat

VARIABLES clock,            \* the registers TSU_TIMER_SEC and TSU_TIMER_NS
          pc,               \* the next register access of the code
          first_sec, nsec,  \* locals of tsu_get_time
          result,           \* what the last tsu_get_time returned
          arg,              \* the argument of tsu_set_time
          start, ideal, rolled

locals == <<first_sec, nsec, result, arg>>
vars == <<clock, pc, first_sec, nsec, result, arg, start, ideal, rolled>>

Clock == [seconds : Nat, nanosec : 0 .. NS_SEC_PERIOD - 1]

Settable == [seconds : 0 .. MaxSeconds, nanosec : 0 .. NS_SEC_PERIOD - 1]

Leq(a, b) ==
  \/ a.seconds < b.seconds
  \/ a.seconds = b.seconds /\ a.nanosec <= b.nanosec

(***************************************************************************)
(* The counter one cycle later, and after d nanoseconds are added or, for  *)
(* a negative d, subtracted through TSU_TIMER_ADJUST (hardware).           *)
(***************************************************************************)
Advance(c) ==
  IF c.nanosec + TICK >= NS_SEC_PERIOD
    THEN Time(c.seconds + 1, c.nanosec + TICK - NS_SEC_PERIOD)
    ELSE Time(c.seconds, c.nanosec + TICK)

Adjusted(c, d) ==
  CASE c.nanosec + d >= NS_SEC_PERIOD ->
         Time(c.seconds + 1, c.nanosec + d - NS_SEC_PERIOD)
    [] c.nanosec + d < 0 -> Time(c.seconds - 1, c.nanosec + d + NS_SEC_PERIOD)
    [] OTHER -> Time(c.seconds, c.nanosec + d)

Init ==
  /\ clock \in Settable
  /\ pc = "idle"
  /\ first_sec = 0 /\ nsec = 0
  /\ result = TimeZero /\ arg = TimeZero
  /\ start = clock /\ ideal = clock /\ rolled = 0

-----------------------------------------------------------------------------

Rollover == IF Advance(clock).seconds > clock.seconds THEN 1 ELSE 0

Tick ==
  /\ clock.seconds < MaxSeconds \/ Rollover = 0
  /\ clock' = Advance(clock)
  /\ ideal' = Advance(ideal)
  /\ rolled' = IF pc = "set_2" THEN rolled + Rollover ELSE rolled
  /\ UNCHANGED <<pc, locals, start>>

(***************************************************************************)
(* tsu_driver_adjust_time: one register write, made while no other access  *)
(* is under way because all of this code runs in the main loop.            *)
(***************************************************************************)
tsu_driver_adjust_time(d) ==
  /\ pc = "idle"
  /\ Adjusted(clock, d).seconds \in 0 .. MaxSeconds
  /\ clock' = Adjusted(clock, d)
  /\ ideal' = Adjusted(ideal, d)
  /\ UNCHANGED <<pc, locals, start, rolled>>

GetFirstSec ==
  /\ pc = "idle"
  /\ first_sec' = clock.seconds
  /\ pc' = "get_2"
  /\ start' = clock
  /\ UNCHANGED <<clock, nsec, result, arg, ideal, rolled>>

GetNanosec ==
  /\ pc = "get_2"
  /\ nsec' = clock.nanosec
  /\ pc' = "get_3"
  /\ UNCHANGED <<clock, first_sec, result, arg, start, ideal, rolled>>

\* Mutant: the second read of the seconds is not compared with the first.
ReadUnchecked(second_sec) == Time(second_sec, nsec)

\* Mutant: a rollover is returned as a full second on top of the first read.
ReadFullSecond(second_sec) ==
  Time(first_sec, IF first_sec # second_sec THEN NS_SEC_PERIOD ELSE nsec)

(***************************************************************************)
(* The value returned: a rollover seen between the two reads of the        *)
(* seconds makes the nanoseconds unusable, and they are taken to be zero.  *)
(***************************************************************************)
ReadResult(second_sec) ==
  Time(second_sec, IF first_sec # second_sec THEN 0 ELSE nsec)

GetSecondSec ==
  /\ pc = "get_3"
  /\ result' = ReadResult(clock.seconds)
  /\ pc' = "idle"
  /\ UNCHANGED <<clock, first_sec, nsec, arg, start, ideal, rolled>>

\* Mutant: the seconds are written before the nanoseconds.
SecondsFirst(k, c, ts) ==
  IF k = 1 THEN Time(ts.seconds, c.nanosec) ELSE Time(c.seconds, ts.nanosec)

(***************************************************************************)
(* The registers after the k-th write of tsu_set_time.                     *)
(***************************************************************************)
Written(k, c, ts) ==
  IF k = 1 THEN Time(c.seconds, ts.nanosec) ELSE Time(ts.seconds, c.nanosec)

SetFirst(ts) ==
  /\ pc = "idle"
  /\ clock' = Written(1, clock, ts)
  /\ arg' = ts
  /\ ideal' = ts
  /\ rolled' = 0
  /\ pc' = "set_2"
  /\ UNCHANGED <<first_sec, nsec, result, start>>

SetSecond ==
  /\ pc = "set_2"
  /\ clock' = Written(2, clock, arg)
  /\ pc' = "idle"
  /\ UNCHANGED <<first_sec, nsec, result, arg, start, ideal, rolled>>

(***************************************************************************)
(* init_tsu clears the counter with the same two writes.                   *)
(***************************************************************************)
init_tsu == SetFirst(TimeZero)

Next ==
  \/ Tick
  \/ \E d \in -(NS_SEC_PERIOD - 1) .. NS_SEC_PERIOD - 1 : tsu_driver_adjust_time(d)
  \/ GetFirstSec \/ GetNanosec \/ GetSecondSec
  \/ init_tsu
  \/ \E ts \in Settable : SetFirst(ts)
  \/ SetSecond

Spec == Init /\ [][Next]_vars

-----------------------------------------------------------------------------

(***************************************************************************)
(* The registers always hold a normalised time.                            *)
(***************************************************************************)
TypeOK ==
  /\ clock \in Clock /\ start \in Clock
  /\ ideal \in [seconds : Int, nanosec : 0 .. NS_SEC_PERIOD - 1]
  /\ arg \in Clock /\ result \in Clock
  /\ pc \in {"idle", "get_2", "get_3", "set_2"}
  /\ first_sec \in Nat /\ nsec \in 0 .. NS_SEC_PERIOD - 1
  /\ rolled \in Nat

(***************************************************************************)
(* tsu_get_time never returns a torn value: what it returns lies between   *)
(* the clock when the call began and the clock when it ends, even when the *)
(* second rolls over, once or more, between the three register reads.      *)
(***************************************************************************)
GetLinearizable ==
  [][pc = "get_3" /\ pc' = "idle" =>
       Leq(start, result') /\ Leq(result', clock)]_vars

(***************************************************************************)
(* tsu_set_time is exact but for the seconds that roll over between its    *)
(* two writes: they are lost, one by one, and the nanoseconds are exact.   *)
(* In particular the clock is never set ahead of the requested time.       *)
(***************************************************************************)
SetLosesOnlyRollovers ==
  pc = "idle" =>
    /\ clock.nanosec = ideal.nanosec
    /\ ideal.seconds = clock.seconds + rolled

=============================================================================
