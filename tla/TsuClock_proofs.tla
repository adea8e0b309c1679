-------------------------- MODULE TsuClock_proofs --------------------------
(***************************************************************************)
(* Proofs about the reads and writes of the time stamp unit, for every     *)
(* length of the second and every clock period.                            *)
(***************************************************************************)
EXTENDS TsuClock, TLAPS

(***************************************************************************)
(* What the reader knows after each of its accesses: the clock has not     *)
(* gone back since the call began, and the nanoseconds read belong to the  *)
(* first second for as long as that second lasts.                          *)
(***************************************************************************)
ReaderInv ==
  /\ pc \in {"get_2", "get_3"} => first_sec = start.seconds /\ Leq(start, clock)
  /\ pc = "get_3" /\ clock.seconds = first_sec =>
       start.nanosec <= nsec /\ nsec <= clock.nanosec

(***************************************************************************)
(* What the writer has achieved: after the first write the nanoseconds are *)
(* exact and the seconds still to be written are short by the rollovers.   *)
(***************************************************************************)
WriterInv ==
  /\ clock.nanosec = ideal.nanosec
  /\ pc = "set_2" => ideal.seconds = arg.seconds + rolled
  /\ pc # "set_2" => ideal.seconds = clock.seconds + rolled

IInv == TypeOK /\ ReaderInv /\ WriterInv

(***************************************************************************)
(* One cycle moves every time with the same nanoseconds in the same way:   *)
(* either forward within the second or into the next one.                  *)
(***************************************************************************)
LEMMA AdvanceUniform ==
  ASSUME NEW n \in 0 .. NS_SEC_PERIOD - 1
  PROVE  \E e \in 0 .. 1, m \in 0 .. NS_SEC_PERIOD - 1 :
           /\ e = 0 => m >= n
           /\ \A t \in Int : Advance(Time(t, n)) = Time(t + e, m)
  <1>1. CASE n + TICK >= NS_SEC_PERIOD
    <2>1. n + TICK - NS_SEC_PERIOD \in 0 .. NS_SEC_PERIOD - 1
      BY <1>1, TickAssumption, PeriodAssumption
    <2>2. \A t \in Int : Advance(Time(t, n)) = Time(t + 1, n + TICK - NS_SEC_PERIOD)
      BY <1>1 DEF Advance, Time
    <2> QED  BY <2>1, <2>2
  <1>2. CASE n + TICK < NS_SEC_PERIOD
    <2>1. n + TICK \in 0 .. NS_SEC_PERIOD - 1 /\ n + TICK >= n
      BY <1>2, TickAssumption, PeriodAssumption
    <2>2. \A t \in Int : Advance(Time(t, n)) = Time(t + 0, n + TICK)
      BY <1>2, TickAssumption, PeriodAssumption DEF Advance, Time
    <2> QED  BY <2>1, <2>2
  <1> QED  BY <1>1, <1>2, TickAssumption, PeriodAssumption

LEMMA AdjustedUniform ==
  ASSUME NEW n \in 0 .. NS_SEC_PERIOD - 1,
         NEW d \in -(NS_SEC_PERIOD - 1) .. NS_SEC_PERIOD - 1
  PROVE  \E e \in -1 .. 1, m \in 0 .. NS_SEC_PERIOD - 1 :
           \A t \in Int : Adjusted(Time(t, n), d) = Time(t + e, m)
  <1>1. CASE n + d >= NS_SEC_PERIOD
    <2>1. n + d - NS_SEC_PERIOD \in 0 .. NS_SEC_PERIOD - 1
      BY <1>1, PeriodAssumption
    <2>2. \A t \in Int : Adjusted(Time(t, n), d) = Time(t + 1, n + d - NS_SEC_PERIOD)
      BY <1>1, PeriodAssumption DEF Adjusted, Time
    <2> QED  BY <2>1, <2>2
  <1>2. CASE n + d < 0
    <2>1. n + d + NS_SEC_PERIOD \in 0 .. NS_SEC_PERIOD - 1
      BY <1>2, PeriodAssumption
    <2>2. \A t \in Int : Adjusted(Time(t, n), d) = Time(t + (-1), n + d + NS_SEC_PERIOD)
      BY <1>2, PeriodAssumption DEF Adjusted, Time
    <2> QED  BY <2>1, <2>2
  <1>3. CASE n + d >= 0 /\ n + d < NS_SEC_PERIOD
    <2>1. n + d \in 0 .. NS_SEC_PERIOD - 1
      BY <1>3, PeriodAssumption
    <2>2. \A t \in Int : Adjusted(Time(t, n), d) = Time(t + 0, n + d)
      BY <1>3, PeriodAssumption DEF Adjusted, Time
    <2> QED  BY <2>1, <2>2
  <1> QED  BY <1>1, <1>2, <1>3, PeriodAssumption

LEMMA IInvInit == Init => IInv
  BY TickAssumption, PeriodAssumption
  DEF Init, IInv, TypeOK, ReaderInv, WriterInv, Settable, Clock, TimeZero, Time

LEMMA IInvNext == IInv /\ [Next]_vars => IInv'
  <1> SUFFICES ASSUME IInv, [Next]_vars PROVE IInv'
    OBVIOUS
  <1>0. /\ clock.seconds \in Nat /\ clock.nanosec \in 0 .. NS_SEC_PERIOD - 1
        /\ ideal.seconds \in Int /\ ideal.nanosec \in 0 .. NS_SEC_PERIOD - 1
        /\ start.seconds \in Nat /\ start.nanosec \in 0 .. NS_SEC_PERIOD - 1
        /\ arg.seconds \in Nat /\ arg.nanosec \in 0 .. NS_SEC_PERIOD - 1
        /\ clock = Time(clock.seconds, clock.nanosec)
        /\ ideal = Time(ideal.seconds, ideal.nanosec)
    BY DEF IInv, TypeOK, Clock, Time
  <1> USE DEF locals
  <1>1. CASE Tick
    <2>1. PICK e \in 0 .. 1, m \in 0 .. NS_SEC_PERIOD - 1 :
            /\ e = 0 => m >= clock.nanosec
            /\ \A t \in Int : Advance(Time(t, clock.nanosec)) = Time(t + e, m)
      BY <1>0, AdvanceUniform
    <2>2. /\ clock' = Time(clock.seconds + e, m)
          /\ ideal' = Time(ideal.seconds + e, m)
          /\ UNCHANGED <<pc, first_sec, nsec, result, arg, start>>
      BY <1>0, <1>1, <2>1 DEF Tick, IInv, WriterInv
    <2>3. /\ clock'.seconds = clock.seconds + e /\ clock'.nanosec = m
          /\ ideal'.seconds = ideal.seconds + e /\ ideal'.nanosec = m
      BY <2>2 DEF Time
    <2>4. rolled' = IF pc = "set_2" THEN rolled + e ELSE rolled
      BY <1>0, <1>1, <2>3 DEF Tick, Rollover
    <2>5. TypeOK'
      BY <1>0, <2>2, <2>4, PeriodAssumption DEF IInv, TypeOK, Clock, Time
    <2>6. ReaderInv'
      BY <1>0, <2>1, <2>2, <2>3, PeriodAssumption DEF IInv, TypeOK, ReaderInv, Leq
    <2>7. WriterInv'
      BY <1>0, <2>2, <2>3, <2>4 DEF IInv, TypeOK, WriterInv
    <2> QED  BY <2>5, <2>6, <2>7 DEF IInv
  <1>2. ASSUME NEW d \in -(NS_SEC_PERIOD - 1) .. NS_SEC_PERIOD - 1,
               tsu_driver_adjust_time(d)
        PROVE  IInv'
    <2>1. PICK e \in -1 .. 1, m \in 0 .. NS_SEC_PERIOD - 1 :
            \A t \in Int : Adjusted(Time(t, clock.nanosec), d) = Time(t + e, m)
      BY <1>0, AdjustedUniform
    <2>2. /\ clock' = Time(clock.seconds + e, m)
          /\ ideal' = Time(ideal.seconds + e, m)
          /\ clock'.seconds \in Nat /\ pc = "idle"
          /\ UNCHANGED <<pc, first_sec, nsec, result, arg, start, rolled>>
      BY <1>0, <1>2, <2>1, TickAssumption
      DEF tsu_driver_adjust_time, IInv, WriterInv
    <2>3. /\ clock'.seconds = clock.seconds + e /\ clock'.nanosec = m
          /\ ideal'.seconds = ideal.seconds + e /\ ideal'.nanosec = m
      BY <2>2 DEF Time
    <2>4. TypeOK'
      BY <1>0, <2>2, <2>3, PeriodAssumption DEF IInv, TypeOK, Clock, Time
    <2>5. ReaderInv'
      BY <2>2 DEF ReaderInv
    <2>6. WriterInv'
      BY <1>0, <2>2, <2>3 DEF IInv, TypeOK, WriterInv
    <2> QED  BY <2>4, <2>5, <2>6 DEF IInv
  <1>3. CASE GetFirstSec
    BY <1>0, <1>3 DEF GetFirstSec, IInv, TypeOK, ReaderInv, WriterInv, Leq, Clock
  <1>4. CASE GetNanosec
    BY <1>0, <1>4 DEF GetNanosec, IInv, TypeOK, ReaderInv, WriterInv, Leq, Clock
  <1>5. CASE GetSecondSec
    <2>1. result' \in Clock
      BY <1>0, <1>5, PeriodAssumption
      DEF GetSecondSec, ReadResult, IInv, TypeOK, Clock, Time
    <2> QED  BY <1>5, <2>1 DEF GetSecondSec, IInv, TypeOK, ReaderInv, WriterInv
  <1>6. ASSUME NEW ts \in Clock, SetFirst(ts) PROVE IInv'
    <2>1. /\ ts.seconds \in Nat /\ ts.nanosec \in 0 .. NS_SEC_PERIOD - 1
          /\ clock' = Time(clock.seconds, ts.nanosec)
          /\ arg' = ts /\ ideal' = ts /\ rolled' = 0 /\ pc' = "set_2"
          /\ UNCHANGED <<first_sec, nsec, result, start>>
      BY <1>6 DEF SetFirst, Written, Clock
    <2> QED  BY <1>0, <2>1 DEF IInv, TypeOK, ReaderInv, WriterInv, Clock, Time
  <1>7. CASE SetSecond
    <2>1. /\ clock' = Time(arg.seconds, clock.nanosec)
          /\ pc = "set_2" /\ pc' = "idle"
          /\ UNCHANGED <<first_sec, nsec, result, arg, start, ideal, rolled>>
      BY <1>7 DEF SetSecond, Written
    <2> QED  BY <1>0, <2>1 DEF IInv, TypeOK, ReaderInv, WriterInv, Clock, Time
  <1>8. CASE UNCHANGED vars
    BY <1>8 DEF vars, IInv, TypeOK, ReaderInv, WriterInv
  <1>9. CASE init_tsu
    <2>1. TimeZero \in Clock
      BY PeriodAssumption DEF TimeZero, Time, Clock
    <2> QED  BY <1>6, <1>9, <2>1 DEF init_tsu
  <1>10. Settable \subseteq Clock
    BY TickAssumption DEF Settable, Clock
  <1> QED  BY <1>1, <1>2, <1>3, <1>4, <1>5, <1>6, <1>7, <1>8, <1>9, <1>10 DEF Next

(***************************************************************************)
(* The inductive invariant: type, reader and writer facts together.        *)
(***************************************************************************)
THEOREM ClockInvariant == Spec => []IInv
  BY IInvInit, IInvNext, PTL DEF Spec

(***************************************************************************)
(* The registers, the locals of a call and its result keep legal values,   *)
(* between any two register accesses of tsu_get_time and tsu_set_time.     *)
(***************************************************************************)
THEOREM ClockTypeCorrect == Spec => []TypeOK
  <1>1. IInv => TypeOK
    BY DEF IInv
  <1> QED  BY <1>1, ClockInvariant, PTL

(***************************************************************************)
(* A write of the clock loses only the seconds that roll over between its  *)
(* two register accesses.                                                  *)
(***************************************************************************)
THEOREM SetIsExactButForRollovers == Spec => []SetLosesOnlyRollovers
  <1>1. IInv => SetLosesOnlyRollovers
    BY DEF IInv, WriterInv, SetLosesOnlyRollovers
  <1> QED  BY <1>1, ClockInvariant, PTL

(***************************************************************************)
(* tsu_get_time never returns a torn time.                                 *)
(***************************************************************************)
THEOREM GetIsLinearizable == Spec => GetLinearizable
  <1>1. IInv /\ [Next]_vars =>
          [pc = "get_3" /\ pc' = "idle" =>
             Leq(start, result') /\ Leq(result', clock)]_vars
    <2> SUFFICES ASSUME IInv, Next, pc = "get_3", pc' = "idle"
                 PROVE  Leq(start, result') /\ Leq(result', clock)
      OBVIOUS
    <2>1. GetSecondSec
      BY DEF Next, Tick, tsu_driver_adjust_time, GetFirstSec, GetNanosec,
             init_tsu, SetFirst, SetSecond
    <2>2. /\ result' = ReadResult(clock.seconds)
          /\ clock.seconds \in Nat /\ clock.nanosec \in 0 .. NS_SEC_PERIOD - 1
          /\ start.seconds \in Nat /\ start.nanosec \in Nat
          /\ first_sec = start.seconds /\ Leq(start, clock)
      BY <2>1, PeriodAssumption DEF GetSecondSec, IInv, TypeOK, ReaderInv, Clock
    <2>3. CASE first_sec = clock.seconds
      BY <2>2, <2>3 DEF ReadResult, Time, Leq, IInv, ReaderInv
    <2>4. CASE first_sec # clock.seconds
      BY <2>2, <2>4, PeriodAssumption DEF ReadResult, Time, Leq
    <2> QED  BY <2>3, <2>4
  <1> QED  BY <1>1, ClockInvariant, PTL DEF Spec, GetLinearizable

=============================================================================
