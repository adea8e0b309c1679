-------------------------- MODULE TimeSync_proofs --------------------------
(***************************************************************************)
(* Proofs about the status of the time service, for every value of its     *)
(* limits and every order of its callbacks.                                *)
(***************************************************************************)
EXTENDS TimeSync, TLAPS

(***************************************************************************)
(* Stamps are read from the uptime, whose difference to any of them is the *)
(* age that the code computes as long as it is below half the word.  While *)
(* no coarse time was received its stamp and its value are zero.           *)
(***************************************************************************)
StampedAt == IF coarse_at = Never THEN 0 ELSE coarse_at

IInv ==
  /\ TypeOK
  /\ ServiceConsistent
  /\ coarse_at <= uptime
  /\ last_coarse_time_stamp = StampedAt % UINT32
  /\ coarse_at = Never => last_coarse_time_value = 0

LEMMA StampInWord == ASSUME NEW u \in Nat PROVE u % UINT32 \in 0 .. UINT32 - 1
  BY TimeSyncAssumption

LEMMA QuotientInt == ASSUME NEW a \in Int PROVE Quotient(a, 10) \in Int
  BY DEF Quotient

LEMMA IInvInit == Init => IInv
  <1>1. 0 % UINT32 = 0 /\ 0 \in 0 .. UINT32 - 1 /\ 0 \in 0 .. RESYNC_COARSE_TIME
    BY TimeSyncAssumption
  <1> SUFFICES ASSUME Init PROVE IInv
    OBVIOUS
  <1>2. coarse_service_ok \in BOOLEAN /\ ServiceConsistent
    BY Zenon DEF Init, ServiceInit, ServiceConsistent
  <1> QED  BY <1>1, <1>2 DEF Init, ServiceInit, IInv, TypeOK, States, StampedAt, Never

LEMMA IInvNext == IInv /\ [Next]_vars => IInv'
  <1> SUFFICES ASSUME IInv, [Next]_vars PROVE IInv'
    OBVIOUS
  <1> USE DEF IInv, TypeOK, ServiceConsistent, States, stamps, StampedAt, Never
  <1>1. ASSUME NEW ts \in CoarseTimes, NEW n \in 0 .. NS_SEC_PERIOD - 1,
               NEW c \in 0 .. NS_SEC_PERIOD - 1, coarse_time_received(ts, n, c)
        PROVE  IInv'
    <2>1. /\ ts \in Nat /\ tsu_get_uptime_ms \in 0 .. UINT32 - 1
          /\ tsu_get_uptime_ms = uptime % UINT32
      BY TimeSyncAssumption, StampInWord DEF tsu_get_uptime_ms
    <2>2. CASE UseCoarse
      BY <1>1, <2>1, <2>2, TimeSyncAssumption DEF coarse_time_received
    <2>3. CASE ~UseCoarse
      BY <1>1, <2>1, <2>3, TimeSyncAssumption DEF coarse_time_received, UseCoarse
    <2> QED  BY <2>2, <2>3
  <1>2. ASSUME NEW ts \in CoarseTimes, NEW n \in 0 .. NS_SEC_PERIOD - 1,
               fine_time_received(ts, n)
        PROVE  IInv'
    BY <1>2 DEF fine_time_received
  <1>3. ASSUME NEW c \in 0 .. NS_SEC_PERIOD - 1, pps_received(c) PROVE IInv'
    <2>1. tsu_get_uptime_ms \in 0 .. UINT32 - 1
      BY StampInWord DEF tsu_get_uptime_ms
    <2>2. sync_diff_integrated_ns' \in Int
      <3>1. PpsError(c) \in Int
        BY TimeSyncAssumption DEF PpsError
      <3>2. Quotient(sync_diff_integrated_ns - PpsError(c), 10) \in Int
        BY <3>1, QuotientInt
      <3> QED  BY <1>3, <3>2 DEF pps_received, PpsCorrect
    <2> QED  BY <1>3, <2>1, <2>2 DEF pps_received
  <1>4. CASE coarse_timeout
    BY <1>4 DEF coarse_timeout
  <1>5. CASE fine_timeout
    BY <1>5 DEF fine_timeout, FineFallback
  <1>6. CASE housekeeping
    BY <1>6 DEF housekeeping
  <1>7. ASSUME NEW e \in Errors, update_error(e) \/ update_error(-e) PROVE IInv'
    BY <1>7, TimeSyncAssumption DEF update_error
  <1>8. CASE SysTick
    BY <1>8 DEF SysTick
  <1>9. CASE UNCHANGED vars
    BY <1>9 DEF vars
  <1> QED  BY <1>1, <1>2, <1>3, <1>4, <1>5, <1>6, <1>7, <1>8, <1>9 DEF Next

(***************************************************************************)
(* The inductive invariant of the time service.                            *)
(***************************************************************************)
THEOREM TimeSyncInvariant == Spec => []IInv
  BY IInvInit, IInvNext, PTL DEF Spec

(***************************************************************************)
(* The stamps stay in their word and the counter of coarse_time_received   *)
(* within its limit.                                                       *)
(***************************************************************************)
THEOREM ServiceTypeCorrect == Spec => []TypeOK
  <1>1. IInv => TypeOK
    BY DEF IInv
  <1> QED  BY <1>1, TimeSyncInvariant, PTL

(***************************************************************************)
(* No order of receptions and timeouts lets the status and the flag of the *)
(* coarse service disagree.                                                *)
(***************************************************************************)
THEOREM ServiceAlwaysConsistent == Spec => []ServiceConsistent
  <1>1. IInv => ServiceConsistent
    BY DEF IInv
  <1> QED  BY <1>1, TimeSyncInvariant, PTL

(***************************************************************************)
(* Below one word of distance, the difference of two stamps modulo the     *)
(* word is the difference of the instants they were taken at.              *)
(***************************************************************************)
LEMMA WrappedDifference ==
  ASSUME NEW W \in Nat \ {0}, NEW a \in Nat, NEW u \in Nat, a <= u, u - a < W
  PROVE  ((u % W) - (a % W)) % W = u - a
  <1> DEFINE q == u \div W  r == u % W  p == a \div W  s == a % W
  <1>1. /\ q \in Int /\ p \in Int
        /\ r \in 0 .. W - 1 /\ s \in 0 .. W - 1
        /\ u = W * q + r /\ a = W * p + s
    OBVIOUS
  <1> HIDE DEF q, r, p, s
  <1>2. q = p \/ q = p + 1
    <2>1. W * q - W * p = W * (q - p)
      BY <1>1
    <2>2. W * (q - p) < 2 * W /\ W * (q - p) > -W
      BY <1>1, <2>1
    <2> QED  BY <1>1, <2>2
  <1>3. CASE q = p
    <2>1. r - s = u - a
      BY <1>1, <1>3
    <2> QED  BY <2>1 DEF r, s
  <1>4. CASE q = p + 1
    <2>1. W * q = W * p + W
      BY <1>1, <1>4
    <2>2. r - s = (u - a) - W
      BY <1>1, <2>1
    <2>3. ((u - a) - W) % W = u - a
      OBVIOUS
    <2> QED  BY <2>2, <2>3 DEF r, s
  <1> QED  BY <1>2, <1>3, <1>4

(***************************************************************************)
(* The age that the code computes is below its limit only when the stamp   *)
(* is young, or so old that the difference has wrapped.                    *)
(***************************************************************************)
LEMMA FreshMeans ==
  ASSUME NEW a \in Nat, NEW u \in Nat, a <= u, uptime = u,
         last_coarse_time_stamp = a % UINT32, CoarseFresh
  PROVE  PassesForFresh(a)
  <1> SUFFICES ASSUME 2 * (u - a) < UINT32 PROVE u - a < COARSE_TIME_AGE_MAX
    BY TimeSyncAssumption DEF PassesForFresh
  <1>1. ((u % UINT32) - (a % UINT32)) % UINT32 = u - a
    <2>1. UINT32 \in Nat \ {0} /\ u - a < UINT32
      BY TimeSyncAssumption
    <2> QED  BY <2>1, WrappedDifference
  <1>2. Age(last_coarse_time_stamp) = u - a
    BY <1>1, TimeSyncAssumption DEF Age, tsu_get_uptime_ms
  <1> QED  BY <1>2 DEF CoarseFresh

(***************************************************************************)
(* A pulse steps the clock only from a coarse time received less than      *)
(* COARSE_TIME_AGE_MAX or at least half a word of milliseconds ago; when   *)
(* none was ever received, only while the start of the program is as       *)
(* recent, or as long ago, and then to second 1.                           *)
(***************************************************************************)
THEOREM StepsAlwaysFresh == Spec => StepsOnFreshCoarse
  <1>1. IInv /\ [Next]_vars =>
          [last_pps_time_stamp' # last_pps_time_stamp /\ out'.call = "tsu_set_time" =>
             IF coarse_at = Never
               THEN PassesForFresh(0) /\ out'.seconds = 1 % UINT32
               ELSE PassesForFresh(coarse_at)]_vars
    <2> SUFFICES ASSUME IInv, Next,
                        last_pps_time_stamp' # last_pps_time_stamp,
                        out'.call = "tsu_set_time"
                 PROVE  IF coarse_at = Never
                          THEN PassesForFresh(0) /\ out'.seconds = 1 % UINT32
                          ELSE PassesForFresh(coarse_at)
      OBVIOUS
    <2>1. PICK c \in 0 .. NS_SEC_PERIOD - 1 : pps_received(c)
      BY DEF Next, coarse_time_received, fine_time_received, coarse_timeout,
             fine_timeout, housekeeping, update_error, SysTick, stamps
    <2>2. /\ CoarseFresh
          /\ out'.seconds = (last_coarse_time_value + 1) % UINT32
      BY <2>1 DEF pps_received, PpsCorrect, Nothing, FineTune, SetTime
    <2>3. /\ StampedAt \in Nat /\ uptime \in Nat /\ StampedAt <= uptime
          /\ last_coarse_time_stamp = StampedAt % UINT32
      BY DEF IInv, TypeOK, StampedAt, Never
    <2>4. PassesForFresh(StampedAt)
      BY <2>2, <2>3, FreshMeans
    <2>5. CASE coarse_at = Never
      <3>1. StampedAt = 0 /\ last_coarse_time_value + 1 = 1
        BY <2>5 DEF StampedAt, IInv
      <3> QED  BY <2>2, <2>4, <2>5, <3>1
    <2>6. CASE coarse_at # Never
      BY <2>4, <2>6 DEF StampedAt
    <2> QED  BY <2>5, <2>6
  <1> QED  BY <1>1, TimeSyncInvariant, PTL DEF Spec, StepsOnFreshCoarse

=============================================================================
