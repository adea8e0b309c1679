---------------------------- MODULE PtpSlave_proofs ----------------------------
(***************************************************************************)
(* Proofs about the PTP message interpreter, for every length of the       *)
(* second, every byte size and every set of second values that fits the    *)
(* wire format, and about the whole slave on its network, for every delay  *)
(* and every number of messages under way.                                 *)
(***************************************************************************)
EXTENDS PtpSlave, TLAPS

(***************************************************************************)
(* Truncating division by two loses at most the odd unit, towards zero.    *)
(***************************************************************************)
LEMMA HalfBounds ==
  ASSUME NEW a \in Int
  PROVE  /\ Half(a) \in Int
         /\ a % 2 = 0 => 2 * Half(a) = a
         /\ a % 2 # 0 /\ a >= 0 => 2 * Half(a) = a - 1
         /\ a % 2 # 0 /\ a < 0 => 2 * Half(a) = a + 1
  BY DEF Half

(***************************************************************************)
(* Halving the sum and the difference of two numbers and subtracting gives *)
(* back the second number, up to one unit towards zero.                    *)
(***************************************************************************)
LEMMA HalfDifference ==
  ASSUME NEW u \in Int, NEW v \in Int
  PROVE  /\ Half(u + v) - Half(u - v) \in v - 1 .. v + 1
         /\ v >= 0 => Half(u + v) - Half(u - v) <= v
         /\ v <= 0 => Half(u + v) - Half(u - v) >= v
         /\ v = 0 => Half(u + v) - Half(u - v) = 0
  BY DEF Half

(***************************************************************************)
(* The seconds of half a duration are the floor of half its seconds; its   *)
(* nanoseconds are half, plus half a second when the seconds are odd.      *)
(***************************************************************************)
LEMMA ExceptTwo ==
  ASSUME NEW a \in Duration
  PROVE  /\ ptp_time_except_2(a) \in Duration
         /\ a.seconds % 2 = 0 =>
              /\ 2 * ptp_time_except_2(a).seconds = a.seconds
              /\ ptp_time_except_2(a).nanosec = Half(a.nanosec)
         /\ a.seconds % 2 # 0 =>
              /\ 2 * ptp_time_except_2(a).seconds = a.seconds - 1
              /\ ptp_time_except_2(a).nanosec = Half(a.nanosec) + NS_SEC_PERIOD \div 2
  <1>0. /\ a.seconds \in Int /\ a.nanosec \in Int
        /\ NS_SEC_PERIOD \div 2 \in Int
    BY PeriodAssumption DEF Duration
  <1>1. /\ Half(a.seconds) \in Int
        /\ Half(a.seconds - 1) \in Int
        /\ Half(a.nanosec) \in Int
        /\ a.seconds % 2 = 0 => 2 * Half(a.seconds) = a.seconds
        /\ a.seconds % 2 # 0 => 2 * Half(a.seconds - 1) = a.seconds - 1
    <2>1. a.seconds % 2 # 0 => (a.seconds - 1) % 2 = 0
      BY <1>0
    <2>2. a.seconds - 1 \in Int
      BY <1>0
    <2> QED  BY <1>0, <2>1, <2>2, HalfBounds
  <1>2. CASE a.seconds % 2 = 0
    <2>1. ptp_time_except_2(a) = Time(Half(a.seconds), Half(a.nanosec))
      BY <1>2 DEF ptp_time_except_2
    <2> QED  BY <2>1, <1>1, <1>2 DEF Time, Duration
  <1>3. CASE a.seconds % 2 # 0
    <2>1. ptp_time_except_2(a)
            = Time(Half(a.seconds - 1), Half(a.nanosec) + NS_SEC_PERIOD \div 2)
      BY <1>3 DEF ptp_time_except_2
    <2> QED  BY <2>1, <1>0, <1>1, <1>3 DEF Time, Duration
  <1> QED  BY <1>2, <1>3

(***************************************************************************)
(* Sums and differences work field by field.                               *)
(***************************************************************************)
LEMMA AddSub ==
  ASSUME NEW a \in Duration, NEW b \in Duration
  PROVE  /\ ptp_time_add(a, b) \in Duration
         /\ ptp_time_sub(a, b) \in Duration
         /\ ptp_time_add(a, b).seconds = a.seconds + b.seconds
         /\ ptp_time_add(a, b).nanosec = a.nanosec + b.nanosec
         /\ ptp_time_sub(a, b).seconds = a.seconds - b.seconds
         /\ ptp_time_sub(a, b).nanosec = a.nanosec - b.nanosec
         /\ Negative(b).nanosec = -b.nanosec
  BY DEF ptp_time_add, ptp_time_sub, Negative, Time, Duration

LEMMA TimestampIsDuration ==
  ASSUME NEW a \in Timestamp
  PROVE  /\ a \in Duration
         /\ a.seconds \in Seconds
         /\ a.nanosec \in 0 .. NS_SEC_PERIOD - 1
         /\ a = Time(a.seconds, a.nanosec)
  <1>1. \A s \in Seconds : s \in Int
    BY SecondsAssumption
  <1>2. \A n \in 0 .. NS_SEC_PERIOD - 1 : n \in Int
    BY PeriodAssumption
  <1>3. /\ a = [seconds |-> a.seconds, nanosec |-> a.nanosec]
        /\ a.seconds \in Seconds
        /\ a.nanosec \in 0 .. NS_SEC_PERIOD - 1
    BY DEF Timestamp
  <1> QED  BY <1>1, <1>2, <1>3 DEF Duration, Time

(***************************************************************************)
(* The facts about one calculation, for any four durations: in unlimited   *)
(* integers the synced time is t4 up to the rounding of two halvings, and  *)
(* well formed when t3 and t4 are.                                         *)
(***************************************************************************)
LegalNanosec(x) == x.nanosec \in 0 .. NS_SEC_PERIOD - 1

LEMMA SyncedTimeIsT4 ==
  ASSUME NEW a \in Duration, NEW b \in Duration,
         NEW c \in Duration, NEW d \in Duration
  PROVE  /\ SyncedTime(a, b, c, d) \in Duration
         /\ SyncedTime(a, b, c, d).seconds = d.seconds
         /\ Near(SyncedTime(a, b, c, d).nanosec, d.nanosec)
         /\ LegalNanosec(c) /\ LegalNanosec(d) => LegalNanosec(SyncedTime(a, b, c, d))
  <1> DEFINE p == ptp_time_sub(b, a)
             q == ptp_time_sub(d, c)
             sum == ptp_time_add(p, q)
             dif == ptp_time_sub(p, q)
             delay == ptp_time_except_2(sum)
             offset == ptp_time_except_2(dif)
             prop == ptp_time_sub(delay, offset)
             synced == ptp_time_add(c, prop)
             NS == NS_SEC_PERIOD
  <1>2. /\ PathDelay(a, b, c, d) = delay
        /\ ClockOffset(a, b, c, d) = offset
        /\ PropDelay(a, b, c, d) = prop
        /\ SyncedTime(a, b, c, d) = synced
    BY DEF PathDelay, ClockOffset, PropDelay, SyncedTime
  <1>3. /\ p \in Duration /\ q \in Duration /\ sum \in Duration /\ dif \in Duration
        /\ p.nanosec = b.nanosec - a.nanosec
        /\ q.nanosec = d.nanosec - c.nanosec
        /\ q.seconds = d.seconds - c.seconds
        /\ sum.nanosec = p.nanosec + q.nanosec
        /\ dif.nanosec = p.nanosec - q.nanosec
        /\ sum.seconds = p.seconds + q.seconds
        /\ dif.seconds = p.seconds - q.seconds
    <2>1. p \in Duration /\ q \in Duration
      BY AddSub
    <2> QED  BY <2>1, AddSub
  <1>4. /\ delay \in Duration /\ offset \in Duration
        /\ prop \in Duration /\ synced \in Duration
        /\ prop.seconds = delay.seconds - offset.seconds
        /\ prop.nanosec = delay.nanosec - offset.nanosec
        /\ synced.seconds = c.seconds + prop.seconds
        /\ synced.nanosec = c.nanosec + prop.nanosec
    <2>1. delay \in Duration /\ offset \in Duration
      BY <1>3, ExceptTwo
    <2>2. prop \in Duration
      BY <2>1, AddSub
    <2> QED  BY <2>1, <2>2, AddSub
  <1> HIDE DEF p, q, sum, dif, delay, offset, prop, synced
  \* The sum and the difference have seconds of the same parity, so the half
  \* second carried by one halving is carried by the other and cancels.
  <1>5. prop.seconds = q.seconds /\
        prop.nanosec = Half(sum.nanosec) - Half(dif.nanosec)
    <2>1. /\ p.seconds \in Int /\ q.seconds \in Int
          /\ sum.seconds \in Int /\ dif.seconds \in Int
          /\ delay.seconds \in Int /\ offset.seconds \in Int
          /\ Half(sum.nanosec) \in Int /\ Half(dif.nanosec) \in Int
          /\ NS \div 2 \in Int
      BY <1>3, <1>4, HalfBounds, PeriodAssumption DEF Duration
    <2>2. sum.seconds % 2 = dif.seconds % 2
      BY <1>3, <2>1
    <2>3. CASE sum.seconds % 2 = 0
      <3>1. /\ 2 * delay.seconds = sum.seconds
            /\ 2 * offset.seconds = dif.seconds
            /\ delay.nanosec = Half(sum.nanosec)
            /\ offset.nanosec = Half(dif.nanosec)
        BY <1>3, <2>2, <2>3, ExceptTwo DEF delay, offset
      <3> QED  BY <1>3, <1>4, <2>1, <3>1
    <2>4. CASE sum.seconds % 2 # 0
      <3>1. /\ 2 * delay.seconds = sum.seconds - 1
            /\ 2 * offset.seconds = dif.seconds - 1
            /\ delay.nanosec = Half(sum.nanosec) + NS \div 2
            /\ offset.nanosec = Half(dif.nanosec) + NS \div 2
        BY <1>3, <2>2, <2>4, ExceptTwo DEF delay, offset
      <3> QED  BY <1>3, <1>4, <2>1, <3>1
    <2> QED  BY <2>3, <2>4
  <1>6. /\ synced.seconds = d.seconds
        /\ Near(synced.nanosec, d.nanosec)
        /\ LegalNanosec(c) /\ LegalNanosec(d) => LegalNanosec(synced)
    <2>1. /\ sum.nanosec \in Int /\ dif.nanosec \in Int
          /\ p.nanosec \in Int /\ q.nanosec \in Int /\ prop.nanosec \in Int
          /\ c.seconds \in Int /\ d.seconds \in Int
          /\ c.nanosec \in Int /\ d.nanosec \in Int
      BY <1>3, <1>4 DEF Duration
    <2>2. synced.seconds = d.seconds
      BY <1>3, <1>4, <1>5, <2>1
    <2>3. /\ prop.nanosec \in q.nanosec - 1 .. q.nanosec + 1
          /\ q.nanosec >= 0 => prop.nanosec <= q.nanosec
          /\ q.nanosec <= 0 => prop.nanosec >= q.nanosec
      <3>1. prop.nanosec = Half(p.nanosec + q.nanosec) - Half(p.nanosec - q.nanosec)
        BY <1>3, <1>5
      <3> DEFINE u == p.nanosec  v == q.nanosec
      <3>2. u \in Int /\ v \in Int
        BY <2>1
      <3> HIDE DEF u, v
      <3>3. /\ Half(u + v) - Half(u - v) \in v - 1 .. v + 1
            /\ v >= 0 => Half(u + v) - Half(u - v) <= v
            /\ v <= 0 => Half(u + v) - Half(u - v) >= v
        BY <3>2, HalfDifference, Zenon
      <3> QED  BY <3>1, <3>3, Zenon DEF u, v
    <2>4. Near(synced.nanosec, d.nanosec)
      <3>1. synced.nanosec - d.nanosec = prop.nanosec - q.nanosec
        BY <1>3, <1>4, <2>1
      <3>2. prop.nanosec - q.nanosec \in -1 .. 1
        BY <2>1, <2>3
      <3> QED  BY <3>1, <3>2 DEF Near
    <2>5. LegalNanosec(c) /\ LegalNanosec(d) => LegalNanosec(synced)
      BY <1>3, <1>4, <2>1, <2>3, PeriodAssumption DEF LegalNanosec
    <2> QED  BY <2>2, <2>4, <2>5
  <1> QED  BY <1>2, <1>4, <1>6

(***************************************************************************)
(* With the nanoseconds of t1 and t4 within 30 bits no value on the way    *)
(* leaves the range of an int32_t: every sum has at most four such terms,  *)
(* in pairs of opposite signs.                                             *)
(***************************************************************************)
LEMMA ModerateIsSafe ==
  ASSUME NEW a \in Duration, NEW b \in Timestamp, NEW c \in Timestamp,
         NEW d \in Duration, NEW at \in Timestamp, Moderate(a), Moderate(d)
  PROVE  ~Overflows(a, b, c, d, at)
  <1> DEFINE p == ptp_time_sub(b, a)
             q == ptp_time_sub(d, c)
             sum == ptp_time_add(p, q)
             dif == ptp_time_sub(p, q)
             delay == ptp_time_except_2(sum)
             offset == ptp_time_except_2(dif)
             prop == ptp_time_sub(delay, offset)
             synced == ptp_time_add(c, prop)
             diff == ptp_time_sub(synced, at)
  <1>1. PICK M \in Nat : /\ M = INT32_MAX \div 2
                         /\ 2 * M <= INT32_MAX /\ NS_SEC_PERIOD - 1 <= M
    BY OverflowAssumption, PeriodAssumption
  <1>2. PICK H \in Nat : H = NS_SEC_PERIOD \div 2 /\ H <= M
    BY <1>1, PeriodAssumption
  <1>3. /\ b \in Duration /\ c \in Duration /\ at \in Duration
        /\ a.nanosec \in 0 .. M /\ d.nanosec \in 0 .. M
        /\ b.nanosec \in 0 .. M /\ c.nanosec \in 0 .. M /\ at.nanosec \in 0 .. M
    BY <1>1, TimestampIsDuration, PeriodAssumption DEF Moderate
  <1>4. /\ p \in Duration /\ q \in Duration /\ sum \in Duration /\ dif \in Duration
        /\ delay \in Duration /\ offset \in Duration /\ prop \in Duration
        /\ synced \in Duration /\ diff \in Duration
    <2>1. p \in Duration /\ q \in Duration
      BY <1>3, AddSub
    <2>2. sum \in Duration /\ dif \in Duration
      BY <2>1, AddSub
    <2>3. delay \in Duration /\ offset \in Duration
      BY <2>2, ExceptTwo
    <2>4. prop \in Duration
      BY <2>3, AddSub
    <2>5. synced \in Duration
      BY <1>3, <2>4, AddSub
    <2> QED  BY <1>3, <2>1, <2>2, <2>3, <2>4, <2>5, AddSub
  <1>5. /\ p.nanosec = b.nanosec - a.nanosec /\ q.nanosec = d.nanosec - c.nanosec
        /\ sum.nanosec = p.nanosec + q.nanosec /\ dif.nanosec = p.nanosec - q.nanosec
        /\ diff.nanosec = synced.nanosec - at.nanosec
        /\ prop.nanosec = delay.nanosec - offset.nanosec
        /\ synced.nanosec = c.nanosec + prop.nanosec
    BY <1>3, <1>4, AddSub
  <1>6. /\ delay.nanosec \in {Half(sum.nanosec), Half(sum.nanosec) + H}
        /\ offset.nanosec \in {Half(dif.nanosec), Half(dif.nanosec) + H}
    BY <1>2, <1>4, ExceptTwo
  <1>7. /\ SyncedTime(a, b, c, d) = synced
        /\ Near(synced.nanosec, d.nanosec)
    BY <1>3, SyncedTimeIsT4 DEF PathDelay, ClockOffset, PropDelay, SyncedTime
  <1>8. /\ Negative(a).nanosec = -a.nanosec /\ Negative(c).nanosec = -c.nanosec
        /\ Negative(q).nanosec = -q.nanosec /\ Negative(offset).nanosec = -offset.nanosec
        /\ Negative(at).nanosec = -at.nanosec
    BY <1>3, <1>4, AddSub
  <1>9. Intermediates(a, b, c, d, at) =
          {p, q, sum, dif, delay, offset, prop, synced, diff, Negative(a), Negative(c),
           Negative(q), Negative(offset), Negative(at)}
    BY DEF Intermediates
  <1> HIDE DEF p, q, sum, dif, delay, offset, prop, synced, diff
  <1>10. /\ p.nanosec \in -M .. M /\ q.nanosec \in -M .. M
         /\ sum.nanosec \in -(2 * M) .. 2 * M /\ dif.nanosec \in -(2 * M) .. 2 * M
    BY <1>1, <1>3, <1>4, <1>5 DEF Duration
  <1>11. Half(sum.nanosec) \in -M .. M /\ Half(dif.nanosec) \in -M .. M
    BY <1>1, <1>10 DEF Half
  <1>12. delay.nanosec \in -M .. 2 * M /\ offset.nanosec \in -M .. 2 * M
    BY <1>1, <1>2, <1>6, <1>11
  <1>13. /\ synced.nanosec \in -1 .. M + 1 /\ diff.nanosec \in -(M + 1) .. M + 1
         /\ prop.nanosec \in -(M + 1) .. M + 1
    <2>1. /\ synced.nanosec \in Int /\ prop.nanosec \in Int /\ diff.nanosec \in Int
          /\ d.nanosec \in Int
      BY <1>4 DEF Duration
    <2> QED  BY <1>1, <1>3, <1>5, <1>7, <2>1 DEF Near
  <1>14. \A k \in -(2 * M + 1) .. 2 * M : k \in Int32
    BY <1>1, OverflowAssumption DEF Int32
  <1>15. M + 1 <= 2 * M
    BY <1>1, PeriodAssumption
  <1>16. \A x \in Intermediates(a, b, c, d, at) :
           x.nanosec \in -(2 * M + 1) .. 2 * M
    BY <1>1, <1>3, <1>8, <1>9, <1>10, <1>12, <1>13, <1>15
  <1> QED  BY <1>14, <1>16 DEF Overflows

-----------------------------------------------------------------------------

(***************************************************************************)
(* Decoding undoes encoding for every value that fits the field.           *)
(***************************************************************************)
LEMMA ShiftInverse ==
  ASSUME NEW x \in Nat
  PROVE  /\ Shr(x) \in Nat
         /\ Shl(Shr(x), x % BYTE) = x
  BY ByteAssumption DEF Shr, Shl

LEMMA TopDigit ==
  ASSUME NEW x \in Nat, x < BYTE
  PROVE  Shl(0, x % BYTE) = x
  BY ByteAssumption DEF Shl

LEMMA SecondsRoundTrip ==
  ASSUME NEW x \in Nat, FitsSeconds(x)
  PROVE  BytesSeconds(SecondsBytes(x)) = x
  <1> DEFINE a == Shr(x)  b == Shr(a)  c == Shr(b)  d == Shr(c)  e == Shr(d)
  <1>1. a \in Nat /\ b \in Nat /\ c \in Nat /\ d \in Nat /\ e \in Nat
    BY ShiftInverse
  <1>2. e < BYTE
    BY DEF FitsSeconds
  <1>3. BytesSeconds(SecondsBytes(x))
          = Shl(Shl(Shl(Shl(Shl(Shl(0, e % BYTE), d % BYTE), c % BYTE),
                        b % BYTE), a % BYTE), x % BYTE)
    BY DEF BytesSeconds, SecondsBytes
  <1>4. /\ Shl(0, e % BYTE) = e
        /\ Shl(e, d % BYTE) = d
        /\ Shl(d, c % BYTE) = c
        /\ Shl(c, b % BYTE) = b
        /\ Shl(b, a % BYTE) = a
        /\ Shl(a, x % BYTE) = x
    BY <1>1, <1>2, TopDigit, ShiftInverse
  <1> HIDE DEF a, b, c, d, e
  <1> QED  BY <1>3, <1>4

LEMMA NanosecRoundTrip ==
  ASSUME NEW x \in Nat, FitsNanosec(x)
  PROVE  BytesNanosec(NanosecBytes(x)) = x
  <1> DEFINE a == Shr(x)  b == Shr(a)  c == Shr(b)
  <1>1. a \in Nat /\ b \in Nat /\ c \in Nat
    BY ShiftInverse
  <1>2. c < BYTE
    BY DEF FitsNanosec
  <1>3. BytesNanosec(NanosecBytes(x))
          = Shl(Shl(Shl(Shl(0, c % BYTE), b % BYTE), a % BYTE), x % BYTE)
    BY DEF BytesNanosec, NanosecBytes
  <1>4. /\ Shl(0, c % BYTE) = c
        /\ Shl(c, b % BYTE) = b
        /\ Shl(b, a % BYTE) = a
        /\ Shl(a, x % BYTE) = x
    BY <1>1, <1>2, TopDigit, ShiftInverse
  <1> HIDE DEF a, b, c
  <1> QED  BY <1>3, <1>4

LEMMA WireTimes ==
  ASSUME NEW ts \in WireTimestamp
  PROVE  /\ ptp_store_timestamp(ptp_prepare_timestamp(ts))
                = Time(ts.seconds, ToInt32(ts.nanosec))
         /\ ptp_store_timestamp(ptp_prepare_timestamp(ts)) \in Received
  <1>1. ts.seconds \in Seconds /\ ts.nanosec \in WireNanosec
    BY DEF WireTimestamp
  <1>2. /\ ts.seconds \in Nat /\ FitsSeconds(ts.seconds)
        /\ ts.nanosec \in Nat /\ FitsNanosec(ts.nanosec)
    BY <1>1, SecondsAssumption, WireAssumption
  <1>3. ptp_store_timestamp(ptp_prepare_timestamp(ts))
          = [seconds |-> BytesSeconds(SecondsBytes(ts.seconds)),
             nanosec |-> ToInt32(BytesNanosec(NanosecBytes(ts.nanosec)))]
    BY DEF ptp_store_timestamp, ptp_prepare_timestamp
  <1>4. ptp_store_timestamp(ptp_prepare_timestamp(ts))
          = [seconds |-> ts.seconds, nanosec |-> ToInt32(ts.nanosec)]
    BY <1>2, <1>3, SecondsRoundTrip, NanosecRoundTrip
  <1> QED  BY <1>1, <1>4 DEF Time, Received

(***************************************************************************)
(* A time that a clock can show survives the journey.                      *)
(***************************************************************************)
LEMMA WireRoundTrip ==
  ASSUME NEW ts \in Timestamp
  PROVE  /\ ts \in WireTimestamp
         /\ ptp_store_timestamp(ptp_prepare_timestamp(ts)) = ts
         /\ ts \in Received /\ Moderate(ts)
  <1>1. /\ ts.seconds \in Seconds /\ ts.nanosec \in 0 .. NS_SEC_PERIOD - 1
        /\ ts = Time(ts.seconds, ts.nanosec)
    BY TimestampIsDuration
  <1>2. ts.nanosec \in Nat /\ 2 * ts.nanosec <= INT32_MAX /\ INT32_MAX \in Nat
    BY <1>1, PeriodAssumption, OverflowAssumption
  <1>3. ToInt32(ts.nanosec) = ts.nanosec
    BY <1>2 DEF ToInt32
  <1>4. ts \in WireTimestamp
    BY <1>1, WireAssumption DEF WireTimestamp, Time
  <1>5. Moderate(ts)
    BY <1>2 DEF Moderate
  <1>6. ptp_store_timestamp(ptp_prepare_timestamp(ts)) = ts
    BY <1>1, <1>3, <1>4, WireTimes
  <1> QED  BY <1>4, <1>5, <1>6, WireTimes

LEMMA ReceivedIsDuration ==
  ASSUME NEW a \in Received
  PROVE  a \in Duration /\ a.seconds \in Seconds
  <1>1. PICK sec \in Seconds, n \in WireNanosec :
          a = [seconds |-> sec, nanosec |-> ToInt32(n)]
    BY DEF Received
  <1>2. sec \in Int /\ n \in Int /\ INT32_MAX \in Int
    BY SecondsAssumption, WireAssumption, OverflowAssumption
  <1>3. ToInt32(n) \in Int
    BY <1>2 DEF ToInt32
  <1> QED  BY <1>1, <1>2, <1>3 DEF Duration

(***************************************************************************)
(* The report of one Delay_Resp.                                           *)
(***************************************************************************)
LEMMA ReportOfResults ==
  ASSUME NEW a \in Duration, NEW b \in Timestamp, NEW c \in Timestamp,
         NEW d \in Duration, NEW at \in Timestamp, NEW r \in Results(a, b, c, d, at)
  PROVE  /\ r.synced.seconds = d.seconds
         /\ Moderate(a) /\ Moderate(d) => r = Report(SyncedTime(a, b, c, d),
                                                    TimeDiff(a, b, c, d, at))
         /\ r = Report(r.synced, r.diff)
  <1>0. b \in Duration /\ c \in Duration
    BY TimestampIsDuration
  <1>1. SyncedTime(a, b, c, d).seconds = d.seconds
    BY <1>0, SyncedTimeIsT4
  <1>2. CASE Overflows(a, b, c, d, at)
    <2>1. PICK n \in OverflowResults, m \in OverflowResults :
            r = Report(Time(SyncedTime(a, b, c, d).seconds, n),
                       Time(TimeDiff(a, b, c, d, at).seconds, m))
      BY <1>2 DEF Results
    <2>2. r.synced = Time(SyncedTime(a, b, c, d).seconds, n)
          /\ r = Report(r.synced, r.diff)
      BY <2>1 DEF Report
    <2>3. r.synced.seconds = d.seconds
      BY <1>1, <2>2 DEF Time
    <2> QED  BY <1>2, <2>2, <2>3, ModerateIsSafe
  <1>3. CASE ~Overflows(a, b, c, d, at)
    <2>1. r = Report(SyncedTime(a, b, c, d), TimeDiff(a, b, c, d, at))
      BY <1>3 DEF Results
    <2> QED  BY <1>1, <2>1 DEF Report
  <1> QED  BY <1>2, <1>3

-----------------------------------------------------------------------------

LEMMA TypeOKInit == Init => TypeOK
  <1>1. TimeZero \in Timestamp
    BY SecondsAssumption, PeriodAssumption DEF TimeZero, Time, Timestamp
  <1> QED  BY <1>1, WireRoundTrip DEF Init, TypeOK, Silent

LEMMA TypeOKNext == TypeOK /\ [Next]_vars => TypeOK'
  <1> SUFFICES ASSUME TypeOK, [Next]_vars PROVE TypeOK'
    OBVIOUS
  <1> USE DEF TypeOK, Silent, Report, DelayReq, timestamps
  <1>1. ASSUME NEW cb \in Callbacks, Register(cb) PROVE TypeOK'
    BY <1>1 DEF Register
  <1>2. ASSUME NEW at \in Timestamp, SyncMsg(at) PROVE TypeOK'
    BY <1>2 DEF SyncMsg, AssertFails
  <1>3. ASSUME NEW at \in Timestamp, NEW ts \in WireTimestamp,
               FollowUpMsg(ptp_prepare_timestamp(ts), at)
        PROVE  TypeOK'
    <2>1. t1' \in Received
      BY <1>3, WireTimes DEF FollowUpMsg
    <2> QED  BY <1>3, <2>1 DEF FollowUpMsg, AssertFails, ptp_sync_send_delay_req_event
  <1>4. ASSUME NEW at \in Timestamp, NEW ts \in WireTimestamp,
               DelayResponse(ptp_prepare_timestamp(ts), at)
        PROVE  TypeOK'
    <2>1. t4' \in Received
      BY <1>4, WireTimes DEF DelayResponse
    <2> QED  BY <1>4, <2>1 DEF DelayResponse, AssertFails, ptp_sycn_report_diff
  <1>5. ASSUME NEW ret \in {PTP_MSG_OK, PTP_MSG_ERR}, OtherMsg(ret) PROVE TypeOK'
    BY <1>5 DEF OtherMsg
  <1>6. CASE UNCHANGED vars
    BY <1>6 DEF vars
  <1> QED  BY <1>1, <1>2, <1>3, <1>4, <1>5, <1>6 DEF Next

(***************************************************************************)
(* What the interpreter stores is what the clock showed or what somebody   *)
(* sent, decoded.                                                          *)
(***************************************************************************)
THEOREM TypeCorrect == Spec => []TypeOK
  BY TypeOKInit, TypeOKNext, PTL DEF Spec

(***************************************************************************)
(* Whatever the order, loss or duplication of messages and whatever bytes  *)
(* they carry, the second reported by ptp_sync_interpreter is that of the  *)
(* t4 of the Delay_Resp being handled; with the nanoseconds of t1 and t4   *)
(* within 30 bits the nanoseconds are t4's too, up to one, and legal for   *)
(* the clock if t4's are.                                                  *)
(***************************************************************************)
THEOREM SyncedAlwaysTracksT4 == Spec => []SyncedTracksT4
  <1>1. Init => SyncedTracksT4
    BY DEF Init, SyncedTracksT4, Silent
  <1>2. TypeOK /\ SyncedTracksT4 /\ [Next]_vars => SyncedTracksT4'
    <2> SUFFICES ASSUME TypeOK, SyncedTracksT4, [Next]_vars PROVE SyncedTracksT4'
      OBVIOUS
    <2>1. ASSUME NEW at \in Timestamp, NEW ts \in WireTimestamp,
                 DelayResponse(ptp_prepare_timestamp(ts), at)
          PROVE  SyncedTracksT4'
      <3>1. CASE AssertFails("gettime") \/ AssertFails("report_diff")
        BY <3>1 DEF AssertFails, Silent, SyncedTracksT4
      <3>2. CASE ~(AssertFails("gettime") \/ AssertFails("report_diff"))
        <4>1. PICK d \in Received : t4' = d
          BY <2>1, <3>2, WireTimes DEF DelayResponse
        <4>2. PICK r \in Results(t1, t2, t3, d, at) : out' = Report(r.synced, r.diff)
          BY <2>1, <3>2, <4>1 DEF DelayResponse, ptp_sycn_report_diff
        <4>3. /\ t1' = t1 /\ t1 \in Received /\ t2 \in Timestamp /\ t3 \in Timestamp
          BY <2>1 DEF TypeOK, DelayResponse
        <4>4. /\ t1 \in Duration /\ d \in Duration
              /\ t2 \in Duration /\ t3 \in Duration /\ LegalNanosec(t3)
          BY <4>1, <4>3, ReceivedIsDuration, TimestampIsDuration DEF LegalNanosec
        <4>5. /\ out'.synced = r.synced
              /\ r.synced.seconds = d.seconds
          BY <4>2, <4>3, <4>4, ReportOfResults DEF Report
        <4>6. ASSUME Moderate(t1), Moderate(d)
              PROVE  /\ Near(r.synced.nanosec, d.nanosec)
                     /\ d \in Timestamp => r.synced.nanosec \in 0 .. NS_SEC_PERIOD - 1
          <5>1. r.synced = SyncedTime(t1, t2, t3, d)
            BY <4>2, <4>3, <4>4, <4>6, ReportOfResults DEF Report
          <5>2. d \in Timestamp => LegalNanosec(d)
            BY TimestampIsDuration DEF LegalNanosec
          <5> QED  BY <4>4, <5>1, <5>2, SyncedTimeIsT4 DEF LegalNanosec
        <4> QED  BY <4>1, <4>3, <4>5, <4>6 DEF SyncedTracksT4, Near, Moderate
      <3> QED  BY <3>1, <3>2
    <2>2. ASSUME NEW cb \in Callbacks, Register(cb) PROVE SyncedTracksT4'
      BY <2>2 DEF Register, Silent, SyncedTracksT4
    <2>3. ASSUME NEW at \in Timestamp, SyncMsg(at) PROVE SyncedTracksT4'
      BY <2>3 DEF SyncMsg, AssertFails, Silent, SyncedTracksT4
    <2>4. ASSUME NEW at \in Timestamp, NEW ts \in WireTimestamp,
                 FollowUpMsg(ptp_prepare_timestamp(ts), at)
          PROVE  SyncedTracksT4'
      BY <2>4 DEF FollowUpMsg, ptp_sync_send_delay_req_event, AssertFails,
                  Silent, DelayReq, SyncedTracksT4
    <2>5. ASSUME NEW ret \in {PTP_MSG_OK, PTP_MSG_ERR}, OtherMsg(ret)
          PROVE  SyncedTracksT4'
      BY <2>5 DEF OtherMsg, Silent, SyncedTracksT4
    <2>6. CASE UNCHANGED vars
      BY <2>6 DEF vars, SyncedTracksT4, Moderate, Timestamp, Near
    <2> QED  BY <2>1, <2>2, <2>3, <2>4, <2>5, <2>6 DEF Next
  <1> QED  BY <1>1, <1>2, TypeCorrect, PTL DEF Spec

(***************************************************************************)
(* Messages may carry any four bytes of nanoseconds.  No value on the way  *)
(* of ptp_sync_interpreter's calculation leaves its int32_t unless the     *)
(* stored nanoseconds of t1 or t4 are negative or exceed 30 bits, whatever *)
(* the clock shows now and showed at t2 and t3.                            *)
(***************************************************************************)
THEOREM NeverOverflows == Spec => []Int32Safe
  <1>1. TypeOK => Int32Safe
    <2> SUFFICES ASSUME TypeOK, Moderate(t1), Moderate(t4), NEW at \in Timestamp
                 PROVE  ~Overflows(t1, t2, t3, t4, at)
      BY DEF Int32Safe
    <2>1. /\ t1 \in Duration /\ t2 \in Timestamp /\ t3 \in Timestamp
          /\ t4 \in Duration
      BY ReceivedIsDuration DEF TypeOK
    <2> QED  BY <2>1, ModerateIsSafe
  <1> QED  BY <1>1, TypeCorrect, PTL

(***************************************************************************)
(* A Delay_Req always carries the t3 the slave keeps.                      *)
(***************************************************************************)
THEOREM DelayReqFaithful == Spec => []DelayReqCarriesT3
  <1>1. Init => DelayReqCarriesT3
    BY DEF Init, DelayReqCarriesT3, Silent
  <1>2. DelayReqCarriesT3 /\ [Next]_vars => DelayReqCarriesT3'
    <2> SUFFICES ASSUME DelayReqCarriesT3, [Next]_vars PROVE DelayReqCarriesT3'
      OBVIOUS
    <2> USE DEF DelayReqCarriesT3
    <2>1. ASSUME NEW at \in Timestamp, NEW ts \in WireTimestamp,
                 FollowUpMsg(ptp_prepare_timestamp(ts), at)
          PROVE  DelayReqCarriesT3'
      <3>1. CASE out' = DelayReq(ptp_prepare_timestamp(at)) /\ t3' = at
        BY <3>1, WireRoundTrip DEF DelayReq
      <3>2. CASE out' = Silent(PTP_MSG_ERR)
        BY <3>2 DEF Silent
      <3> QED  BY <2>1, <3>1, <3>2 DEF FollowUpMsg, ptp_sync_send_delay_req_event,
                                     AssertFails
    <2>2. ASSUME NEW at \in Timestamp, NEW ts \in WireTimestamp,
                 DelayResponse(ptp_prepare_timestamp(ts), at)
          PROVE  DelayReqCarriesT3'
      BY <2>2 DEF DelayResponse, ptp_sycn_report_diff, AssertFails, Silent, Report
    <2>3. ASSUME NEW cb \in Callbacks, Register(cb) PROVE DelayReqCarriesT3'
      BY <2>3 DEF Register, Silent
    <2>4. ASSUME NEW at \in Timestamp, SyncMsg(at) PROVE DelayReqCarriesT3'
      BY <2>4 DEF SyncMsg, AssertFails, Silent
    <2>5. ASSUME NEW ret \in {PTP_MSG_OK, PTP_MSG_ERR}, OtherMsg(ret)
          PROVE  DelayReqCarriesT3'
      BY <2>5 DEF OtherMsg, Silent
    <2>6. CASE UNCHANGED vars
      BY <2>6 DEF vars
    <2> QED  BY <2>1, <2>2, <2>3, <2>4, <2>5, <2>6 DEF Next
  <1> QED  BY <1>1, <1>2, PTL DEF Spec

-----------------------------------------------------------------------------

(***************************************************************************)
(* The inductive invariant of the slave on its network.  A message under   *)
(* way is no older than MaxDelay, and a master's message carries the time  *)
(* at which it was sent.                                                   *)
(***************************************************************************)
Travelling(m, t) ==
  /\ m.sent \in Nat /\ m.sent <= t /\ t <= m.sent + MaxDelay
  /\ m.type \in {"Follow_Up", "Delay_Resp"} => m.ts = Stamp(m.sent)

(***************************************************************************)
(* The report that ptp_process_time_diff is about to handle: a time of the *)
(* master, and its difference from the clock, which has not moved since.   *)
(***************************************************************************)
Reported(o, t, c) ==
  /\ o.synced \in Timestamp
  /\ o.diff = ptp_time_sub(o.synced, FromTicks(c))
  /\ t - Ticks(o.synced) \in -1 .. MaxDelay + 1

SlaveType ==
  /\ TypeOK /\ registered = Callbacks /\ mode = "running"
  /\ t1 \in Timestamp /\ t4 \in Timestamp
  /\ now \in 0 .. MaxTime /\ clock \in 0 .. MaxClock /\ integ \in Int
  /\ fine_tune_register \in tsu_adjustment
  /\ pc \in {"idle", "report", "fine_time_received", "error_report"}
  /\ status \in TS!States

SlaveIInv ==
  /\ SlaveType
  /\ \A m \in net : Travelling(m, now)
  /\ pc = "report" => Reported(out, now, clock)

LEMMA SlaveConstants ==
  /\ NS_SEC_PERIOD \in Nat \ {0} /\ PTP_MAX_ERR_NS \in Nat \ {0}
  /\ ADJUST_FIELD \in Nat \ {0}
  /\ MaxDelay \in Nat /\ MaxTime \in Nat /\ MaxClock \in Nat
  /\ MaxTime + NS_SEC_PERIOD <= MaxClock
  BY SlaveAssumption, PeriodAssumption, FieldAssumption

LEMMA TicksRoundTrip ==
  ASSUME NEW t \in 0 .. MaxClock
  PROVE  /\ FromTicks(t) \in Timestamp
         /\ Ticks(FromTicks(t)) = t
  <1>1. t \div NS_SEC_PERIOD \in Seconds
    BY SlaveAssumption
  <1>2. /\ t % NS_SEC_PERIOD \in 0 .. NS_SEC_PERIOD - 1
        /\ t = NS_SEC_PERIOD * (t \div NS_SEC_PERIOD) + (t % NS_SEC_PERIOD)
        /\ t \div NS_SEC_PERIOD \in Int
    BY SlaveConstants
  <1>3. FromTicks(t).seconds = t \div NS_SEC_PERIOD
        /\ FromTicks(t).nanosec = t % NS_SEC_PERIOD
    BY DEF FromTicks, Time
  <1>4. FromTicks(t) \in Timestamp
    BY <1>1, <1>2 DEF FromTicks, Time, Timestamp
  <1>5. Ticks(FromTicks(t)) = t
    BY <1>2, <1>3, SlaveConstants DEF Ticks
  <1> QED  BY <1>4, <1>5

(***************************************************************************)
(* A timestamp in ticks, and what the same second with other nanoseconds   *)
(* makes of it.                                                            *)
(***************************************************************************)
LEMMA TicksOf ==
  ASSUME NEW a \in Timestamp
  PROVE  /\ Ticks(a) \in Nat
         /\ Ticks(a) = a.seconds * NS_SEC_PERIOD + a.nanosec
         /\ a.seconds * NS_SEC_PERIOD \in Nat
         /\ a.seconds \in Nat /\ a.nanosec \in 0 .. NS_SEC_PERIOD - 1
  <1>1. a.seconds \in Nat /\ a.nanosec \in 0 .. NS_SEC_PERIOD - 1
    BY TimestampIsDuration, SecondsAssumption
  <1>2. a.seconds * NS_SEC_PERIOD \in Nat
    BY <1>1, SlaveConstants
  <1> QED  BY <1>1, <1>2, SlaveConstants DEF Ticks

(***************************************************************************)
(* A report made from a Delay_Resp that was sent at t is that time, up to  *)
(* a nanosecond.                                                           *)
(***************************************************************************)
LEMMA ReportOfDelayResp ==
  ASSUME NEW a \in Timestamp, NEW b \in Timestamp, NEW c \in Timestamp,
         NEW t \in 0 .. MaxClock
  PROVE  LET synced == SyncedTime(a, b, c, FromTicks(t))
         IN  synced \in Timestamp /\ t - Ticks(synced) \in -1 .. 1
  <1> DEFINE d == FromTicks(t)
             synced == SyncedTime(a, b, c, d)
  <1>1. d \in Timestamp /\ Ticks(d) = t
    BY TicksRoundTrip
  <1>2. /\ synced \in Duration
        /\ synced.seconds = d.seconds
        /\ Near(synced.nanosec, d.nanosec)
        /\ synced.nanosec \in 0 .. NS_SEC_PERIOD - 1
    BY <1>1, SyncedTimeIsT4, TimestampIsDuration DEF LegalNanosec
  <1>3. d.seconds \in Seconds
    BY <1>1, TimestampIsDuration
  <1> HIDE DEF d, synced
  <1>4. synced \in Timestamp
    BY <1>2, <1>3 DEF Duration, Timestamp
  <1>5. t - Ticks(synced) \in -1 .. 1
    <2>1. PICK p \in Nat : p = d.seconds * NS_SEC_PERIOD
      BY <1>1, TicksOf
    <2>2. Ticks(d) = p + d.nanosec /\ Ticks(synced) = p + synced.nanosec
      BY <1>1, <1>2, <1>4, <2>1, TicksOf
    <2>3. d.nanosec \in Int /\ synced.nanosec \in Int
      BY <1>1, <1>2, <1>4, TicksOf, SlaveConstants
    <2> QED  BY <1>1, <1>2, <2>2, <2>3 DEF Near
  <1> QED  BY <1>4, <1>5 DEF d, synced

-----------------------------------------------------------------------------

(***************************************************************************)
(* A message is young when it is sent, and the network only ever holds     *)
(* what it held before and what was sent.                                  *)
(***************************************************************************)
LEMMA NewMessage ==
  ASSUME now \in 0 .. MaxTime, NEW type, NEW ts,
         type \in {"Follow_Up", "Delay_Resp"} => ts = Stamp(now)
  PROVE  Travelling(Message(type, ts), now)
  <1>1. /\ Message(type, ts).type = type /\ Message(type, ts).ts = ts
        /\ Message(type, ts).sent = now
    BY DEF Message
  <1> QED  BY <1>1, SlaveConstants DEF Travelling

LEMMA DeliverNet ==
  ASSUME NEW m, NEW reply, Deliver(m, reply)
  PROVE  net' \subseteq net \cup reply
  BY DEF Deliver

LEMMA NetKeeps ==
  ASSUME \A m \in net : Travelling(m, now), now' = now,
         NEW reply, \A m \in reply : Travelling(m, now),
         net' \subseteq net \cup reply
  PROVE  \A m \in net' : Travelling(m, now')
  OBVIOUS

(***************************************************************************)
(* The master and the network, and the passing of time.                    *)
(***************************************************************************)
LEMMA NetworkKeepsSlaveIInv ==
  ASSUME SlaveIInv, Tick \/ Lose \/ MasterSync \/ MasterDelayResp
  PROVE  SlaveIInv'
  <1>1. /\ now \in 0 .. MaxTime /\ clock \in 0 .. MaxClock
        /\ \A m \in net : Travelling(m, now)
    BY DEF SlaveIInv, SlaveType
  <1>2. /\ pc' = "idle"
        /\ UNCHANGED <<registered, mode, t1, t2, t3, t4, out, integ,
                       fine_tune_register, status>>
    BY DEF Tick, Lose, MasterSync, MasterDelayResp, interpreter, control, service
  <1>3. now' \in 0 .. MaxTime /\ clock' \in 0 .. MaxClock
    BY <1>1, SlaveConstants DEF Tick, Lose, MasterSync, MasterDelayResp
  <1>4. SlaveType'
    BY <1>2, <1>3 DEF SlaveIInv, SlaveType, TypeOK
  <1>5. \A m \in net' : Travelling(m, now')
    <2>1. CASE Tick
      <3> SUFFICES ASSUME NEW m \in net' PROVE Travelling(m, now')
        OBVIOUS
      <3>1. m \in net /\ now' <= m.sent + MaxDelay /\ now' = now + 1
        BY <2>1 DEF Tick
      <3>2. Travelling(m, now)
        BY <1>1, <3>1
      <3> QED  BY <1>1, <3>1, <3>2, SlaveConstants DEF Travelling
    <2>2. CASE Lose
      <3>1. net' \subseteq net \cup {} /\ now' = now
        BY <2>2 DEF Lose
      <3> QED  BY <1>1, <3>1, NetKeeps
    <2>3. CASE MasterSync
      <3> DEFINE reply == {Message("Sync", Stamp(0)), Message("Follow_Up", Stamp(now))}
      <3>1. net' \subseteq net \cup reply /\ now' = now
        BY <2>3 DEF MasterSync
      <3>2. \A m \in reply : Travelling(m, now)
        BY <1>1, NewMessage
      <3> QED  BY <1>1, <3>1, <3>2, NetKeeps
    <2>4. CASE MasterDelayResp
      <3> DEFINE reply == {Message("Delay_Resp", Stamp(now))}
      <3>1. net' \subseteq net \cup reply /\ now' = now
        BY <2>4, DeliverNet DEF MasterDelayResp
      <3>2. \A m \in reply : Travelling(m, now)
        BY <1>1, NewMessage
      <3> QED  BY <1>1, <3>1, <3>2, NetKeeps
    <2> QED  BY <2>1, <2>2, <2>3, <2>4
  <1> QED  BY <1>2, <1>4, <1>5 DEF SlaveIInv

(***************************************************************************)
(* A master's message under way carries a timestamp of the past.           *)
(***************************************************************************)
LEMMA MessageTime ==
  ASSUME SlaveIInv, NEW m \in net
  PROVE  /\ m.sent \in 0 .. MaxClock
         /\ now - m.sent \in 0 .. MaxDelay
         /\ FromTicks(m.sent) \in Timestamp
         /\ FromTicks(clock) \in Timestamp
         /\ m.type \in {"Follow_Up", "Delay_Resp"} =>
              m.ts = ptp_prepare_timestamp(FromTicks(m.sent))
  <1>1. now \in 0 .. MaxTime /\ clock \in 0 .. MaxClock /\ Travelling(m, now)
    BY DEF SlaveIInv, SlaveType
  <1>2. m.sent \in 0 .. MaxClock /\ now - m.sent \in 0 .. MaxDelay
    BY <1>1, SlaveConstants DEF Travelling
  <1>3. FromTicks(m.sent) \in Timestamp /\ FromTicks(clock) \in Timestamp
    BY <1>1, <1>2, TicksRoundTrip
  <1>4. m.type \in {"Follow_Up", "Delay_Resp"} =>
          m.ts = ptp_prepare_timestamp(FromTicks(m.sent))
    BY <1>1 DEF Travelling, Stamp
  <1> QED  BY <1>2, <1>3, <1>4

(***************************************************************************)
(* A message reaches the interpreter, with every callback registered.      *)
(***************************************************************************)
LEMMA HandlersKeepSlaveIInv ==
  ASSUME SlaveIInv, HandleSync \/ HandleFollowUp \/ HandleDelayResp
  PROVE  SlaveIInv'
  <1>1. /\ now \in 0 .. MaxTime /\ clock \in 0 .. MaxClock
        /\ \A m \in net : Travelling(m, now)
        /\ TypeOK /\ registered = Callbacks /\ mode = "running"
        /\ t1 \in Timestamp /\ t4 \in Timestamp
    BY DEF SlaveIInv, SlaveType
  <1>2. /\ UNCHANGED <<now, clock, integ, fine_tune_register, status>>
        /\ pc = "idle"
    BY DEF HandleSync, HandleFollowUp, HandleDelayResp, control, service
  <1>3. CASE HandleSync
    <2>1. PICK m \in net : SyncMsg(FromTicks(clock)) /\ Deliver(m, {})
      BY <1>3 DEF HandleSync
    <2>2. TypeOK'
      BY <1>1, <2>1, MessageTime, TypeOKNext DEF Next
    <2>3. registered' = registered /\ mode' = mode /\ t1' = t1 /\ t4' = t4
      BY <1>1, <2>1 DEF SyncMsg, AssertFails, Callbacks
    <2>4. \A w \in net' : Travelling(w, now')
      BY <1>1, <1>2, <2>1, DeliverNet, NetKeeps
    <2>5. pc' = "idle"
      BY <1>2, <1>3 DEF HandleSync, control
    <2> QED  BY <1>1, <1>2, <2>2, <2>3, <2>4, <2>5 DEF SlaveIInv, SlaveType
  <1>4. CASE HandleFollowUp
    <2>1. PICK m \in net : /\ m.type = "Follow_Up"
                           /\ FollowUpMsg(m.ts, FromTicks(clock))
                           /\ Deliver(m, {Message("Delay_Req", out'.origin_ts)})
      BY <1>4 DEF HandleFollowUp
    <2>2. TypeOK'
      <3>1. FollowUpMsg(ptp_prepare_timestamp(FromTicks(m.sent)), FromTicks(clock))
        BY <2>1, MessageTime
      <3> QED  BY <1>1, <3>1, MessageTime, WireRoundTrip, TypeOKNext DEF Next
    <2>3. /\ registered' = registered /\ mode' = mode
          /\ t1' = FromTicks(m.sent) /\ t4' = t4
      <3>1. t1' = ptp_store_timestamp(ptp_prepare_timestamp(FromTicks(m.sent)))
        BY <2>1, MessageTime DEF FollowUpMsg
      <3>2. t1' = FromTicks(m.sent)
        BY <3>1, MessageTime, WireRoundTrip
      <3> QED  BY <1>1, <2>1, <3>2 DEF FollowUpMsg, ptp_sync_send_delay_req_event,
                                       AssertFails, Callbacks
    <2>4. \A w \in net' : Travelling(w, now')
      <3>1. PICK ts : ts = out'.origin_ts
        OBVIOUS
      <3>2. Travelling(Message("Delay_Req", ts), now)
        BY <1>1, NewMessage
      <3>3. net' \subseteq net \cup {Message("Delay_Req", ts)}
        BY <2>1, <3>1, DeliverNet
      <3> QED  BY <1>1, <1>2, <3>2, <3>3, NetKeeps
    <2>5. pc' = "idle"
      BY <1>2, <1>4 DEF HandleFollowUp, control
    <2> QED  BY <1>1, <1>2, MessageTime, <2>2, <2>3, <2>4, <2>5 DEF SlaveIInv, SlaveType
  <1>5. CASE HandleDelayResp
    <2>1. PICK m \in net : /\ m.type = "Delay_Resp"
                           /\ DelayResponse(m.ts, FromTicks(clock))
                           /\ Deliver(m, {})
      BY <1>5 DEF HandleDelayResp
    <2> DEFINE d == FromTicks(m.sent)
               synced == SyncedTime(t1, t2, t3, d)
    <2>2. DelayResponse(ptp_prepare_timestamp(d), FromTicks(clock))
      BY <2>1, MessageTime
    <2>3. TypeOK'
      BY <1>1, <2>2, MessageTime, WireRoundTrip, TypeOKNext DEF Next
    <2>4. /\ registered' = registered /\ mode' = mode /\ t1' = t1 /\ t4' = d
          /\ \E r \in Results(t1, t2, t3, d, FromTicks(clock)) :
               out' = Report(r.synced, r.diff)
      <3>1. t4' = ptp_store_timestamp(ptp_prepare_timestamp(d))
        BY <1>1, <2>2 DEF DelayResponse, AssertFails, Callbacks
      <3>2. t4' = d
        BY <3>1, MessageTime, WireRoundTrip
      <3> QED  BY <1>1, <2>2, <3>2 DEF DelayResponse, ptp_sycn_report_diff, AssertFails,
                                       Callbacks
    <2>5. out' = Report(synced, ptp_time_sub(synced, FromTicks(clock)))
      <3>1. PICK r \in Results(t1, t2, t3, d, FromTicks(clock)) :
              out' = Report(r.synced, r.diff)
        BY <2>4
      <3>2. /\ t1 \in Duration /\ t2 \in Timestamp /\ t3 \in Timestamp
            /\ d \in Duration /\ FromTicks(clock) \in Timestamp
            /\ Moderate(t1) /\ Moderate(d)
        BY <1>1, MessageTime, TimestampIsDuration, WireRoundTrip DEF TypeOK
      <3>3. /\ r = Report(r.synced, r.diff)
            /\ r = Report(synced, TimeDiff(t1, t2, t3, d, FromTicks(clock)))
        BY <3>2, ReportOfResults
      <3> QED  BY <3>1, <3>3 DEF TimeDiff
    <2>6. Reported(out', now', clock')
      <3>1. out'.synced = synced /\ out'.diff = ptp_time_sub(synced, FromTicks(clock))
        BY <2>5 DEF Report
      <3>2. synced \in Timestamp /\ m.sent - Ticks(synced) \in -1 .. 1
        BY <1>1, MessageTime, ReportOfDelayResp DEF TypeOK
      <3>3. Ticks(synced) \in Nat
        BY <3>2, TicksOf
      <3>4. now - m.sent \in 0 .. MaxDelay /\ m.sent \in 0 .. MaxClock
        BY MessageTime
      <3> HIDE DEF synced
      <3>5. now - Ticks(synced) \in -1 .. MaxDelay + 1
        BY <1>1, <3>2, <3>3, <3>4, SlaveConstants
      <3> QED  BY <1>2, <3>1, <3>2, <3>5 DEF Reported
    <2>7. \A w \in net' : Travelling(w, now')
      BY <1>1, <1>2, <2>1, DeliverNet, NetKeeps
    <2>8. pc' = "report"
      BY <1>5 DEF HandleDelayResp
    <2> QED  BY <1>1, <1>2, <2>3, <2>4, <2>6, <2>7, <2>8, MessageTime DEF SlaveIInv, SlaveType
  <1> QED  BY <1>3, <1>4, <1>5

-----------------------------------------------------------------------------

LEMMA Remainder ==
  ASSUME NEW w \in Nat, NEW c \in 0 .. NS_SEC_PERIOD - 1
  PROVE  (w * NS_SEC_PERIOD + c) % NS_SEC_PERIOD = c
  <1> DEFINE v == w * NS_SEC_PERIOD + c
             q == v \div NS_SEC_PERIOD
             m == v % NS_SEC_PERIOD
  <1>0. PICK N \in Nat : N = NS_SEC_PERIOD /\ N > 0
    BY SlaveConstants
  <1>1. v \in Int
    BY <1>0
  <1>2. q \in Int /\ m \in 0 .. N - 1 /\ v = N * q + m
    BY <1>0, <1>1
  <1>3. v = N * w + c
    BY <1>0
  <1> HIDE DEF v, q, m
  <1>4. w = q
    <2>1. CASE w >= q + 1
      <3>1. N * w >= N * (q + 1)
        BY <1>0, <1>2, <2>1
      <3>2. N * (q + 1) = N * q + N /\ N * q \in Int /\ N * w \in Int
        BY <1>0, <1>2
      <3> QED  BY <1>0, <1>2, <1>3, <3>1, <3>2
    <2>2. CASE q >= w + 1
      <3>1. N * q >= N * (w + 1)
        BY <1>0, <1>2, <2>2
      <3>2. N * (w + 1) = N * w + N /\ N * q \in Int /\ N * w \in Int
        BY <1>0, <1>2
      <3> QED  BY <1>0, <1>2, <1>3, <3>1, <3>2
    <2> QED  BY <1>2, <2>1, <2>2
  <1>5. m = c
    BY <1>0, <1>2, <1>3, <1>4
  <1> QED  BY <1>5 DEF v, m

(***************************************************************************)
(* A report with a second in it sets the clock before fine status only,    *)
(* and then to the reported time; at the start of a second, to the         *)
(* reported second and the clock's own nanoseconds.                        *)
(***************************************************************************)
SetTo(synced, c, d) ==
  \/ d = Ticks(synced)
  \/ d % NS_SEC_PERIOD = c % NS_SEC_PERIOD /\ d - (d % NS_SEC_PERIOD) = Ticks(synced)

LEMMA CoarseSets ==
  ASSUME SlaveIInv, ProcessCoarse
  PROVE  /\ clock' \in 0 .. MaxClock
         /\ status' \in TS!States
         /\ status = "TS_FINE" => status' = "TS_FINE" /\ clock' = clock
         /\ status # "TS_FINE" => status' # "TS_FINE"
         /\ clock' = clock \/ SetTo(out.synced, clock, clock')
  <1> DEFINE n == TS!CoarseNanosec(out.synced.nanosec, clock % NS_SEC_PERIOD)
  <1>1. /\ now \in 0 .. MaxTime /\ clock \in 0 .. MaxClock /\ status \in TS!States
        /\ out.synced \in Timestamp /\ now - Ticks(out.synced) \in -1 .. MaxDelay + 1
    BY DEF SlaveIInv, SlaveType, Reported, ProcessCoarse
  <1>2. /\ status = "TS_FINE" => status' = "TS_FINE" /\ service_out' = TS!Nothing
        /\ status # "TS_FINE" => status' # "TS_FINE"
        /\ status' \in TS!States
        /\ \/ service_out' = TS!Nothing
           \/ service_out' = TS!SetTime(out.synced.seconds, n)
    BY <1>1 DEF ProcessCoarse, TS!coarse_time_received, TS!UseCoarse, TS!States
  <1>3. CASE service_out' = TS!Nothing
    <2>1. clock' = clock
      BY <1>3 DEF ProcessCoarse, TS!Nothing
    <2> QED  BY <1>1, <1>2, <2>1
  <1>4. CASE service_out' = TS!SetTime(out.synced.seconds, n)
    <2>1. clock' = out.synced.seconds * NS_SEC_PERIOD + n
      BY <1>4 DEF ProcessCoarse, TS!SetTime, Ticks
    <2>2. status # "TS_FINE"
      BY <1>2, <1>4 DEF TS!SetTime, TS!Nothing
    <2>3. PICK p \in Nat : p = out.synced.seconds * NS_SEC_PERIOD
      BY <1>1, TicksOf
    <2>4. PICK k \in Nat : k = out.synced.nanosec /\ k < NS_SEC_PERIOD
      BY <1>1, TicksOf, SlaveConstants
    <2>5. Ticks(out.synced) = p + k
      BY <1>1, <2>3, <2>4, TicksOf
    <2>6. CASE k > 0
      <3>1. n = k
        BY <2>4, <2>6 DEF TS!CoarseNanosec
      <3>2. clock' = Ticks(out.synced)
        BY <2>1, <2>3, <2>5, <3>1
      <3>3. clock' \in 0 .. MaxClock
        BY <1>1, <2>5, <3>2, SlaveConstants
      <3> QED  BY <1>2, <2>2, <3>2, <3>3 DEF SetTo
    <2>7. CASE ~(k > 0)
      <3>1. n = clock % NS_SEC_PERIOD /\ k = 0
        BY <2>4, <2>7 DEF TS!CoarseNanosec
      <3>2. PICK c \in 0 .. NS_SEC_PERIOD - 1 : c = clock % NS_SEC_PERIOD
        BY <1>1, SlaveConstants
      <3>3. clock' = p + c
        BY <2>1, <2>3, <3>1, <3>2
      <3>4. clock' \in 0 .. MaxClock
        BY <1>1, <2>5, <3>1, <3>2, <3>3, SlaveConstants
      <3>5. clock' % NS_SEC_PERIOD = c
        <4>1. PICK w \in Nat : w = out.synced.seconds
          BY <1>1, TicksOf
        <4>2. clock' = w * NS_SEC_PERIOD + c
          BY <2>3, <3>3, <4>1
        <4>3. (w * NS_SEC_PERIOD + c) % NS_SEC_PERIOD = c
          BY <3>2, Remainder
        <4> QED  BY <4>2, <4>3
      <3>6. SetTo(out.synced, clock, clock')
        BY <2>5, <3>1, <3>2, <3>3, <3>5, SlaveConstants DEF SetTo
      <3> QED  BY <1>2, <2>2, <3>4, <3>6
    <2> QED  BY <2>6, <2>7
  <1> QED  BY <1>2, <1>3, <1>4

(***************************************************************************)
(* The register gives back a correction that fits its field.               *)
(***************************************************************************)
Tune(reg, e, i) == tsu_clock_fine_tune(reg, e, i, PTP_MAX_ERR_NS)

Share(i) == Quotient(i, INTEGRAL_DIVISOR)

Divides(q, i) ==
  /\ q \in Int
  /\ i >= 0 => 20 * q <= i /\ i < 20 * q + 20
  /\ i <= 0 => i <= 20 * q /\ 20 * q - 20 < i

LEMMA ShareBounds ==
  ASSUME NEW i \in Int
  PROVE  Divides(Share(i), i)
  BY DEF Divides, Share, Quotient, INTEGRAL_DIVISOR

LEMMA RegisterHolds ==
  ASSUME NEW reg \in tsu_adjustment, NEW e \in Int, NEW i \in Int
  PROVE  /\ Tune(reg, e, i) \in tsu_adjustment
         /\ ClockStep(reg) \in Int /\ ClockStep(Tune(reg, e, i)) \in Int
         /\ InDeadZone(e, i, PTP_MAX_ERR_NS) => Tune(reg, e, i) = reg
         /\ ~InDeadZone(e, i, PTP_MAX_ERR_NS) /\ Magnitude(freq_adj(e, i)) < ADJUST_FIELD
              => ClockStep(Tune(reg, e, i)) = freq_adj(e, i)
  <1>1. \A a \in tsu_adjustment : ClockStep(a) \in Int
    BY SlaveConstants DEF tsu_adjustment, ClockStep
  <1>2. PICK f \in Int : f = freq_adj(e, i)
    BY ShareBounds DEF freq_adj, Share, Divides
  <1>3. CASE InDeadZone(e, i, PTP_MAX_ERR_NS)
    BY <1>1, <1>3 DEF Tune, tsu_clock_fine_tune
  <1>4. CASE ~InDeadZone(e, i, PTP_MAX_ERR_NS)
    <2>1. PICK new : /\ new = Tune(reg, e, i)
                     /\ new = [direction |-> IF f > 0 THEN "add" ELSE "subtract",
                               nanosec |-> Magnitude(f) % ADJUST_FIELD]
      BY <1>2, <1>4 DEF Tune, tsu_clock_fine_tune
    <2>2. Magnitude(f) \in Nat /\ Magnitude(f) % ADJUST_FIELD \in 0 .. ADJUST_FIELD - 1
      BY SlaveConstants DEF Magnitude
    <2>3. new \in tsu_adjustment
      BY <2>1, <2>2 DEF tsu_adjustment
    <2>4. ASSUME Magnitude(f) < ADJUST_FIELD PROVE ClockStep(new) = f
      <3>1. Magnitude(f) % ADJUST_FIELD = Magnitude(f)
        BY <2>2, <2>4, SlaveConstants
      <3>2. CASE f > 0
        BY <2>1, <3>1, <3>2 DEF ClockStep, Magnitude
      <3>3. CASE ~(f > 0)
        BY <2>1, <3>1, <3>3 DEF ClockStep, Magnitude
      <3> QED  BY <3>2, <3>3
    <2>5. ClockStep(reg) \in Int /\ ClockStep(new) \in Int
      BY <1>1, <2>3
    <2> QED  BY ONLY <1>2, <1>4, <2>1, <2>3, <2>4, <2>5
  <1> QED  BY <1>3, <1>4

(***************************************************************************)
(* A report without a second in it is the distance of the reported time    *)
(* from the clock, which is less than a second.                            *)
(***************************************************************************)
LEMMA FineReportIsDistance ==
  ASSUME SlaveIInv, pc = "report", out.diff.seconds = 0
  PROVE  /\ out.diff.nanosec = Ticks(out.synced) - clock
         /\ Ticks(out.synced) \in Nat
         /\ Magnitude(out.diff.nanosec) < NS_SEC_PERIOD
  <1>1. /\ clock \in 0 .. MaxClock /\ out.synced \in Timestamp
        /\ out.diff = ptp_time_sub(out.synced, FromTicks(clock))
    BY DEF SlaveIInv, SlaveType, Reported
  <1>2. PICK d : /\ d = FromTicks(clock) /\ d \in Timestamp /\ Ticks(d) = clock
    BY <1>1, TicksRoundTrip
  <1>3. PICK s : /\ s = out.synced /\ s \in Timestamp
                 /\ out.diff = ptp_time_sub(s, d)
    BY <1>1, <1>2
  <1>4. /\ out.diff.seconds = s.seconds - d.seconds
        /\ out.diff.nanosec = s.nanosec - d.nanosec
    <2>1. s \in Duration /\ d \in Duration
      BY <1>2, <1>3, TimestampIsDuration
    <2>2. /\ ptp_time_sub(s, d).seconds = s.seconds - d.seconds
          /\ ptp_time_sub(s, d).nanosec = s.nanosec - d.nanosec
      BY <2>1, AddSub
    <2> QED  BY ONLY <1>3, <2>2
  <1>5. s.seconds = d.seconds
    BY <1>2, <1>3, <1>4, TicksOf
  <1>6. PICK p \in Nat : p = d.seconds * NS_SEC_PERIOD
    BY <1>2, TicksOf
  <1>7. /\ Ticks(s) = p + s.nanosec /\ clock = p + d.nanosec
        /\ s.nanosec \in 0 .. NS_SEC_PERIOD - 1 /\ d.nanosec \in 0 .. NS_SEC_PERIOD - 1
        /\ Ticks(s) \in Nat
    BY <1>2, <1>3, <1>5, <1>6, TicksOf
  <1> QED  BY <1>3, <1>4, <1>6, <1>7, SlaveConstants DEF Magnitude

(***************************************************************************)
(* What ptp_process_time_diff does with a report, and the notifications    *)
(* that follow.                                                            *)
(***************************************************************************)
LEMMA ProcessingKeepsSlaveIInv ==
  ASSUME SlaveIInv, ProcessCoarse \/ ProcessFine \/ NotifyFine \/ ReportError
  PROVE  SlaveIInv'
  <1>1. /\ now \in 0 .. MaxTime /\ clock \in 0 .. MaxClock
        /\ \A m \in net : Travelling(m, now)
        /\ status \in TS!States /\ integ \in Int
        /\ fine_tune_register \in tsu_adjustment
    BY DEF SlaveIInv, SlaveType
  <1>2. UNCHANGED <<now, net, registered, mode, t1, t2, t3, t4, out>>
    BY DEF ProcessCoarse, ProcessFine, NotifyFine, ReportError, interpreter
  <1>3. pc' \in {"idle", "fine_time_received", "error_report"}
    BY DEF ProcessCoarse, ProcessFine, NotifyFine, ReportError
  <1>4. /\ clock' \in 0 .. MaxClock /\ status' \in TS!States /\ integ' \in Int
        /\ fine_tune_register' \in tsu_adjustment
    <2>1. CASE ProcessCoarse
      <3>1. integ' = 0 /\ fine_tune_register' = fine_tune_register
        BY <2>1 DEF ProcessCoarse
      <3> QED  BY <1>1, <2>1, <3>1, CoarseSets
    <2>2. CASE ProcessFine
      <3>1. out.diff.nanosec \in Int
        BY <1>1, <2>2, FineReportIsDistance DEF ProcessFine
      <3>2. /\ integ' = integ + out.diff.nanosec
            /\ fine_tune_register' = Tune(fine_tune_register, out.diff.nanosec,
                                          integ + out.diff.nanosec)
            /\ clock' \in 0 .. MaxClock
        BY <2>2 DEF ProcessFine, Tune
      <3>3. integ + out.diff.nanosec \in Int
        BY <1>1, <3>1
      <3>4. fine_tune_register' \in tsu_adjustment
        BY <1>1, <3>1, <3>2, <3>3, RegisterHolds
      <3>5. status' = status
        BY <2>2 DEF ProcessFine, service
      <3> QED  BY <1>1, <3>2, <3>3, <3>4, <3>5
    <2>3. CASE NotifyFine
      BY <1>1, <2>3 DEF NotifyFine, TS!fine_time_received, TS!States
    <2>4. CASE ReportError
      BY <1>1, <2>4 DEF ReportError, TS!update_error
    <2> QED  BY <2>1, <2>2, <2>3, <2>4
  <1>5. SlaveType'
    BY <1>2, <1>3, <1>4 DEF SlaveIInv, SlaveType, TypeOK
  <1>6. \A m \in net' : Travelling(m, now')
    BY <1>1, <1>2
  <1> QED  BY <1>3, <1>5, <1>6 DEF SlaveIInv

LEMMA SlaveIInvInit == SlaveInit => SlaveIInv
  <1> SUFFICES ASSUME SlaveInit PROVE SlaveIInv
    OBVIOUS
  <1>1. TimeZero \in Timestamp
    BY SecondsAssumption, PeriodAssumption DEF TimeZero, Time, Timestamp
  <1>2. /\ TypeOK /\ registered = Callbacks /\ mode = "running"
        /\ t1 \in Timestamp /\ t4 \in Timestamp
    BY <1>1, WireRoundTrip DEF SlaveInit, TypeOK, Silent
  <1>3. now \in 0 .. MaxTime /\ clock \in 0 .. MaxClock /\ integ \in Int
    BY SlaveConstants DEF SlaveInit
  <1>4. NoAdjustment \in tsu_adjustment
    BY SlaveConstants DEF NoAdjustment, tsu_adjustment
  <1>5. status \in TS!States /\ pc = "idle" /\ net = {}
    BY DEF SlaveInit, TS!ServiceInit, TS!States
  <1> QED  BY <1>2, <1>3, <1>4, <1>5 DEF SlaveInit, SlaveIInv, SlaveType

LEMMA SlaveIInvNext == SlaveIInv /\ [SlaveNext]_slave_vars => SlaveIInv'
  <1> SUFFICES ASSUME SlaveIInv, [SlaveNext]_slave_vars PROVE SlaveIInv'
    OBVIOUS
  <1>1. CASE Tick \/ Lose \/ MasterSync \/ MasterDelayResp
    BY <1>1, NetworkKeepsSlaveIInv
  <1>2. CASE HandleSync \/ HandleFollowUp \/ HandleDelayResp
    BY <1>2, HandlersKeepSlaveIInv
  <1>3. CASE ProcessCoarse \/ ProcessFine \/ NotifyFine \/ ReportError
    BY <1>3, ProcessingKeepsSlaveIInv
  <1>4. CASE UNCHANGED slave_vars
    <2>1. UNCHANGED <<now, clock, net, pc, integ, fine_tune_register, status,
                      registered, mode, t1, t2, t3, t4, out>>
      BY <1>4 DEF slave_vars, control, interpreter, service
    <2> QED  BY <2>1 DEF SlaveIInv, SlaveType, TypeOK
  <1> QED  BY <1>1, <1>2, <1>3, <1>4 DEF SlaveNext

(***************************************************************************)
(* Whatever the network does to the messages, those under way are young,   *)
(* the interpreter's timestamps stay well formed and a report waiting for  *)
(* ptp_process_time_diff is what the clock and one Delay_Resp make of it.  *)
(***************************************************************************)
THEOREM SlaveInvariant == SlaveSpec => []SlaveIInv
  BY SlaveIInvInit, SlaveIInvNext, PTL DEF SlaveSpec

(***************************************************************************)
(* A reported time is the master's time of at most MaxDelay ago, up to one *)
(* nanosecond, although t1, t2 and t3 may stem from other exchanges.       *)
(***************************************************************************)
THEOREM ReportsAreRecent == SlaveSpec => []ReportIsRecent
  <1>1. SlaveIInv => ReportIsRecent
    BY DEF SlaveIInv, Reported, ReportIsRecent
  <1> QED  BY <1>1, SlaveInvariant, PTL

-----------------------------------------------------------------------------

(***************************************************************************)
(* The control loop behind the network.  x is the master's time less the   *)
(* clock's; a report finds x - y where y, in Delays, is what the message   *)
(* was late by and the rounding.  The dead zone widened by them is Blur.   *)
(* Modest bounds the correction that the register holds wherever the next  *)
(* report may fall into the dead zone and the correction be applied again. *)
(***************************************************************************)
Late == MaxDelay + 1

Blur == PTP_MAX_ERR_NS + Late + 1

Delays == -1 .. Late

(***************************************************************************)
(* The hypothesis: the dead zone and the delay of a message are small      *)
(* beside the second (with the code's 500 ns and second of 10^9 ns, any    *)
(* delay up to 1.8 ms), and the register holds 21/20 of a second.          *)
(***************************************************************************)
NetworkIsFast ==
  /\ 550 * Blur <= NS_SEC_PERIOD
  /\ 21 * NS_SEC_PERIOD <= INTEGRAL_DIVISOR * ADJUST_FIELD

Modest(r) == -505 * Blur <= r /\ r <= 490 * Blur

(***************************************************************************)
(* The last report was outside of the dead zone: its correction left the   *)
(* share of the integral and what the report was late by.                  *)
(***************************************************************************)
Tuned(x, i, r) ==
  /\ x + Share(i) \in Delays
  /\ Magnitude(i) < 2 * NS_SEC_PERIOD
  /\ -440 * Blur < i /\ i < 20 * Blur => Modest(r)

(***************************************************************************)
(* The last report was inside the dead zone: the old correction was        *)
(* applied once more to a clock that was x + r behind.                     *)
(***************************************************************************)
Coasting(x, i, r) ==
  /\ x + r + Share(i) \in -PTP_MAX_ERR_NS .. PTP_MAX_ERR_NS - 1 + Late
  /\ -PTP_MAX_ERR_NS <= x + r
  /\ -440 * Blur < i /\ i < 40 * Blur
  /\ Modest(r)

(***************************************************************************)
(* The last report was one of a whole second, ignored in fine status but   *)
(* for the integral.                                                       *)
(***************************************************************************)
Restarted(x, i, r) ==
  /\ i = 0
  /\ Magnitude(x) < NS_SEC_PERIOD
  /\ -PTP_MAX_ERR_NS <= x /\ x < PTP_MAX_ERR_NS + Late => Modest(r)

Held(x, i, r) == Tuned(x, i, r) \/ Coasting(x, i, r) \/ Restarted(x, i, r)

\* Before the first fine report nothing has been integrated or tuned.
Ready(x, i, r) == Held(x, i, r) \/ (i = 0 /\ r = 0)

ControlState ==
  IF status = "TS_FINE" \/ pc \in {"fine_time_received", "error_report"}
    THEN Held(now - clock, integ, ClockStep(fine_tune_register))
    ELSE integ = 0 /\ fine_tune_register = NoAdjustment

ControlIInv ==
  /\ ControlState
  /\ pc = "error_report" => status = "TS_FINE"

(***************************************************************************)
(* The numbers of a fine report: the difference e of less than a second,   *)
(* the new integral and its share, and the correction.                     *)
(***************************************************************************)
LEMMA FastConstants ==
  ASSUME NetworkIsFast
  PROVE  /\ PTP_MAX_ERR_NS \in Nat \ {0} /\ Late \in Nat \ {0}
         /\ NS_SEC_PERIOD \in Nat /\ ADJUST_FIELD \in Nat
         /\ Blur = PTP_MAX_ERR_NS + Late + 1
         /\ 550 * Blur <= NS_SEC_PERIOD
         /\ 21 * NS_SEC_PERIOD <= 20 * ADJUST_FIELD
  BY SlaveConstants DEF NetworkIsFast, Blur, Late, INTEGRAL_DIVISOR

LEMMA HeldIsClose ==
  ASSUME NetworkIsFast, NEW x \in Int, NEW i \in Int, NEW r \in Int, Held(x, i, r)
  PROVE  Magnitude(x) < NS_SEC_PERIOD
  <1>0. PICK q \in Int : q = Share(i) /\ Divides(q, i)
    BY ShareBounds DEF Divides
  <1> HIDE DEF NetworkIsFast
  <1>1. CASE Tuned(x, i, r)
    <2>1. x + q \in Delays /\ Magnitude(i) < 2 * NS_SEC_PERIOD
      BY <1>0, <1>1 DEF Tuned
    <2> QED  BY <1>0, <2>1, FastConstants DEF Divides, Magnitude, Delays
  <1>2. CASE Coasting(x, i, r)
    <2>1. /\ x + r + q \in -PTP_MAX_ERR_NS .. PTP_MAX_ERR_NS - 1 + Late
          /\ -440 * Blur < i /\ i < 40 * Blur /\ Modest(r)
          /\ -PTP_MAX_ERR_NS <= x + r
      BY <1>0, <1>2 DEF Coasting
    <2> QED  BY <1>0, <2>1, FastConstants DEF Divides, Magnitude, Modest
  <1>3. CASE Restarted(x, i, r)
    BY <1>3 DEF Restarted
  <1> QED  BY <1>1, <1>2, <1>3 DEF Held

LEMMA HeldWhenRestarted ==
  ASSUME NetworkIsFast, NEW x \in Int, NEW i \in Int, NEW r \in Int, Held(x, i, r)
  PROVE  Held(x, 0, r)
  <1>0. PICK q \in Int : q = Share(i) /\ Divides(q, i)
    BY ShareBounds DEF Divides
  <1>1. Magnitude(x) < NS_SEC_PERIOD
    BY HeldIsClose
  <1>2. ASSUME -PTP_MAX_ERR_NS <= x, x < PTP_MAX_ERR_NS + Late
        PROVE  Modest(r)
    <2>1. CASE Tuned(x, i, r)
      <3>1. x + q \in Delays
        BY <1>0, <2>1 DEF Tuned
      <3>2. -440 * Blur < i /\ i < 20 * Blur
        BY <1>0, <1>2, <3>1, FastConstants DEF Divides, Delays
      <3> QED  BY <2>1, <3>2 DEF Tuned
    <2>2. CASE Coasting(x, i, r)
      BY <2>2 DEF Coasting
    <2>3. CASE Restarted(x, i, r)
      BY <1>2, <2>3 DEF Restarted
    <2> QED  BY <2>1, <2>2, <2>3 DEF Held
  <1> QED  BY <1>1, <1>2 DEF Held, Restarted

(***************************************************************************)
(* How far a clock may be from a recent time of the master before or after *)
(* a correction, and how far one correction moves it.                      *)
(***************************************************************************)
Slack == NS_SEC_PERIOD \div 10 + PTP_MAX_ERR_NS - 1

Beside(x) == x \in -(Slack + 1) .. Late + Slack

Small(step) == step \in 1 - NS_SEC_PERIOD - Slack .. NS_SEC_PERIOD + Slack - 1

LEMMA SlackBounds ==
  /\ Slack \in Nat
  /\ 10 * (Slack + 1 - PTP_MAX_ERR_NS) <= NS_SEC_PERIOD
  /\ NS_SEC_PERIOD < 10 * (Slack + 2 - PTP_MAX_ERR_NS)
  <1>1. PICK t \in Nat : /\ t = NS_SEC_PERIOD \div 10
                         /\ 10 * t <= NS_SEC_PERIOD /\ NS_SEC_PERIOD < 10 * (t + 1)
    BY SlaveConstants
  <1> QED  BY <1>1, SlaveConstants DEF Slack

(***************************************************************************)
(* A report inside the dead zone: the old correction is applied again, and *)
(* it is a modest one.                                                     *)
(***************************************************************************)
LEMMA HeldInDeadZone ==
  ASSUME NetworkIsFast, NEW x \in Int, NEW i \in Int, NEW r \in Int, Ready(x, i, r),
         NEW y \in Delays, Magnitude(x - y) < NS_SEC_PERIOD,
         InDeadZone(x - y, i + (x - y), PTP_MAX_ERR_NS)
  PROVE  Coasting(x - r, i + (x - y), r) /\ Beside(x) /\ Small(r)
  <1>0. y \in Int /\ -1 <= y /\ y <= Late
    BY FastConstants DEF Delays
  <1>1. PICK e \in Int : e = x - y
    BY <1>0
  <1>2. PICK j \in Int : j = i + e
    OBVIOUS
  <1>3. PICK q \in Int : q = Share(i) /\ Divides(q, i)
    BY ShareBounds DEF Divides
  <1>4. PICK p \in Int : p = Share(j) /\ Divides(p, j)
    BY ShareBounds DEF Divides
  <1>5. /\ e + p < PTP_MAX_ERR_NS /\ -PTP_MAX_ERR_NS < e + p
        /\ e > -PTP_MAX_ERR_NS /\ Magnitude(e) < NS_SEC_PERIOD
    BY <1>1, <1>2, <1>4, FastConstants DEF InDeadZone, freq_adj, Share, Magnitude
  <1>6. /\ -440 * Blur < j /\ j < 40 * Blur /\ Modest(r)
    <2>1. CASE Tuned(x, i, r)
      <3>1. /\ x + q \in Delays /\ Magnitude(i) < 2 * NS_SEC_PERIOD
            /\ -440 * Blur < i /\ i < 20 * Blur => Modest(r)
        BY <1>3, <2>1 DEF Tuned
      <3>2. x + q \in Int /\ -1 <= x + q /\ x + q <= Late
        BY <1>0, <3>1, FastConstants DEF Delays
      <3>3. /\ -440 * Blur < j /\ j < 40 * Blur
            /\ -440 * Blur < i /\ i < 20 * Blur
        BY <1>0, <1>1, <1>2, <1>3, <1>4, <1>5, <3>2, FastConstants DEF Divides
      <3> QED  BY <3>1, <3>3
    <2>2. CASE Coasting(x, i, r)
      <3>1. -440 * Blur < i /\ i < 40 * Blur /\ Modest(r)
        BY <2>2 DEF Coasting
      <3>2. -440 * Blur < j /\ j < 40 * Blur
        BY <1>0, <1>1, <1>2, <1>4, <1>5, <3>1, FastConstants DEF Divides
      <3> QED  BY <3>1, <3>2
    <2>3. CASE Restarted(x, i, r)
      <3>1. /\ i = 0
            /\ -PTP_MAX_ERR_NS <= x /\ x < PTP_MAX_ERR_NS + Late => Modest(r)
        BY <2>3 DEF Restarted
      <3>2. /\ -PTP_MAX_ERR_NS <= x /\ x < PTP_MAX_ERR_NS + Late
            /\ -440 * Blur < j /\ j < 40 * Blur
        BY <1>0, <1>1, <1>2, <1>4, <1>5, <3>1, FastConstants DEF Divides
      <3> QED  BY <3>1, <3>2
    <2>4. CASE i = 0 /\ r = 0
      BY <1>2, <1>4, <1>5, <2>4, FastConstants DEF Divides, Modest
    <2> QED  BY <2>1, <2>2, <2>3, <2>4 DEF Ready, Held
  <1>7. Coasting(x - r, j, r)
    <2>1. x - r + r = x
      OBVIOUS
    <2>2. x + p \in -PTP_MAX_ERR_NS .. PTP_MAX_ERR_NS - 1 + Late /\ -PTP_MAX_ERR_NS <= x
      BY <1>0, <1>1, <1>4, <1>5, FastConstants
    <2> QED  BY <1>4, <1>6, <2>1, <2>2 DEF Coasting
  <1>8. Beside(x)
    BY <1>0, <1>1, <1>4, <1>5, <1>6, FastConstants, SlackBounds DEF Divides, Beside
  <1>9. Small(r)
    BY <1>6, FastConstants, SlackBounds DEF Modest, Small
  <1> QED  BY <1>1, <1>2, <1>7, <1>8, <1>9

(***************************************************************************)
(* A report outside of the dead zone: the correction fits the register,    *)
(* and what remains is the share of the integral and the lateness of the   *)
(* report.                                                                 *)
(***************************************************************************)
LEMMA HeldWhenTuned ==
  ASSUME NetworkIsFast, NEW x \in Int, NEW i \in Int, NEW r \in Int, Ready(x, i, r),
         NEW y \in Delays, Magnitude(x - y) < NS_SEC_PERIOD,
         ~InDeadZone(x - y, i + (x - y), PTP_MAX_ERR_NS)
  PROVE  LET f == freq_adj(x - y, i + (x - y))
         IN  /\ Magnitude(f) < ADJUST_FIELD
             /\ Tuned(x - f, i + (x - y), f)
             /\ Beside(x - f) /\ Small(f)
  <1>0. y \in Int /\ -1 <= y /\ y <= Late
    BY FastConstants DEF Delays
  <1>1. PICK e \in Int : e = x - y
    BY <1>0
  <1>2. PICK j \in Int : j = i + e
    OBVIOUS
  <1>3. PICK q \in Int : q = Share(i) /\ Divides(q, i)
    BY ShareBounds DEF Divides
  <1>4. PICK p \in Int : p = Share(j) /\ Divides(p, j)
    BY ShareBounds DEF Divides
  <1>5. PICK f \in Int : f = e + p
    OBVIOUS
  <1>6. /\ freq_adj(x - y, i + (x - y)) = f
        /\ Magnitude(e) < NS_SEC_PERIOD
    BY <1>1, <1>2, <1>4, <1>5 DEF freq_adj, Share
  <1>7. \/ f <= -PTP_MAX_ERR_NS \/ f >= PTP_MAX_ERR_NS \/ e <= -PTP_MAX_ERR_NS
    BY <1>1, <1>2, <1>6, FastConstants DEF InDeadZone, Magnitude
  <1>8. /\ Magnitude(j) < 2 * NS_SEC_PERIOD
        /\ Magnitude(f) < ADJUST_FIELD
        /\ -440 * Blur < j /\ j < 20 * Blur => Modest(f)
    <2>1. CASE Tuned(x, i, r)
      <3>1. x + q \in Delays /\ Magnitude(i) < 2 * NS_SEC_PERIOD
        BY <1>3, <2>1 DEF Tuned
      <3>2. x + q \in Int /\ -1 <= x + q /\ x + q <= Late
        BY <1>0, <3>1, FastConstants DEF Delays
      <3>3. Magnitude(j) < 2 * NS_SEC_PERIOD
        BY <1>0, <1>1, <1>2, <1>3, <3>1, <3>2, FastConstants DEF Divides, Magnitude
      <3>4. Magnitude(f) < ADJUST_FIELD
        BY <1>0, <1>1, <1>2, <1>3, <1>4, <1>5, <3>1, <3>2, FastConstants
           DEF Divides, Magnitude
      <3>5. ASSUME -440 * Blur < j, j < 20 * Blur PROVE Modest(f)
        BY <1>0, <1>1, <1>2, <1>3, <1>4, <1>5, <3>2, <3>5, FastConstants
           DEF Divides, Modest
      <3> QED  BY <3>3, <3>4, <3>5
    <2>2. CASE Coasting(x, i, r)
      <3>1. /\ x + r + q \in -PTP_MAX_ERR_NS .. PTP_MAX_ERR_NS - 1 + Late
            /\ -PTP_MAX_ERR_NS <= x + r
            /\ -440 * Blur < i /\ i < 40 * Blur /\ Modest(r)
        BY <1>3, <2>2 DEF Coasting
      <3>2. Magnitude(j) < 2 * NS_SEC_PERIOD
        BY <1>0, <1>1, <1>2, <1>3, <3>1, FastConstants DEF Divides, Magnitude, Modest
      <3>3. Magnitude(f) < ADJUST_FIELD
        BY <1>0, <1>1, <1>2, <1>3, <1>4, <1>5, <3>1, FastConstants
           DEF Divides, Magnitude, Modest
      <3>4. ASSUME -440 * Blur < j, j < 20 * Blur PROVE Modest(f)
        BY <1>0, <1>1, <1>2, <1>3, <1>4, <1>5, <3>1, <3>4, FastConstants
           DEF Divides, Modest
      <3> QED  BY <3>2, <3>3, <3>4
    <2>3. CASE i = 0
      <3>1. Magnitude(j) < 2 * NS_SEC_PERIOD /\ Magnitude(f) < ADJUST_FIELD
        BY <1>2, <1>4, <1>5, <1>6, <2>3, FastConstants DEF Divides, Magnitude
      <3>2. ASSUME -440 * Blur < j, j < 20 * Blur PROVE Modest(f)
        BY <1>2, <1>4, <1>5, <2>3, <3>2, FastConstants DEF Divides, Modest
      <3> QED  BY <3>1, <3>2
    <2> QED  BY <2>1, <2>2, <2>3 DEF Ready, Held, Restarted
  <1>9. Tuned(x - f, j, f)
    <2>1. x - f + p = y
      BY <1>0, <1>1, <1>5
    <2> QED  BY <1>4, <1>8, <2>1 DEF Tuned
  <1>10. Beside(x - f)
    BY <1>0, <1>1, <1>4, <1>5, <1>8, FastConstants, SlackBounds
       DEF Divides, Beside, Magnitude
  <1>11. Small(f)
    BY <1>4, <1>5, <1>6, <1>8, FastConstants, SlackBounds DEF Divides, Small, Magnitude
  <1> QED  BY <1>1, <1>2, <1>6, <1>8, <1>9, <1>10, <1>11

-----------------------------------------------------------------------------

(***************************************************************************)
(* A fine report keeps the loop in hand, whichever messages it was made    *)
(* of and whether it is the first one or follows others; and it moves the  *)
(* clock as SlaveClock allows.                                             *)
(***************************************************************************)
LEMMA FineKeepsControl ==
  ASSUME NetworkIsFast, SlaveIInv, ControlIInv, ProcessFine
  PROVE  /\ Held(now' - clock', integ', ClockStep(fine_tune_register'))
         /\ Beside(now' - clock') \/ Beside(now - clock)
         /\ Small(clock' - clock)
  <1>1. /\ now \in Int /\ clock \in Int /\ integ \in Int
        /\ fine_tune_register \in tsu_adjustment
        /\ now - Ticks(out.synced) \in Delays
    BY SlaveConstants
       DEF SlaveIInv, SlaveType, Reported, ProcessFine, Delays, Late
  <1>2. pc = "report" /\ out.diff.seconds = 0 /\ now' = now
    BY DEF ProcessFine
  <1>3. /\ out.diff.nanosec = Ticks(out.synced) - clock
        /\ Ticks(out.synced) \in Nat
        /\ Magnitude(out.diff.nanosec) < NS_SEC_PERIOD
    BY <1>2, FineReportIsDistance
  <1>4. PICK x \in Int : x = now - clock
    BY <1>1
  <1>5. PICK y \in Delays : y = now - Ticks(out.synced)
    BY <1>1
  <1>6. y \in Int
    BY FastConstants DEF Delays
  <1>7. out.diff.nanosec = x - y /\ Magnitude(x - y) < NS_SEC_PERIOD
    BY <1>1, <1>3, <1>4, <1>5
  <1>8. PICK reg \in tsu_adjustment : reg = Tune(fine_tune_register, x - y, integ + (x - y))
    <2>1. x - y \in Int /\ integ + (x - y) \in Int
      BY <1>1, <1>6
    <2> QED  BY <1>1, <2>1, RegisterHolds
  <1>9. /\ integ' = integ + (x - y) /\ fine_tune_register' = reg
        /\ clock' = clock + ClockStep(reg)
    BY <1>7, <1>8 DEF ProcessFine, Tune
  <1>10. PICK r \in Int : r = ClockStep(fine_tune_register)
    BY <1>1, SlaveConstants DEF tsu_adjustment, ClockStep
  <1>11. PICK s \in Int : s = ClockStep(reg)
    BY SlaveConstants DEF tsu_adjustment, ClockStep
  <1>12. now' - clock' = x - s /\ clock' - clock = s
    BY <1>1, <1>2, <1>4, <1>9, <1>11
  <1>13. /\ InDeadZone(x - y, integ + (x - y), PTP_MAX_ERR_NS) => s = r
         /\ ~InDeadZone(x - y, integ + (x - y), PTP_MAX_ERR_NS)
            /\ Magnitude(freq_adj(x - y, integ + (x - y))) < ADJUST_FIELD
              => s = freq_adj(x - y, integ + (x - y))
    <2>1. x - y \in Int /\ integ + (x - y) \in Int
      BY <1>1, <1>6
    <2> QED  BY <1>1, <1>8, <1>10, <1>11, <2>1, RegisterHolds
  <1>14. Ready(x, integ, r)
    <2>1. CASE status = "TS_FINE"
      BY <1>4, <1>10, <2>1 DEF ControlIInv, ControlState, Ready
    <2>2. CASE status # "TS_FINE"
      <3>1. integ = 0 /\ fine_tune_register = NoAdjustment
        BY <1>2, <2>2 DEF ControlIInv, ControlState
      <3> QED  BY <1>10, <3>1 DEF NoAdjustment, ClockStep, Ready
    <2> QED  BY <2>1, <2>2
  <1>15. CASE InDeadZone(x - y, integ + (x - y), PTP_MAX_ERR_NS)
    <2>1. Coasting(x - r, integ + (x - y), r) /\ Beside(x) /\ Small(r)
      BY <1>1, <1>7, <1>14, <1>15, HeldInDeadZone
    <2> QED  BY <1>4, <1>9, <1>11, <1>12, <1>13, <1>15, <2>1 DEF Held
  <1>16. CASE ~InDeadZone(x - y, integ + (x - y), PTP_MAX_ERR_NS)
    <2> DEFINE f == freq_adj(x - y, integ + (x - y))
    <2>1. /\ Magnitude(f) < ADJUST_FIELD
          /\ Tuned(x - f, integ + (x - y), f)
          /\ Beside(x - f) /\ Small(f)
      BY <1>1, <1>7, <1>14, <1>16, HeldWhenTuned
    <2> QED  BY <1>9, <1>11, <1>12, <1>13, <1>16, <2>1 DEF Held
  <1> QED  BY <1>15, <1>16

LEMMA ControlNext ==
  ASSUME NetworkIsFast, SlaveIInv, ControlIInv, [SlaveNext]_slave_vars
  PROVE  ControlIInv'
  <1>1. /\ now \in Int /\ clock \in Int /\ integ \in Int
        /\ fine_tune_register \in tsu_adjustment
    BY SlaveConstants DEF SlaveIInv, SlaveType
  <1>2. CASE Tick
    <2>1. /\ pc = "idle" /\ now' = now + 1 /\ clock' = clock + 1
          /\ UNCHANGED <<pc, integ, fine_tune_register, status>>
      BY <1>2 DEF Tick, control, service
    <2>2. now' - clock' = now - clock
      BY <1>1, <2>1
    <2> QED  BY <2>1, <2>2 DEF ControlIInv, ControlState
  <1>3. CASE Lose \/ MasterSync \/ MasterDelayResp \/ HandleSync \/ HandleFollowUp
    <2>1. UNCHANGED <<now, clock, pc, integ, fine_tune_register, status>>
      BY <1>3 DEF Lose, MasterSync, MasterDelayResp, HandleSync, HandleFollowUp,
                  control, service
    <2> QED  BY <2>1 DEF ControlIInv, ControlState
  <1>4. CASE HandleDelayResp
    <2>1. /\ UNCHANGED <<now, clock, integ, fine_tune_register, status>>
          /\ pc = "idle" /\ pc' = "report"
      BY <1>4 DEF HandleDelayResp, service
    <2> QED  BY <2>1 DEF ControlIInv, ControlState
  <1>5. CASE ProcessCoarse
    <2>1. /\ pc = "report" /\ pc' = "idle" /\ integ' = 0
          /\ UNCHANGED <<now, fine_tune_register>>
      BY <1>5 DEF ProcessCoarse
    <2>2. CASE status = "TS_FINE"
      <3>1. status' = "TS_FINE" /\ clock' = clock
        BY <1>5, <2>2, CoarseSets
      <3>2. Held(now - clock, integ, ClockStep(fine_tune_register))
        BY <2>2 DEF ControlIInv, ControlState
      <3>3. now - clock \in Int /\ ClockStep(fine_tune_register) \in Int
        BY <1>1, SlaveConstants DEF tsu_adjustment, ClockStep
      <3>4. Held(now - clock, 0, ClockStep(fine_tune_register))
        BY <1>1, <3>2, <3>3, HeldWhenRestarted
      <3> QED  BY <2>1, <3>1, <3>4 DEF ControlIInv, ControlState
    <2>3. CASE status # "TS_FINE"
      <3>1. status' # "TS_FINE"
        BY <1>5, <2>3, CoarseSets
      <3>2. fine_tune_register = NoAdjustment
        BY <2>1, <2>3 DEF ControlIInv, ControlState
      <3> QED  BY <2>1, <3>1, <3>2 DEF ControlIInv, ControlState
    <2> QED  BY <2>2, <2>3
  <1>6. CASE ProcessFine
    <2>1. pc' = "fine_time_received"
      BY <1>6 DEF ProcessFine
    <2>2. Held(now' - clock', integ', ClockStep(fine_tune_register'))
      BY <1>6, FineKeepsControl
    <2> QED  BY <2>1, <2>2 DEF ControlIInv, ControlState
  <1>7. CASE NotifyFine
    <2>1. /\ pc = "fine_time_received" /\ pc' = "error_report" /\ status' = "TS_FINE"
          /\ UNCHANGED <<now, clock, integ, fine_tune_register>>
      BY <1>7 DEF NotifyFine, TS!fine_time_received
    <2> QED  BY <2>1 DEF ControlIInv, ControlState
  <1>8. CASE ReportError
    <2>1. /\ pc = "error_report" /\ pc' = "idle" /\ status' = status
          /\ UNCHANGED <<now, clock, integ, fine_tune_register>>
      BY <1>8 DEF ReportError, TS!update_error
    <2> QED  BY <2>1 DEF ControlIInv, ControlState
  <1>9. CASE UNCHANGED slave_vars
    <2>1. UNCHANGED <<now, clock, pc, integ, fine_tune_register, status>>
      BY <1>9 DEF slave_vars, control, service
    <2> QED  BY <2>1 DEF ControlIInv, ControlState
  <1> QED  BY <1>2, <1>3, <1>4, <1>5, <1>6, <1>7, <1>8, <1>9 DEF SlaveNext

(***************************************************************************)
(* On a fast network the loop of ptp_process_time_diff,                    *)
(* tsu_clock_fine_tune and tsu_systick_cb holds only corrections that do   *)
(* no harm when they are applied again.                                    *)
(***************************************************************************)
THEOREM ControlInvariant == NetworkIsFast => (SlaveSpec => []ControlIInv)
  <1> SUFFICES ASSUME NetworkIsFast PROVE SlaveSpec => []ControlIInv
    OBVIOUS
  <1>1. SlaveInit => ControlIInv
    BY DEF SlaveInit, TS!ServiceInit, ControlIInv, ControlState
  <1>2. SlaveIInv /\ ControlIInv /\ [SlaveNext]_slave_vars => ControlIInv'
    BY ControlNext
  <1> QED  BY <1>1, <1>2, SlaveInvariant, PTL DEF SlaveSpec

(***************************************************************************)
(* On such a network the integral of ptp.c never overflows its int32_t,    *)
(* which has to hold little more than two seconds of nanoseconds.          *)
(***************************************************************************)
THEOREM SlaveIntegralFits == NetworkIsFast => (SlaveSpec => []IntegralFits)
  <1> SUFFICES ASSUME NetworkIsFast PROVE SlaveSpec => []IntegralFits
    OBVIOUS
  <1>1. SlaveIInv /\ ControlIInv => IntegralFits
    <2> SUFFICES ASSUME SlaveIInv, ControlIInv PROVE integ \in Int32
      BY DEF IntegralFits
    <2>1. integ \in Int
      BY DEF SlaveIInv, SlaveType
    <2>2. Magnitude(integ) < 2 * NS_SEC_PERIOD
      <3>1. \/ Tuned(now - clock, integ, ClockStep(fine_tune_register))
            \/ -440 * Blur < integ /\ integ < 40 * Blur
            \/ integ = 0
        BY DEF ControlIInv, ControlState, Held, Coasting, Restarted
      <3>2. CASE Tuned(now - clock, integ, ClockStep(fine_tune_register))
        BY <3>2 DEF Tuned
      <3>3. CASE -440 * Blur < integ /\ integ < 40 * Blur
        BY <2>1, <3>3, FastConstants DEF Magnitude
      <3>4. CASE integ = 0
        BY <3>4, SlaveConstants DEF Magnitude
      <3> QED  BY <3>1, <3>2, <3>3, <3>4
    <2> QED  BY <2>1, <2>2, OverflowAssumption, SlaveConstants DEF Magnitude, Int32
  <1> QED  BY <1>1, SlaveInvariant, ControlInvariant, PTL

(***************************************************************************)
(* On a network with delays up to MaxDelay that loses, repeats and mixes   *)
(* up messages, a slave in fine status is never a second or more away from *)
(* the master: the whole-second reports it then ignores are harmless.      *)
(***************************************************************************)
THEOREM SlaveStaysClose ==
  NetworkIsFast =>
    (SlaveSpec => [](status = "TS_FINE" => Magnitude(now - clock) < NS_SEC_PERIOD))
  <1> SUFFICES ASSUME NetworkIsFast
               PROVE  SlaveSpec => [](status = "TS_FINE" =>
                                        Magnitude(now - clock) < NS_SEC_PERIOD)
    OBVIOUS
  <1>1. SlaveIInv /\ ControlIInv /\ status = "TS_FINE" =>
          Magnitude(now - clock) < NS_SEC_PERIOD
    <2> SUFFICES ASSUME SlaveIInv, ControlIInv, status = "TS_FINE"
                 PROVE  Magnitude(now - clock) < NS_SEC_PERIOD
      OBVIOUS
    <2>1. now \in Int /\ clock \in Int /\ integ \in Int
          /\ fine_tune_register \in tsu_adjustment
      BY SlaveConstants DEF SlaveIInv, SlaveType
    <2>2. now - clock \in Int /\ ClockStep(fine_tune_register) \in Int
      BY <2>1, SlaveConstants DEF tsu_adjustment, ClockStep
    <2>3. Held(now - clock, integ, ClockStep(fine_tune_register))
      BY DEF ControlIInv, ControlState
    <2> QED  BY <2>1, <2>2, <2>3, HeldIsClose
  <1> QED  BY <1>1, SlaveInvariant, ControlInvariant, PTL

-----------------------------------------------------------------------------

(***************************************************************************)
(* Every step of the slave is a step of SlaveClock, or leaves its          *)
(* variables alone.                                                        *)
(***************************************************************************)
LEMMA SlaveStep ==
  ASSUME NetworkIsFast, SlaveIInv, ControlIInv, [SlaveNext]_slave_vars
  PROVE  [Clock!Next]_(Clock!vars)
  <1>1. now \in Int /\ clock \in Int
    BY SlaveConstants DEF SlaveIInv, SlaveType
  <1>2. CASE Tick
    <2>1. now' = now + 1 /\ clock' = clock + 1 /\ status' = status
      BY <1>2 DEF Tick, service
    <2> QED  BY <2>1 DEF Clock!Next, Clock!Run
  <1>3. CASE \/ Lose \/ MasterSync \/ MasterDelayResp
             \/ HandleSync \/ HandleFollowUp \/ HandleDelayResp \/ ReportError
    <2>1. UNCHANGED <<now, clock, status>>
      BY <1>3 DEF Lose, MasterSync, MasterDelayResp, HandleSync, HandleFollowUp,
                  HandleDelayResp, ReportError, TS!update_error, service
    <2> QED  BY <2>1 DEF Clock!vars
  <1>4. CASE ProcessCoarse
    <2>1. /\ now' = now
          /\ out.synced \in Timestamp
          /\ now - Ticks(out.synced) \in -1 .. MaxDelay + 1
      BY <1>4 DEF ProcessCoarse, SlaveIInv, Reported
    <2>2. /\ status = "TS_FINE" => status' = "TS_FINE" /\ clock' = clock
          /\ status # "TS_FINE" => status' # "TS_FINE"
          /\ clock' = clock \/ SetTo(out.synced, clock, clock')
      BY <1>4, CoarseSets
    <2>3. (status' = "TS_FINE") = (status = "TS_FINE")
      BY <2>2
    <2>4. CASE clock' = clock
      BY <2>1, <2>3, <2>4 DEF Clock!vars
    <2>5. CASE status # "TS_FINE" /\ SetTo(out.synced, clock, clock')
      BY <2>1, <2>3, <2>5 DEF SetTo, Clock!Next, Clock!Jump, Clock!Recent
    <2> QED  BY <2>2, <2>4, <2>5
  <1>5. CASE ProcessFine
    <2>1. now' = now /\ status' = status
      BY <1>5 DEF ProcessFine, service
    <2>2. /\ Beside(now - clock') \/ Beside(now - clock)
          /\ Small(clock' - clock)
      BY <1>5, <2>1, FineKeepsControl
    <2>3. \A c : Beside(now - c) => Clock!NearRecent(c)
      BY SlaveConstants DEF Beside, Slack, Late, Clock!NearRecent
    <2>4. clock' - clock \in 1 - NS_SEC_PERIOD - Slack .. NS_SEC_PERIOD + Slack - 1
      BY <2>2 DEF Small
    <2> QED  BY <2>1, <2>2, <2>3, <2>4 DEF Slack, Clock!Next, Clock!Trim
  <1>6. CASE NotifyFine
    <2>1. UNCHANGED <<now, clock>> /\ status' = "TS_FINE"
      BY <1>6 DEF NotifyFine, TS!fine_time_received
    <2> QED  BY <2>1 DEF Clock!Next, Clock!Lock
  <1>7. CASE UNCHANGED slave_vars
    <2>1. UNCHANGED <<now, clock, status>>
      BY <1>7 DEF slave_vars, service
    <2> QED  BY <2>1 DEF Clock!vars
  <1> QED  BY <1>2, <1>3, <1>4, <1>5, <1>6, <1>7 DEF SlaveNext

(***************************************************************************)
(* The slave implements SlaveClock on every fast network: before fine      *)
(* status coarse_time_received sets its clock to recent times of the       *)
(* master, after it only corrections of hardly more than a second move it, *)
(* and each one starts or ends near a recent time of the master.           *)
(***************************************************************************)
THEOREM SlaveRefinesClock == NetworkIsFast => (SlaveSpec => ImplementsSlaveClock)
  <1> SUFFICES ASSUME NetworkIsFast PROVE SlaveSpec => ImplementsSlaveClock
    OBVIOUS
  <1>1. SlaveInit => Clock!Init
    BY DEF SlaveInit, TS!ServiceInit, Clock!Init
  <1>2. SlaveIInv /\ ControlIInv /\ [SlaveNext]_slave_vars => [Clock!Next]_(Clock!vars)
    BY SlaveStep
  <1> QED  BY <1>1, <1>2, SlaveInvariant, ControlInvariant, PTL
           DEF SlaveSpec, ImplementsSlaveClock, Clock!Spec

=============================================================================
