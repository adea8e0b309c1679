--------------------------- MODULE PtpServo_proofs ---------------------------
(***************************************************************************)
(* Proofs about the control loop, for every dead zone, every length of a   *)
(* second and every start, as long as the dead zone is small beside the    *)
(* second (LoopAssumption).                                                *)
(***************************************************************************)
EXTENDS PtpServo, TLAPS

-----------------------------------------------------------------------------

(***************************************************************************)
(* The inductive invariant.  x is the difference, i the integral, and r    *)
(* the correction the register holds.  The danger is a difference inside   *)
(* the dead zone while the register still holds a large correction, which  *)
(* is then applied again.  Modest bounds that correction wherever the next *)
(* report may fall into the dead zone.                                     *)
(***************************************************************************)
Modest(r) == -460 * PTP_MAX_ERR_NS <= r /\ r <= 445 * PTP_MAX_ERR_NS

\* A twentieth of the integral, as C divides.
Share(i) == Quotient(i, INTEGRAL_DIVISOR)

(***************************************************************************)
(* The last report was outside of the dead zone: its correction leaves     *)
(* just the share of the integral.                                         *)
(***************************************************************************)
Tuned(x, i, r) ==
  /\ x = -Share(i)
  /\ Magnitude(i) < 2 * NS_SEC_PERIOD
  /\ -400 * PTP_MAX_ERR_NS < i /\ i < 20 * PTP_MAX_ERR_NS => Modest(r)

(***************************************************************************)
(* The last report, x + r, was inside the dead zone: the old correction    *)
(* was applied to it once more.                                            *)
(***************************************************************************)
Coasting(x, i, r) ==
  /\ InDeadZone(x + r, i, PTP_MAX_ERR_NS)
  /\ -400 * PTP_MAX_ERR_NS < i /\ i < 40 * PTP_MAX_ERR_NS
  /\ Modest(r)

(***************************************************************************)
(* The last report was one of a whole second, ignored in fine status but   *)
(* for the integral.                                                       *)
(***************************************************************************)
Restarted(x, i, r) ==
  /\ i = 0
  /\ Magnitude(x) < NS_SEC_PERIOD /\ x + NS_SEC_PERIOD > 30 * PTP_MAX_ERR_NS
  /\ Magnitude(x) < PTP_MAX_ERR_NS => Modest(r)

Held(x, i, r) == Tuned(x, i, r) \/ Coasting(x, i, r) \/ Restarted(x, i, r)

\* Before the first fine report nothing has been integrated or tuned.
Ready(x, i, r) == Held(x, i, r) \/ (i = 0 /\ r = 0)

(***************************************************************************)
(* The master's time was stepped in fine status and no fine report has     *)
(* been made since.  A difference of a second or more lasts; a smaller one *)
(* is outside of the dead zone.                                            *)
(***************************************************************************)
Stepped(x, i) ==
  /\ Magnitude(i) < 2 * NS_SEC_PERIOD
  /\ \/ x >= NS_SEC_PERIOD
     \/ /\ x >= 30 * PTP_MAX_ERR_NS
        /\ -400 * PTP_MAX_ERR_NS < i /\ i < NS_SEC_PERIOD
        /\ 20 * x + i <= 20 * NS_SEC_PERIOD + 40 * PTP_MAX_ERR_NS

LoopState ==
  IF status = "TS_FINE" \/ pc # "idle"
    THEN Held(off, integ, ClockStep(fine_tune_register))
    ELSE integ = 0 /\ fine_tune_register = NoAdjustment

LoopType ==
  /\ off \in Int /\ integ \in Int32 /\ error_ns \in Int /\ overflowed \in BOOLEAN
  /\ fine_tune_register \in tsu_adjustment
  /\ pc \in {"idle", "fine_time_received", "error_report"}
  /\ status \in TS!States
  /\ steps \in 0 .. MaxSteps

IInv ==
  /\ LoopType
  /\ pc = "error_report" => status = "TS_FINE"
  /\ steps = 0 => LoopState /\ integ < NS_SEC_PERIOD /\ ~overflowed
  /\ CorrectionFits

(***************************************************************************)
(* After the first step of the master's time.                              *)
(***************************************************************************)
StepIInv ==
  steps = 1 =>
    /\ ~overflowed
    /\ LoopState \/ (status = "TS_FINE" /\ pc = "idle" /\ Stepped(off, integ))

-----------------------------------------------------------------------------

(***************************************************************************)
(* C's division by 20, by its bounds.                                      *)
(***************************************************************************)
Divides(q, i) ==
  /\ q \in Int
  /\ i >= 0 => 20 * q <= i /\ i < 20 * q + 20
  /\ i <= 0 => i <= 20 * q /\ 20 * q - 20 < i

LEMMA ShareBounds ==
  ASSUME NEW i \in Int
  PROVE  Divides(Share(i), i)
  BY DEF Divides, Share, Quotient, INTEGRAL_DIVISOR

LEMMA Constants ==
  /\ PTP_MAX_ERR_NS \in Nat \ {0} /\ NS_SEC_PERIOD \in Nat \ {0}
  /\ ADJUST_FIELD \in Nat \ {0} /\ INT32_MAX \in Nat
  /\ 500 * PTP_MAX_ERR_NS <= NS_SEC_PERIOD
  /\ 21 * NS_SEC_PERIOD <= 20 * ADJUST_FIELD
  /\ 2 * NS_SEC_PERIOD <= INT32_MAX
  /\ MaxSteps \in Nat
  /\ \A i \in Int32 : i \in Int
  BY ServoAssumption, LoopAssumption, PeriodAssumption, FieldAssumption
     DEF INTEGRAL_DIVISOR, Int32

(***************************************************************************)
(* Whichever way the loop got there, it is less than a second off, and the *)
(* integral fits its variable.                                             *)
(***************************************************************************)
LEMMA HeldIsClose ==
  ASSUME NEW x \in Int, NEW i \in Int, NEW r \in Int, Held(x, i, r)
  PROVE  /\ Magnitude(x) < NS_SEC_PERIOD
         /\ Magnitude(i) < 2 * NS_SEC_PERIOD
  <1>0. PICK q \in Int : q = Share(i) /\ Divides(q, i)
    BY ShareBounds DEF Divides
  <1>1. CASE Tuned(x, i, r)
    <2>1. x = -q /\ Magnitude(i) < 2 * NS_SEC_PERIOD
      BY <1>0, <1>1 DEF Tuned
    <2> QED  BY <1>0, <2>1, Constants DEF Divides, Magnitude
  <1>2. CASE Coasting(x, i, r)
    <2>1. /\ Magnitude(x + r + q) < PTP_MAX_ERR_NS
          /\ -400 * PTP_MAX_ERR_NS < i /\ i < 40 * PTP_MAX_ERR_NS
          /\ x + r > -PTP_MAX_ERR_NS
          /\ Modest(r)
      BY <1>0, <1>2 DEF Coasting, InDeadZone, freq_adj, Share
    <2> QED  BY <1>0, <2>1, Constants DEF Divides, Modest, Magnitude
  <1>3. CASE Restarted(x, i, r)
    BY <1>3, Constants DEF Restarted, Magnitude
  <1> QED  BY <1>1, <1>2, <1>3 DEF Held

(***************************************************************************)
(* A report of a whole second, ignored but for the integral.               *)
(***************************************************************************)
LEMMA HeldWhenRestarted ==
  ASSUME NEW x \in Int, NEW i \in Int, NEW r \in Int, Held(x, i, r)
  PROVE  Held(x, 0, r)
  <1>0. x + NS_SEC_PERIOD > 30 * PTP_MAX_ERR_NS
    <2>0. PICK q \in Int : q = Share(i) /\ Divides(q, i)
      BY ShareBounds DEF Divides
    <2>1. CASE Tuned(x, i, r)
      <3>1. x = -q /\ Magnitude(i) < 2 * NS_SEC_PERIOD
        BY <2>0, <2>1 DEF Tuned
      <3> QED  BY <2>0, <3>1, Constants DEF Divides, Magnitude
    <2>2. CASE Coasting(x, i, r)
      <3>1. x + r > -PTP_MAX_ERR_NS /\ Modest(r)
        BY <2>2 DEF Coasting, InDeadZone
      <3> QED  BY <3>1, Constants DEF Modest
    <2>3. CASE Restarted(x, i, r)
      BY <2>3 DEF Restarted
    <2> QED  BY <2>1, <2>2, <2>3 DEF Held
  <1> SUFFICES ASSUME Magnitude(x) < PTP_MAX_ERR_NS PROVE Modest(r)
    BY <1>0, HeldIsClose DEF Held, Restarted
  <1>1. CASE Tuned(x, i, r)
    BY <1>1, Constants, ShareBounds DEF Divides, Tuned, Magnitude
  <1>2. CASE Coasting(x, i, r)
    BY <1>2 DEF Coasting
  <1>3. CASE Restarted(x, i, r)
    BY <1>3 DEF Restarted
  <1> QED  BY <1>1, <1>2, <1>3 DEF Held

(***************************************************************************)
(* A report inside the dead zone: the register is applied once more.       *)
(***************************************************************************)
LEMMA HeldInDeadZone ==
  ASSUME NEW x \in Int, NEW i \in Int, NEW r \in Int, Ready(x, i, r),
         InDeadZone(x, i + x, PTP_MAX_ERR_NS)
  PROVE  Held(x - r, i + x, r)
  <1>1. /\ Magnitude(x + Share(i + x)) < PTP_MAX_ERR_NS
        /\ x > -PTP_MAX_ERR_NS
    BY DEF InDeadZone, freq_adj, Share
  <1>2. InDeadZone((x - r) + r, i + x, PTP_MAX_ERR_NS)
    <2>1. (x - r) + r = x
      OBVIOUS
    <2> QED  BY <2>1
  <1>3. ASSUME -400 * PTP_MAX_ERR_NS < i + x, i + x < 40 * PTP_MAX_ERR_NS, Modest(r)
        PROVE  Held(x - r, i + x, r)
    BY <1>2, <1>3 DEF Held, Coasting
  <1>4. CASE Tuned(x, i, r)
    <2>1. -400 * PTP_MAX_ERR_NS < i /\ i < 20 * PTP_MAX_ERR_NS
      BY <1>1, <1>4, Constants, ShareBounds DEF Divides, Tuned, Magnitude
    <2>2. -400 * PTP_MAX_ERR_NS < i + x /\ i + x < 40 * PTP_MAX_ERR_NS
      BY <1>1, <1>4, <2>1, Constants, ShareBounds DEF Divides, Tuned, Magnitude
    <2> QED  BY <1>3, <1>4, <2>1, <2>2 DEF Tuned
  <1>5. CASE Coasting(x, i, r)
    <2>1. -400 * PTP_MAX_ERR_NS < i /\ i < 40 * PTP_MAX_ERR_NS /\ Modest(r)
      BY <1>5 DEF Coasting
    <2>2. PICK q \in Int : q = Share(i + x) /\ Divides(q, i + x)
      BY ShareBounds DEF Divides
    <2>3. -400 * PTP_MAX_ERR_NS < i + x /\ i + x < 40 * PTP_MAX_ERR_NS
      BY <1>1, <2>1, <2>2, Constants DEF Divides, Magnitude
    <2> QED  BY <1>3, <2>1, <2>3
  <1>6. CASE i = 0 /\ (Restarted(x, i, r) \/ r = 0)
    <2>0. PICK q \in Int : q = Share(i + x) /\ Divides(q, i + x)
      BY ShareBounds DEF Divides
    <2>1. Magnitude(x) < PTP_MAX_ERR_NS
      <3>1. i = 0 /\ Divides(q, x) /\ Magnitude(x + q) < PTP_MAX_ERR_NS
        BY <1>1, <1>6, <2>0
      <3> QED  BY <1>1, <3>1, Constants DEF Divides, Magnitude
    <2>2. -400 * PTP_MAX_ERR_NS < i + x /\ i + x < 40 * PTP_MAX_ERR_NS
      BY <1>6, <2>1, Constants DEF Magnitude
    <2>3. Modest(r)
      BY <1>6, <2>1, Constants DEF Restarted, Modest
    <2> QED  BY <1>3, <2>2, <2>3
  <1> QED  BY <1>4, <1>5, <1>6 DEF Ready, Held, Restarted

(***************************************************************************)
(* A report outside of it: the correction is computed anew, it fits the    *)
(* register, and all but the share of the integral is corrected.           *)
(***************************************************************************)
LEMMA HeldWhenTuned ==
  ASSUME NEW x \in Int, NEW i \in Int, NEW r \in Int, Ready(x, i, r),
         Magnitude(x) < NS_SEC_PERIOD, ~InDeadZone(x, i + x, PTP_MAX_ERR_NS)
  PROVE  /\ Magnitude(freq_adj(x, i + x)) < ADJUST_FIELD
         /\ Held(x - freq_adj(x, i + x), i + x, freq_adj(x, i + x))
  <1> DEFINE j == i + x
             f == freq_adj(x, j)
  <1>1. j \in Int /\ Share(j) \in Int /\ f = x + Share(j) /\ f \in Int
    BY ShareBounds DEF Divides, freq_adj, Share
  <1>2. x - f = -Share(j)
    BY <1>1
  <1>3. /\ Magnitude(f) < ADJUST_FIELD
        /\ Magnitude(j) < 2 * NS_SEC_PERIOD
        /\ -400 * PTP_MAX_ERR_NS < j /\ j < 20 * PTP_MAX_ERR_NS => Modest(f)
    <2>1. CASE Tuned(x, i, r)
      BY <1>1, <2>1, Constants, ShareBounds DEF Divides, Tuned, Magnitude, Modest
    <2>2. CASE Coasting(x, i, r)
      <3>0. PICK q \in Int : q = Share(i) /\ Divides(q, i)
        BY ShareBounds DEF Divides
      <3>1. /\ Magnitude(x + r + q) < PTP_MAX_ERR_NS
            /\ -400 * PTP_MAX_ERR_NS < i /\ i < 40 * PTP_MAX_ERR_NS
            /\ x + r > -PTP_MAX_ERR_NS
            /\ -460 * PTP_MAX_ERR_NS <= r /\ r <= 445 * PTP_MAX_ERR_NS
        BY <2>2, <3>0 DEF Coasting, InDeadZone, freq_adj, Share, Modest
      <3>2. x < 482 * PTP_MAX_ERR_NS /\ x > -447 * PTP_MAX_ERR_NS
        BY <3>0, <3>1, Constants DEF Divides, Magnitude
      <3>3. PICK p \in Int : p = Share(j) /\ Divides(p, j)
        BY <1>1, ShareBounds DEF Divides
      <3> QED  BY <1>1, <3>1, <3>2, <3>3, Constants DEF Divides, Magnitude, Modest
    <2>3. CASE i = 0
      <3>1. PICK p \in Int : p = Share(j) /\ Divides(p, j)
        BY <1>1, ShareBounds DEF Divides
      <3>2. j = x /\ Divides(p, x) /\ f = x + p /\ Magnitude(x) < NS_SEC_PERIOD
        BY <1>1, <2>3, <3>1
      <3> HIDE DEF j, f
      <3> QED  BY <3>2, Constants DEF Divides, Magnitude, Modest
    <2> QED  BY <2>1, <2>2, <2>3 DEF Ready, Held, Restarted
  <1>4. Tuned(x - f, j, f)
    BY <1>2, <1>3 DEF Tuned
  <1> QED  BY <1>3, <1>4 DEF Held

(***************************************************************************)
(* Without a step of the master's time the integral stays below a second.  *)
(***************************************************************************)
LEMMA IntegralBelowSecond ==
  ASSUME NEW x \in Int, NEW i \in Int, NEW r \in Int, Ready(x, i, r),
         Magnitude(x) < NS_SEC_PERIOD, i < NS_SEC_PERIOD
  PROVE  i + x < NS_SEC_PERIOD
  <1>0. PICK q \in Int : q = Share(i) /\ Divides(q, i)
    BY ShareBounds DEF Divides
  <1>1. CASE Tuned(x, i, r)
    <2>1. x = -q
      BY <1>0, <1>1 DEF Tuned
    <2> QED  BY <1>0, <2>1, Constants DEF Divides
  <1>2. CASE Coasting(x, i, r)
    <2>1. /\ Magnitude(x + r + q) < PTP_MAX_ERR_NS
          /\ i < 40 * PTP_MAX_ERR_NS /\ -460 * PTP_MAX_ERR_NS <= r
      BY <1>0, <1>2 DEF Coasting, InDeadZone, freq_adj, Share, Modest
    <2> QED  BY <1>0, <2>1, Constants DEF Divides, Magnitude
  <1>3. CASE i = 0
    BY <1>3, Constants DEF Magnitude
  <1> QED  BY <1>1, <1>2, <1>3 DEF Ready, Held, Restarted

(***************************************************************************)
(* A loop in hand does not overflow its integral.                          *)
(***************************************************************************)
LEMMA HeldFits ==
  ASSUME NEW x \in Int, NEW i \in Int, NEW r \in Int, Held(x, i, r)
  PROVE  i \in Int32
  BY HeldIsClose, Constants DEF Magnitude, Int32

LEMMA SumFits ==
  ASSUME NEW x \in Int, NEW i \in Int, NEW r \in Int, Ready(x, i, r),
         Magnitude(x) < NS_SEC_PERIOD
  PROVE  i + x \in Int32
  <1>1. CASE InDeadZone(x, i + x, PTP_MAX_ERR_NS)
    <2>1. Held(x - r, i + x, r)
      BY <1>1, HeldInDeadZone
    <2> QED  BY <2>1, HeldFits
  <1>2. CASE ~InDeadZone(x, i + x, PTP_MAX_ERR_NS)
    <2>1. PICK f \in Int : f = freq_adj(x, i + x)
      BY ShareBounds DEF freq_adj, Share, Divides
    <2>2. Held(x - f, i + x, f)
      BY <1>2, <2>1, HeldWhenTuned
    <2> QED  BY <2>1, <2>2, HeldFits
  <1> QED  BY <1>1, <1>2

-----------------------------------------------------------------------------

(***************************************************************************)
(* A report without a second is the difference itself.                     *)
(***************************************************************************)
LEMMA FineReportIsOff ==
  ASSUME off \in Int, NEW diff \in Reports, diff.seconds = 0
  PROVE  diff.nanosec = off /\ Magnitude(off) < NS_SEC_PERIOD
  <1> DEFINE w == off \div NS_SEC_PERIOD
             m == off % NS_SEC_PERIOD
  <1>1. /\ w \in Int /\ m \in 0 .. NS_SEC_PERIOD - 1
        /\ off = NS_SEC_PERIOD * w + m
    BY Constants
  <1>2. diff = Time(w, m) \/ (m # 0 /\ diff = Time(w + 1, m - NS_SEC_PERIOD))
    BY DEF Reports
  <1> HIDE DEF w, m
  <1>3. CASE diff = Time(w, m)
    BY <1>1, <1>3, Constants DEF Time, Magnitude
  <1>4. CASE m # 0 /\ diff = Time(w + 1, m - NS_SEC_PERIOD)
    <2>1. w = -1 /\ diff.nanosec = m - NS_SEC_PERIOD
      BY <1>1, <1>4 DEF Time
    <2>2. off = m - NS_SEC_PERIOD
      BY <1>1, <2>1, Constants
    <2> QED  BY <1>1, <1>4, <2>1, <2>2, Constants DEF Magnitude
  <1> QED  BY <1>2, <1>3, <1>4

(***************************************************************************)
(* The register gives back a correction that fits its field.               *)
(***************************************************************************)
LEMMA RegisterHolds ==
  ASSUME NEW reg \in tsu_adjustment, NEW e \in Int, NEW i \in Int
  PROVE  LET new == tsu_clock_fine_tune(reg, e, i, PTP_MAX_ERR_NS)
         IN  /\ new \in tsu_adjustment
             /\ ClockStep(reg) \in Int /\ ClockStep(new) \in Int
             /\ InDeadZone(e, i, PTP_MAX_ERR_NS) => new = reg
             /\ ~InDeadZone(e, i, PTP_MAX_ERR_NS) /\ Magnitude(freq_adj(e, i)) < ADJUST_FIELD
                  => ClockStep(new) = freq_adj(e, i)
  <1> DEFINE new == tsu_clock_fine_tune(reg, e, i, PTP_MAX_ERR_NS)
  <1>1. \A a \in tsu_adjustment : ClockStep(a) \in Int
    BY Constants DEF tsu_adjustment, ClockStep
  <1>2. PICK f \in Int : f = freq_adj(e, i)
    BY ShareBounds DEF freq_adj, Share, Divides
  <1>3. CASE InDeadZone(e, i, PTP_MAX_ERR_NS)
    BY <1>1, <1>3 DEF tsu_clock_fine_tune
  <1>4. CASE ~InDeadZone(e, i, PTP_MAX_ERR_NS)
    <2>1. new = [direction |-> IF f > 0 THEN "add" ELSE "subtract",
                 nanosec |-> Magnitude(f) % ADJUST_FIELD]
      BY <1>2, <1>4 DEF tsu_clock_fine_tune
    <2>2. Magnitude(f) \in Nat /\ Magnitude(f) % ADJUST_FIELD \in 0 .. ADJUST_FIELD - 1
      BY Constants DEF Magnitude
    <2>3. new \in tsu_adjustment
      BY <2>1, <2>2 DEF tsu_adjustment
    <2>4. ASSUME Magnitude(f) < ADJUST_FIELD PROVE ClockStep(new) = f
      <3>1. Magnitude(f) % ADJUST_FIELD = Magnitude(f)
        BY <2>2, <2>4, Constants
      <3>2. CASE f > 0
        BY <2>1, <3>1, <3>2 DEF ClockStep, Magnitude
      <3>3. CASE ~(f > 0)
        BY <2>1, <3>1, <3>3 DEF ClockStep, Magnitude
      <3> QED  BY <3>2, <3>3
    <2>5. ClockStep(reg) \in Int /\ ClockStep(new) \in Int
      BY <1>1, <2>3
    <2> QED  BY ONLY <1>2, <1>4, <2>3, <2>4, <2>5
  <1> QED  BY <1>3, <1>4

(***************************************************************************)
(* A fine report keeps the loop in hand, whether it is the first one or    *)
(* follows others.                                                         *)
(***************************************************************************)
LEMMA FineTunes ==
  ASSUME LoopType, NEW diff \in Reports, FineReport(diff)
  PROVE  /\ LoopType'
         /\ Magnitude(off) < NS_SEC_PERIOD
         /\ integ + off \in Int32 => integ' = integ + off /\ overflowed' = overflowed
         /\ error_ns' = off
         /\ off' = off - ClockStep(fine_tune_register')
         /\ ClockStep(fine_tune_register) \in Int
         /\ InDeadZone(off, integ', PTP_MAX_ERR_NS)
              => ClockStep(fine_tune_register') = ClockStep(fine_tune_register)
         /\ ~InDeadZone(off, integ', PTP_MAX_ERR_NS)
            /\ Magnitude(freq_adj(off, integ')) < ADJUST_FIELD
              => ClockStep(fine_tune_register') = freq_adj(off, integ')
  <1>1. /\ off \in Int /\ integ \in Int32 /\ fine_tune_register \in tsu_adjustment
        /\ steps \in 0 .. MaxSteps /\ status \in TS!States /\ overflowed \in BOOLEAN
    BY DEF LoopType
  <1>2. /\ pc = "idle" /\ pc' = "fine_time_received" /\ diff.seconds = 0
        /\ UNCHANGED <<steps, status>>
    BY DEF FineReport, service
  <1>3. diff.nanosec = off /\ Magnitude(off) < NS_SEC_PERIOD
    BY <1>1, <1>2, FineReportIsOff
  <1>4. /\ Integrate(off)
        /\ fine_tune_register' =
             tsu_clock_fine_tune(fine_tune_register, off, integ', PTP_MAX_ERR_NS)
        /\ off' = off - ClockStep(fine_tune_register')
        /\ error_ns' = off
    BY <1>3 DEF FineReport, tsu_systick_cb
  <1>5. PICK j \in Int32 : /\ j = integ'
                           /\ integ + off \in Int32 => j = integ + off
    BY <1>4, ServoAssumption DEF Integrate
  <1>6. /\ overflowed' \in BOOLEAN
        /\ integ + off \in Int32 => overflowed' = overflowed
    BY <1>1, <1>4, Zenon DEF Integrate
  <1>7. /\ fine_tune_register' \in tsu_adjustment
        /\ ClockStep(fine_tune_register) \in Int /\ ClockStep(fine_tune_register') \in Int
        /\ InDeadZone(off, j, PTP_MAX_ERR_NS)
             => fine_tune_register' = fine_tune_register
        /\ ~InDeadZone(off, j, PTP_MAX_ERR_NS)
           /\ Magnitude(freq_adj(off, j)) < ADJUST_FIELD
             => ClockStep(fine_tune_register') = freq_adj(off, j)
    <2>1. j \in Int
      BY Constants
    <2> QED  BY <1>1, <1>4, <1>5, <2>1, RegisterHolds
  <1>8. LoopType'
    BY <1>1, <1>2, <1>4, <1>5, <1>6, <1>7 DEF LoopType
  <1> QED  BY <1>3, <1>4, <1>5, <1>6, <1>7, <1>8

LEMMA FineKeepsHeld ==
  ASSUME LoopType, LoopState, NEW diff \in Reports, FineReport(diff)
  PROVE  /\ Held(off', integ', ClockStep(fine_tune_register'))
         /\ ~InDeadZone(off, integ', PTP_MAX_ERR_NS)
              => ClockStep(fine_tune_register') = freq_adj(off, integ')
         /\ integ < NS_SEC_PERIOD => integ' < NS_SEC_PERIOD
         /\ overflowed' = overflowed
  <1>1. off \in Int /\ integ \in Int /\ pc = "idle"
    BY Constants DEF LoopType, FineReport
  <1>3. PICK r \in Int : r = ClockStep(fine_tune_register)
    BY FineTunes
  <1>4. Ready(off, integ, r)
    <2>1. CASE status = "TS_FINE"
      BY <1>3, <2>1 DEF LoopState, Ready
    <2>2. CASE status # "TS_FINE"
      <3>1. integ = 0 /\ fine_tune_register = NoAdjustment
        BY <1>1, <2>2 DEF LoopState
      <3> QED  BY <1>3, <3>1 DEF NoAdjustment, ClockStep, Ready
    <2> QED  BY <2>1, <2>2
  <1>2. /\ integ' = integ + off /\ overflowed' = overflowed
        /\ Magnitude(off) < NS_SEC_PERIOD
        /\ off' = off - ClockStep(fine_tune_register')
        /\ InDeadZone(off, integ + off, PTP_MAX_ERR_NS)
             => ClockStep(fine_tune_register') = ClockStep(fine_tune_register)
        /\ ~InDeadZone(off, integ + off, PTP_MAX_ERR_NS)
           /\ Magnitude(freq_adj(off, integ + off)) < ADJUST_FIELD
             => ClockStep(fine_tune_register') = freq_adj(off, integ + off)
    <2>1. integ + off \in Int32
      BY <1>1, <1>4, FineTunes, SumFits
    <2>2. integ' = integ + off
      BY <2>1, FineTunes
    <2> QED  BY <2>1, <2>2, FineTunes
  <1>5. integ < NS_SEC_PERIOD => integ' < NS_SEC_PERIOD
    BY <1>1, <1>2, <1>4, IntegralBelowSecond
  <1>6. CASE InDeadZone(off, integ + off, PTP_MAX_ERR_NS)
    <2>1. Held(off - r, integ + off, r)
      BY <1>1, <1>4, <1>6, HeldInDeadZone
    <2> QED  BY <1>2, <1>3, <1>5, <1>6, <2>1
  <1>7. CASE ~InDeadZone(off, integ + off, PTP_MAX_ERR_NS)
    BY <1>1, <1>2, <1>4, <1>5, <1>7, HeldWhenTuned
  <1> QED  BY <1>6, <1>7

LEMMA FineKeepsInvariant ==
  ASSUME IInv, NEW diff \in Reports, FineReport(diff)
  PROVE  IInv'
  <1>1. pc' = "fine_time_received" /\ UNCHANGED steps
    BY DEF FineReport
  <1>2. LoopType' /\ error_ns' = off
    BY FineTunes DEF IInv
  <1>3. ASSUME steps = 0
        PROVE  /\ Held(off', integ', ClockStep(fine_tune_register'))
               /\ ~InDeadZone(off, integ', PTP_MAX_ERR_NS)
                    => ClockStep(fine_tune_register') = freq_adj(off, integ')
               /\ integ' < NS_SEC_PERIOD /\ ~overflowed'
    BY <1>3, FineKeepsHeld DEF IInv
  <1>4. (steps = 0 => LoopState /\ integ < NS_SEC_PERIOD /\ ~overflowed)'
    BY <1>1, <1>3 DEF LoopState
  <1>5. CorrectionFits'
    BY <1>1, <1>2, <1>3 DEF CorrectionFits
  <1> QED  BY <1>1, <1>2, <1>4, <1>5 DEF IInv

(***************************************************************************)
(* A whole-second report is used before fine status, when the register has *)
(* not been touched yet, and ignored after it.                             *)
(***************************************************************************)
LEMMA CoarseSets ==
  ASSUME LoopType, NEW diff \in Reports, NEW n \in Phases, CoarseReport(diff, n)
  PROVE  /\ LoopType'
         /\ pc = "idle" /\ integ' = 0
         /\ UNCHANGED <<fine_tune_register, pc, steps, overflowed>>
         /\ status = "TS_FINE" => status' = "TS_FINE" /\ off' = off
         /\ status # "TS_FINE" => status' # "TS_FINE"
  <1>1. /\ off \in Int /\ overflowed \in BOOLEAN /\ fine_tune_register \in tsu_adjustment
        /\ steps \in 0 .. MaxSteps /\ status \in TS!States /\ error_ns \in Int
    BY DEF LoopType
  <1>2. /\ pc = "idle" /\ integ' = 0
        /\ UNCHANGED <<fine_tune_register, pc, error_ns, steps, overflowed>>
        /\ off' = IF out'.call = "tsu_set_time" THEN n - out'.nanosec ELSE off
        /\ n - diff.nanosec \in 0 .. NS_SEC_PERIOD - 1
        /\ TS!coarse_time_received(master_sec, n, n - diff.nanosec)
    BY DEF CoarseReport
  <1>3. /\ status = "TS_FINE" => status' = "TS_FINE" /\ out' = TS!Nothing
        /\ status # "TS_FINE" => status' # "TS_FINE"
        /\ status' \in TS!States
        /\ \/ out' = TS!Nothing
           \/ out' = TS!SetTime(master_sec, TS!CoarseNanosec(n, n - diff.nanosec))
    BY <1>1, <1>2 DEF TS!coarse_time_received, TS!UseCoarse, TS!States
  <1>4. out' = TS!Nothing => off' = off
    BY <1>2 DEF TS!Nothing
  <1>5. off' \in Int
    <2>1. CASE out' = TS!Nothing
      BY <1>1, <1>4, <2>1
    <2>2. CASE out' = TS!SetTime(master_sec, TS!CoarseNanosec(n, n - diff.nanosec))
      <3>1. off' = n - TS!CoarseNanosec(n, n - diff.nanosec)
        BY <1>2, <2>2 DEF TS!SetTime
      <3>2. n \in Int /\ n - diff.nanosec \in Int
        BY <1>2, ServoAssumption, Constants
      <3>3. TS!CoarseNanosec(n, n - diff.nanosec) \in Int
        BY <3>2 DEF TS!CoarseNanosec
      <3> QED  BY <3>1, <3>2, <3>3
    <2> QED  BY <1>3, <2>1, <2>2
  <1>6. LoopType'
    <2>1. 0 \in Int32
      BY Constants DEF Int32
    <2> QED  BY <1>1, <1>2, <1>3, <1>5, <2>1 DEF LoopType
  <1> QED  BY <1>2, <1>3, <1>4, <1>6

LEMMA CoarseKeepsLoopState ==
  ASSUME LoopType, LoopState, NEW diff \in Reports, NEW n \in Phases,
         CoarseReport(diff, n)
  PROVE  LoopState'
  <1>1. /\ off \in Int /\ integ \in Int /\ fine_tune_register \in tsu_adjustment
    BY Constants DEF LoopType
  <1>2. /\ pc = "idle" /\ integ' = 0 /\ UNCHANGED <<fine_tune_register, pc>>
        /\ status = "TS_FINE" => status' = "TS_FINE" /\ off' = off
        /\ status # "TS_FINE" => status' # "TS_FINE"
    BY CoarseSets
  <1>3. CASE status = "TS_FINE"
    <2>1. Held(off, integ, ClockStep(fine_tune_register))
      BY <1>3 DEF LoopState
    <2>2. ClockStep(fine_tune_register) \in Int
      BY <1>1, Constants DEF tsu_adjustment, ClockStep
    <2>3. Held(off, 0, ClockStep(fine_tune_register))
      BY <1>1, <2>1, <2>2, HeldWhenRestarted
    <2> QED  BY <1>2, <1>3, <2>3 DEF LoopState
  <1>4. CASE status # "TS_FINE"
    BY <1>2, <1>4 DEF LoopState
  <1> QED  BY <1>3, <1>4

LEMMA CoarseKeepsInvariant ==
  ASSUME IInv, NEW diff \in Reports, NEW n \in Phases, CoarseReport(diff, n)
  PROVE  IInv'
  <1>1. LoopType
    BY DEF IInv
  <1>2. LoopType' /\ pc = "idle" /\ integ' = 0 /\ UNCHANGED <<pc, steps, overflowed>>
    BY <1>1, CoarseSets
  <1>3. ASSUME steps = 0 PROVE LoopState'
    BY <1>1, <1>3, CoarseKeepsLoopState DEF IInv
  <1>4. integ' < NS_SEC_PERIOD
    BY <1>2, Constants
  <1>5. CorrectionFits'
    BY <1>2 DEF CorrectionFits
  <1> QED  BY <1>2, <1>3, <1>4, <1>5 DEF IInv

(***************************************************************************)
(* The two notifications of the time service leave the loop alone.         *)
(***************************************************************************)
LEMMA CallbackKeepsInvariant ==
  ASSUME IInv, Callback
  PROVE  IInv'
  <1>1. CASE NotifyFine
    <2>1. /\ pc = "fine_time_received" /\ pc' = "error_report" /\ status' = "TS_FINE"
          /\ UNCHANGED <<off, integ, fine_tune_register, error_ns, steps, overflowed>>
      BY <1>1 DEF NotifyFine, TS!fine_time_received
    <2> QED  BY <2>1 DEF IInv, LoopType, LoopState, CorrectionFits, TS!States
  <1>2. CASE ReportError
    <2>1. /\ pc = "error_report" /\ pc' = "idle" /\ error_ns' = 0
          /\ UNCHANGED <<off, integ, fine_tune_register, steps, overflowed, status>>
      BY <1>2 DEF ReportError, TS!update_error
    <2> QED  BY <2>1 DEF IInv, LoopType, LoopState, CorrectionFits
  <1> QED  BY <1>1, <1>2 DEF Callback

(***************************************************************************)
(* A step of the master's time ends what the invariant says of the loop.   *)
(***************************************************************************)
LEMMA MasterStepKeepsInvariant ==
  ASSUME IInv, NEW s \in MasterSteps, MasterStep(s)
  PROVE  IInv'
  <1>1. /\ pc = "idle" /\ steps' = steps + 1 /\ off' = off + s * NS_SEC_PERIOD
        /\ UNCHANGED <<integ, fine_tune_register, pc, error_ns, overflowed, status>>
    BY DEF MasterStep, service
  <1>2. steps' \in 0 .. MaxSteps /\ steps' # 0 /\ off' \in Int
    <2>1. s \in Nat
      BY ServoAssumption
    <2>2. s * NS_SEC_PERIOD \in Int
      BY <2>1, Constants
    <2> QED  BY <1>1, <2>2, Constants DEF IInv, LoopType, MasterStep
  <1> QED  BY <1>1, <1>2 DEF IInv, LoopType, LoopState, CorrectionFits

(***************************************************************************)
(* As long as the master's time is not stepped, the loop of                *)
(* ptp_process_time_diff, tsu_clock_fine_tune and tsu_systick_cb holds     *)
(* only corrections that do no harm when they are applied again.           *)
(***************************************************************************)
THEOREM ServoInvariant == Spec => []IInv
  <1>1. Init => IInv
    <2> SUFFICES ASSUME Init PROVE IInv
      OBVIOUS
    <2>1. /\ off \in Int /\ integ = 0 /\ error_ns = 0 /\ pc = "idle" /\ steps = 0
          /\ fine_tune_register = NoAdjustment /\ status = "TS_NEVER"
      BY DEF Init, TS!ServiceInit
    <2>2. /\ NoAdjustment \in tsu_adjustment /\ 0 \in 0 .. MaxSteps
          /\ 0 < NS_SEC_PERIOD /\ 0 \in Int32
      BY Constants DEF NoAdjustment, tsu_adjustment, Int32
    <2>3. ~overflowed /\ overflowed \in BOOLEAN
      BY Zenon DEF Init
    <2> QED  BY <2>1, <2>2, <2>3 DEF IInv, LoopType, LoopState, CorrectionFits, TS!States
  <1>2. IInv /\ [Next]_vars => IInv'
    <2> SUFFICES ASSUME IInv, [Next]_vars PROVE IInv'
      OBVIOUS
    <2>1. CASE Fine
      BY <2>1, FineKeepsInvariant DEF Fine
    <2>2. CASE Coarse
      BY <2>2, CoarseKeepsInvariant DEF Coarse
    <2>3. CASE Callback
      BY <2>3, CallbackKeepsInvariant
    <2>4. CASE \E s \in MasterSteps : MasterStep(s)
      BY <2>4, MasterStepKeepsInvariant
    <2>5. CASE UNCHANGED vars
      <3>1. UNCHANGED <<off, integ, fine_tune_register, pc, error_ns, steps, overflowed,
                        status>>
        BY <2>5 DEF vars, loop, service
      <3> QED  BY <3>1 DEF IInv, LoopType, LoopState, CorrectionFits
    <2> QED  BY <2>1, <2>2, <2>3, <2>4, <2>5 DEF Next
  <1> QED  BY <1>1, <1>2, PTL DEF Spec

(***************************************************************************)
(* From whatever difference it starts, and wherever in the second its      *)
(* reports fall, the loop never drives the clock a second away once it is  *)
(* in fine status, where whole-second reports are ignored.                 *)
(***************************************************************************)
THEOREM LoopNeverDrivesOut == Spec => []NeverDrivenOut
  <1>1. ASSUME IInv PROVE NeverDrivenOut
    <2> SUFFICES ASSUME status = "TS_FINE", steps = 0
                 PROVE  Magnitude(off) < NS_SEC_PERIOD
      BY DEF NeverDrivenOut
    <2>1. Held(off, integ, ClockStep(fine_tune_register))
      BY <1>1 DEF IInv, LoopState
    <2>2. off \in Int /\ integ \in Int /\ ClockStep(fine_tune_register) \in Int
      BY <1>1, Constants DEF IInv, LoopType, tsu_adjustment, ClockStep
    <2> QED  BY <2>1, <2>2, HeldIsClose
  <1> QED  BY <1>1, ServoInvariant, PTL

(***************************************************************************)
(* What tsu_systick_cb writes to the hardware is the correction that       *)
(* tsu_clock_fine_tune computed: it fits the magnitude field.              *)
(***************************************************************************)
THEOREM CorrectionAlwaysFits == Spec => []CorrectionFits
  <1>1. IInv => CorrectionFits
    BY DEF IInv
  <1> QED  BY <1>1, ServoInvariant, PTL

(***************************************************************************)
(* The controller's variables keep their types.                            *)
(***************************************************************************)
THEOREM ServoTypeCorrect == Spec => []TypeOK
  <1>1. IInv => TypeOK
    BY DEF IInv, LoopType, TypeOK
  <1> QED  BY <1>1, ServoInvariant, PTL

(***************************************************************************)
(* As long as the master's time is not stepped, the integral of ptp.c,     *)
(* which nothing limits and only a whole-second report resets, never       *)
(* overflows its int32_t.                                                  *)
(***************************************************************************)
THEOREM IntegralNeverOverflows == Spec => [](steps = 0 => ~overflowed)
  <1>1. IInv => (steps = 0 => ~overflowed)
    BY DEF IInv
  <1> QED  BY <1>1, ServoInvariant, PTL

-----------------------------------------------------------------------------

(***************************************************************************)
(* One step of the master's time.  The register needs a little more room   *)
(* than without it: 1.07 seconds (2^30 ns in the code).                    *)
(***************************************************************************)
RegisterHasRoom == 107 * NS_SEC_PERIOD <= 100 * ADJUST_FIELD

LEMMA StepLeadsToStepped ==
  ASSUME NEW x \in Int, NEW i \in Int, NEW r \in Int, Held(x, i, r),
         i < NS_SEC_PERIOD, NEW z \in Int, z >= NS_SEC_PERIOD,
         z = NS_SEC_PERIOD \/ z >= 2 * NS_SEC_PERIOD
  PROVE  Stepped(x + z, i)
  <1>0. PICK q \in Int : q = Share(i) /\ Divides(q, i)
    BY ShareBounds DEF Divides
  <1>1. Magnitude(x) < NS_SEC_PERIOD /\ Magnitude(i) < 2 * NS_SEC_PERIOD
    BY HeldIsClose
  <1>2. CASE x + z >= NS_SEC_PERIOD
    BY <1>1, <1>2 DEF Stepped
  <1>3. CASE ~(x + z >= NS_SEC_PERIOD)
    <2>1. z = NS_SEC_PERIOD /\ x < 0
      BY <1>1, <1>3, Constants DEF Magnitude
    <2>2. /\ x + NS_SEC_PERIOD >= 30 * PTP_MAX_ERR_NS
          /\ -400 * PTP_MAX_ERR_NS < i
          /\ 20 * x + i <= 40 * PTP_MAX_ERR_NS
      <3>1. CASE Tuned(x, i, r)
        <4>1. x = -q
          BY <1>0, <3>1 DEF Tuned
        <4> QED  BY <1>0, <1>1, <2>1, <4>1, Constants DEF Divides, Magnitude
      <3>2. CASE Coasting(x, i, r)
        <4>1. /\ x + r > -PTP_MAX_ERR_NS /\ r <= 445 * PTP_MAX_ERR_NS
              /\ -400 * PTP_MAX_ERR_NS < i /\ i < 40 * PTP_MAX_ERR_NS
          BY <3>2 DEF Coasting, InDeadZone, Modest
        <4> QED  BY <2>1, <4>1, Constants
      <3>3. CASE Restarted(x, i, r)
        <4>1. i = 0 /\ x + NS_SEC_PERIOD > 30 * PTP_MAX_ERR_NS
          BY <3>3 DEF Restarted
        <4> QED  BY <2>1, <4>1, Constants
      <3> QED  BY <3>1, <3>2, <3>3 DEF Held
    <2> QED  BY <1>1, <2>1, <2>2, Constants DEF Stepped
  <1> QED  BY <1>2, <1>3

(***************************************************************************)
(* The first fine report after the step is outside of the dead zone.       *)
(***************************************************************************)
LEMMA SteppedIsTuned ==
  ASSUME RegisterHasRoom, NEW x \in Int, NEW i \in Int, Stepped(x, i),
         Magnitude(x) < NS_SEC_PERIOD
  PROVE  LET f == freq_adj(x, i + x)
         IN  /\ ~InDeadZone(x, i + x, PTP_MAX_ERR_NS)
             /\ Magnitude(f) < ADJUST_FIELD
             /\ Held(x - f, i + x, f)
  <1>1. PICK j \in Int : j = i + x
    OBVIOUS
  <1>2. PICK p \in Int : p = Share(j) /\ Divides(p, j)
    BY ShareBounds DEF Divides
  <1>3. PICK f \in Int : f = x + p
    OBVIOUS
  <1>4. freq_adj(x, i + x) = f
    BY <1>1, <1>2, <1>3 DEF freq_adj, Share
  <1>5. /\ x >= 30 * PTP_MAX_ERR_NS /\ x < NS_SEC_PERIOD
        /\ -400 * PTP_MAX_ERR_NS < i /\ i < NS_SEC_PERIOD
        /\ 20 * x + i <= 20 * NS_SEC_PERIOD + 40 * PTP_MAX_ERR_NS
    BY Constants DEF Stepped, Magnitude
  <1>6. f >= PTP_MAX_ERR_NS /\ Magnitude(f) < ADJUST_FIELD
    BY <1>1, <1>2, <1>3, <1>5, Constants DEF RegisterHasRoom, Divides, Magnitude
  <1>7. ~InDeadZone(x, i + x, PTP_MAX_ERR_NS)
    BY <1>4, <1>6, Constants DEF InDeadZone, Magnitude
  <1>8. Tuned(x - f, j, f)
    <2>1. x - f = -p
      BY <1>3
    <2>2. Magnitude(j) < 2 * NS_SEC_PERIOD
      BY <1>1, <1>5, Constants DEF Magnitude
    <2>3. ASSUME -400 * PTP_MAX_ERR_NS < j, j < 20 * PTP_MAX_ERR_NS PROVE Modest(f)
      BY <1>1, <1>2, <1>3, <1>5, <2>3, Constants DEF Divides, Modest
    <2> QED  BY <1>2, <2>1, <2>2, <2>3 DEF Tuned
  <1> QED  BY <1>1, <1>4, <1>6, <1>7, <1>8 DEF Held

LEMMA StepIInvNext ==
  ASSUME RegisterHasRoom, IInv, StepIInv, [Next]_vars
  PROVE  StepIInv'
  <1>1. /\ LoopType /\ off \in Int /\ integ \in Int /\ steps \in Nat
        /\ ClockStep(fine_tune_register) \in Int
    BY Constants DEF IInv, LoopType, tsu_adjustment, ClockStep
  <1>2. ASSUME NEW diff \in Reports, FineReport(diff) PROVE StepIInv'
    <2>1. pc' = "fine_time_received" /\ steps' = steps
      BY <1>2 DEF FineReport
    <2>2. ASSUME steps = 1
          PROVE  Held(off', integ', ClockStep(fine_tune_register')) /\ ~overflowed'
      <3>0. ~overflowed
        BY <2>2 DEF StepIInv
      <3>1. CASE LoopState
        BY <1>1, <1>2, <3>0, <3>1, FineKeepsHeld
      <3>2. CASE Stepped(off, integ)
        <4>0. Magnitude(off) < NS_SEC_PERIOD
          BY <1>1, <1>2, FineTunes
        <4>2. integ + off \in Int32
          <5>1. PICK f \in Int : f = freq_adj(off, integ + off)
            BY <1>1, ShareBounds DEF freq_adj, Share, Divides
          <5>2. Held(off - f, integ + off, f)
            BY <1>1, <3>2, <4>0, <5>1, SteppedIsTuned
          <5> QED  BY <1>1, <5>1, <5>2, HeldFits
        <4>3. integ' = integ + off /\ overflowed' = overflowed
          BY <1>1, <1>2, <4>2, FineTunes
        <4>1. /\ off' = off - ClockStep(fine_tune_register')
              /\ ~InDeadZone(off, integ + off, PTP_MAX_ERR_NS)
                 /\ Magnitude(freq_adj(off, integ + off)) < ADJUST_FIELD
                   => ClockStep(fine_tune_register') = freq_adj(off, integ + off)
          BY <1>1, <1>2, <4>3, FineTunes
        <4> QED  BY <1>1, <3>0, <3>2, <4>0, <4>1, <4>3, SteppedIsTuned
      <3> QED  BY <2>2, <3>1, <3>2 DEF StepIInv
    <2> QED  BY <2>1, <2>2 DEF StepIInv, LoopState
  <1>3. ASSUME NEW diff \in Reports, NEW n \in Phases, CoarseReport(diff, n)
        PROVE  StepIInv'
    <2>1. /\ pc = "idle" /\ integ' = 0 /\ UNCHANGED <<pc, steps, overflowed>>
          /\ status = "TS_FINE" => status' = "TS_FINE" /\ off' = off
      BY <1>1, <1>3, CoarseSets
    <2>2. CASE LoopState
      BY <1>1, <1>3, <2>1, <2>2, CoarseKeepsLoopState DEF StepIInv
    <2>3. CASE status = "TS_FINE" /\ Stepped(off, integ)
      <3>1. Stepped(off, 0)
        BY <1>1, <2>3, Constants DEF Stepped, Magnitude
      <3> QED  BY <2>1, <2>3, <3>1 DEF StepIInv
    <2> QED  BY <2>1, <2>2, <2>3 DEF StepIInv
  <1>4. CASE Callback
    <2>1. /\ pc # "idle" /\ status' = "TS_FINE"
          /\ UNCHANGED <<off, integ, fine_tune_register, steps, overflowed>>
      BY <1>4 DEF IInv, Callback, NotifyFine, ReportError, TS!fine_time_received,
                  TS!update_error
    <2> QED  BY <2>1 DEF StepIInv, LoopState
  <1>5. ASSUME NEW s \in MasterSteps, MasterStep(s) PROVE StepIInv'
    <2>1. /\ pc = "idle" /\ steps' = steps + 1 /\ off' = off + s * NS_SEC_PERIOD
          /\ UNCHANGED <<integ, fine_tune_register, pc, status, overflowed>>
      BY <1>5 DEF MasterStep, service
    <2> SUFFICES ASSUME steps' = 1
                 PROVE  /\ ~overflowed
                        /\ LoopState' \/ (status = "TS_FINE" /\ Stepped(off', integ))
      BY <2>1 DEF StepIInv
    <2>2. LoopState /\ integ < NS_SEC_PERIOD
      BY <1>1, <2>1 DEF IInv
    <2>5. ~overflowed
      BY <1>1, <2>1 DEF IInv
    <2>3. CASE status # "TS_FINE"
      BY <2>1, <2>2, <2>3, <2>5 DEF LoopState
    <2>4. CASE status = "TS_FINE"
      <3>1. s \in Nat
        BY ServoAssumption
      <3>2. Held(off, integ, ClockStep(fine_tune_register))
        BY <2>2, <2>4 DEF LoopState
      <3>3. CASE s = 0
        <4>1. off' = off
          BY <1>1, <2>1, <3>3, Constants
        <4> QED  BY <2>1, <2>4, <2>5, <3>2, <4>1 DEF LoopState
      <3>4. CASE s # 0
        <4>1. PICK z \in Int : /\ z = s * NS_SEC_PERIOD /\ z >= NS_SEC_PERIOD
                               /\ z = NS_SEC_PERIOD \/ z >= 2 * NS_SEC_PERIOD
          <5>1. CASE s = 1
            BY <5>1, Constants
          <5>2. CASE s >= 2
            <6>1. s * NS_SEC_PERIOD \in Int /\ s * NS_SEC_PERIOD >= 2 * NS_SEC_PERIOD
              BY <3>1, <5>2, Constants
            <6> QED  BY <6>1, Constants
          <5> QED  BY <3>1, <3>4, <5>1, <5>2
        <4>2. Stepped(off + z, integ)
          BY <1>1, <2>2, <3>2, <4>1, StepLeadsToStepped
        <4> QED  BY <2>1, <2>4, <2>5, <4>1, <4>2
      <3> QED  BY <3>3, <3>4
    <2> QED  BY <2>3, <2>4, <2>5
  <1>6. CASE UNCHANGED vars
    <2>1. UNCHANGED <<off, integ, fine_tune_register, pc, steps, overflowed, status>>
      BY <1>6 DEF vars, loop, service
    <2> QED  BY <2>1 DEF StepIInv, LoopState
  <1> QED  BY <1>2, <1>3, <1>4, <1>5, <1>6 DEF Next, Fine, Coarse

(***************************************************************************)
(* Even when the master's time is stepped once, by any number of seconds   *)
(* and at any time, the integral of ptp.c does not overflow its int32_t;   *)
(* it may from the second step on.                                         *)
(***************************************************************************)
THEOREM OneStepIsSafe == RegisterHasRoom => (Spec => []IntegralSurvivesAStep)
  <1> SUFFICES ASSUME RegisterHasRoom PROVE Spec => []IntegralSurvivesAStep
    OBVIOUS
  <1>1. Init => StepIInv
    BY DEF Init, StepIInv
  <1>2. IInv /\ StepIInv /\ [Next]_vars => StepIInv'
    BY StepIInvNext
  <1>3. IInv /\ StepIInv => IntegralSurvivesAStep
    <2> SUFFICES ASSUME IInv, StepIInv, overflowed PROVE steps >= 2
      BY DEF IntegralSurvivesAStep
    <2>1. steps \in Nat /\ steps # 0 /\ steps # 1
      BY Constants DEF IInv, LoopType, StepIInv
    <2> QED  BY <2>1
  <1> QED  BY <1>1, <1>2, <1>3, ServoInvariant, PTL DEF Spec

=============================================================================
