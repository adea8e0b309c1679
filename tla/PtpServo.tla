------------------------------ MODULE PtpServo ------------------------------
(***************************************************************************)
(* The control loop: each report of the interpreter reaches                *)
(* ptp_process_time_diff, which hands a whole-second difference to the     *)
(* time service as a coarse time and feeds any other to the controller,    *)
(* the adjustment register and the clock.                                  *)
(*                                                                         *)
(* Time is counted in exchanges.  off is the difference, in nanoseconds,   *)
(* that the next report will find between the synced time and the local    *)
(* clock.  The code gets it as seconds and nanoseconds subtracted field by *)
(* field, so the same difference is reported with or without a second in   *)
(* it, depending on where in the second the exchange falls.                *)
(***************************************************************************)
EXTENDS TsuAdjust, PtpTime

CONSTANTS PTP_MAX_ERR_NS, RESYNC_COARSE_TIME, INT32_MAX,
          OverflowResults,  \* what an int32_t may hold after an overflow
          MaxStartSeconds,  \* bound on the initial difference, in seconds
          Phases,           \* nanoseconds of the synced times of coarse reports
          MasterSteps,      \* seconds by which the master's time may be stepped
          MaxSteps          \* bound on the number of such steps

Int32 == -(INT32_MAX + 1) .. INT32_MAX

ASSUME ServoAssumption ==
  /\ PTP_MAX_ERR_NS \in Nat \ {0} /\ RESYNC_COARSE_TIME \in Nat
  /\ INT32_MAX \in Nat /\ 2 * NS_SEC_PERIOD <= INT32_MAX
  /\ OverflowResults \subseteq Int32 /\ OverflowResults # {}
  /\ MaxStartSeconds \in Nat
  /\ Phases \subseteq 0 .. NS_SEC_PERIOD - 1
  /\ MasterSteps \subseteq Nat /\ MaxSteps \in Nat

(***************************************************************************)
(* The dead zone is small beside a second (500 ns in the code), and the    *)
(* register holds the largest correction of a difference below a second,   *)
(* which is that difference and a twentieth of it.                         *)
(***************************************************************************)
ASSUME LoopAssumption ==
  /\ 500 * PTP_MAX_ERR_NS <= NS_SEC_PERIOD
  /\ 21 * NS_SEC_PERIOD <= INTEGRAL_DIVISOR * ADJUST_FIELD

VARIABLES off,
          integ,              \* sync_diff_integrated_ns of ptp.c
          fine_tune_register, \* the register image of tsu_time.c
          pc, error_ns,       \* progress of ptp_process_time_diff, its diff_ts
          master_sec,         \* the master's second, in a frame moving with it
          steps,              \* steps of the master's time so far
          overflowed,         \* history: the integral has overflowed its int
          status, coarse_service_ok, receive_counter,
          last_coarse_time_value, last_coarse_time_stamp, last_pps_time_stamp,
          sync_diff_integrated_ns, status_prev, out

service == <<status, coarse_service_ok, receive_counter, last_coarse_time_value,
             last_coarse_time_stamp, last_pps_time_stamp, sync_diff_integrated_ns,
             status_prev, out>>
loop == <<off, integ, fine_tune_register, pc, error_ns>>
vars == <<loop, master_sec, steps, overflowed, service>>

(***************************************************************************)
(* The time service.  The uptime serves only the pulse-per-second code,    *)
(* which the PTP sources never call.                                       *)
(***************************************************************************)
TS == INSTANCE TimeSync
        WITH UINT32 <- 1, PPS_PERIOD_LOW <- 950, PPS_PERIOD_HIGH <- 1050,
             PPS_LATENCY_CORRECTION_NS <- 1200, COARSE_TIME_AGE_MAX <- 1000,
             SYNC_DIFF_BOUNDARY_NS <- 10000, PPS_CORRECTION_BOUNDARY <- 50,
             CoarseTimes <- {}, Errors <- {}, MaxUptime <- 0,
             uptime <- 0, coarse_at <- 0

Init ==
  /\ off \in -(NS_SEC_PERIOD - 1) .. MaxStartSeconds * NS_SEC_PERIOD
  /\ integ = 0
  /\ fine_tune_register = NoAdjustment
  /\ pc = "idle" /\ error_ns = 0
  /\ master_sec = MaxStartSeconds + 1 /\ steps = 0 /\ overflowed = FALSE
  /\ TS!ServiceInit

-----------------------------------------------------------------------------

(***************************************************************************)
(* The ways ptp_time_sub may report the difference.                        *)
(***************************************************************************)
Reports ==
  LET whole == off \div NS_SEC_PERIOD
      rest == off % NS_SEC_PERIOD
  IN  {Time(whole, rest)} \cup
      (IF rest = 0 THEN {} ELSE {Time(whole + 1, rest - NS_SEC_PERIOD)})

(***************************************************************************)
(* A difference with a second in it.  n is the nanosec field of the synced *)
(* time, so that n - diff.nanosec is that of the local clock.              *)
(***************************************************************************)
CoarseReport(diff, n) ==
  /\ pc = "idle"
  /\ diff.seconds # 0
  /\ n - diff.nanosec \in 0 .. NS_SEC_PERIOD - 1
  /\ TS!coarse_time_received(master_sec, n, n - diff.nanosec)
  /\ integ' = 0
  /\ off' = IF out'.call = "tsu_set_time" THEN n - out'.nanosec ELSE off
  /\ UNCHANGED <<fine_tune_register, pc, error_ns, master_sec, steps, overflowed>>

\* Mutant: the correction is applied with the wrong sign.
StepBackwards(reg) == -ClockStep(reg)

(***************************************************************************)
(* tsu_systick_cb writes the register image to the hardware.               *)
(***************************************************************************)
tsu_systick_cb(reg) == ClockStep(reg)

\* Mutant: the integral is kept in a wider type than tsu_clock_fine_tune takes.
IntegrateWide(nanosec) ==
  /\ integ' = integ + nanosec
  /\ UNCHANGED overflowed

(***************************************************************************)
(* sync_diff_integrated_ns += diff_ts->nanosec, with nothing to limit it.  *)
(* The overflow of a signed int is undefined, and may leave any value.     *)
(***************************************************************************)
Integrate(nanosec) ==
  LET sum == integ + nanosec
  IN  /\ integ' \in IF sum \in Int32 THEN {sum} ELSE OverflowResults
      /\ overflowed' = (overflowed \/ sum \notin Int32)

(***************************************************************************)
(* Any other difference: integrate, tune, and apply the register once; the *)
(* two notifications of the time service follow in their own steps.        *)
(***************************************************************************)
FineReport(diff) ==
  /\ pc = "idle"
  /\ diff.seconds = 0
  /\ Integrate(diff.nanosec)
  /\ fine_tune_register' =
       tsu_clock_fine_tune(fine_tune_register, diff.nanosec, integ', PTP_MAX_ERR_NS)
  /\ off' = off - tsu_systick_cb(fine_tune_register')
  /\ error_ns' = diff.nanosec
  /\ pc' = "fine_time_received"
  /\ UNCHANGED <<master_sec, steps, service>>

NotifyFine ==
  /\ pc = "fine_time_received"
  /\ TS!fine_time_received(0, 0)
  /\ pc' = "error_report"
  /\ UNCHANGED <<off, integ, fine_tune_register, error_ns, master_sec, steps, overflowed>>

ReportError ==
  /\ pc = "error_report"
  /\ TS!update_error(integ)
  /\ pc' = "idle"
  /\ error_ns' = 0
  /\ UNCHANGED <<off, integ, fine_tune_register, master_sec, steps, overflowed>>

(***************************************************************************)
(* The master's time is stepped by s seconds (environment).                *)
(***************************************************************************)
MasterStep(s) ==
  /\ pc = "idle" /\ steps < MaxSteps
  /\ steps' = steps + 1
  /\ off' = off + s * NS_SEC_PERIOD
  /\ master_sec' = master_sec + s
  /\ UNCHANGED <<integ, fine_tune_register, pc, error_ns, overflowed, service>>

Fine == \E diff \in Reports : FineReport(diff)
Coarse == \E diff \in Reports, n \in Phases : CoarseReport(diff, n)
Callback == NotifyFine \/ ReportError

Next == Fine \/ Coarse \/ Callback \/ \E s \in MasterSteps : MasterStep(s)

Spec == Init /\ [][Next]_vars

(***************************************************************************)
(* The handler runs to its end, exchanges go on, and they do not all fall  *)
(* across the boundary of a second when the difference is less than one.   *)
(***************************************************************************)
Fairness == WF_vars(Callback) /\ WF_vars(Coarse) /\ SF_vars(Fine)

FairSpec == Spec /\ Fairness

-----------------------------------------------------------------------------

(***************************************************************************)
(* The controller's state has the types of its C variables.                *)
(***************************************************************************)
TypeOK ==
  /\ off \in Int
  /\ integ \in Int32 /\ overflowed \in BOOLEAN
  /\ fine_tune_register \in tsu_adjustment
  /\ pc \in {"idle", "fine_time_received", "error_report"}
  /\ status \in TS!States

(***************************************************************************)
(* Starting from any difference, and with no step of the master's time,    *)
(* the loop itself never drives the local clock a second or more away once *)
(* it has entered fine status.  It must not: in fine status a whole-second *)
(* difference is reported as a coarse time, which is then ignored.         *)
(***************************************************************************)
NeverDrivenOut ==
  status = "TS_FINE" /\ steps = 0 => Magnitude(off) < NS_SEC_PERIOD

(***************************************************************************)
(* Without a step of the master's time the correction always fits the      *)
(* 30-bit field of the register: what the hardware is told is exactly the  *)
(* correction that tsu_clock_fine_tune computed.                           *)
(***************************************************************************)
CorrectionFits ==
  /\ pc = "fine_time_received" /\ steps = 0
  /\ ~InDeadZone(error_ns, integ, PTP_MAX_ERR_NS)
  => ClockStep(fine_tune_register) = freq_adj(error_ns, integ)

(***************************************************************************)
(* Nothing limits the integral of ptp_process_time_diff, and a fine report *)
(* after a step of the master's time is off by nearly a second.  Still one *)
(* such step, at any moment, cannot overflow it: the controller has turned *)
(* the clock round before the integral is wound up.  From the second step  *)
(* on it may overflow, and the model then goes on with any value.          *)
(***************************************************************************)
IntegralSurvivesAStep == overflowed => steps >= 2

(***************************************************************************)
(* From every start the slave ends up in fine status, and stays there.     *)
(***************************************************************************)
EventuallyFine == <>[](status = "TS_FINE")

(***************************************************************************)
(* What the comment on RESYNC_COARSE_TIME says: coarse times are set every *)
(* so often while there is no fine time, so that a difference of a second  *)
(* or more does not last.                                                  *)
(***************************************************************************)
CoarseErrorIsCorrected ==
  (Magnitude(off) >= NS_SEC_PERIOD) ~> (Magnitude(off) < NS_SEC_PERIOD)

=============================================================================
