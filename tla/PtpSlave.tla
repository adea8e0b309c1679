------------------------------ MODULE PtpSlave ------------------------------
(***************************************************************************)
(* A whole slave on a network: a master that sends Sync and Follow_Up and  *)
(* answers Delay_Req, a network that loses, duplicates, reorders and       *)
(* delays messages by up to MaxDelay, and the slave's message interpreter  *)
(* (PtpSync), report handling (ptp.c), controller (TsuAdjust) and time     *)
(* service (TimeSync), with both clocks running.  The module extends that  *)
(* of the interpreter; what it adds to its initial state, its steps and    *)
(* its specification bears the name of the slave.                          *)
(*                                                                         *)
(* Time passes in nanosecond ticks between the runs of the main loop, not  *)
(* within one: MaxDelay covers the time a message waits to be handled.     *)
(***************************************************************************)
EXTENDS PtpSync, TsuAdjust, FiniteSets

CONSTANTS PTP_MAX_ERR_NS, RESYNC_COARSE_TIME,
          MaxDelay,         \* longest a message is under way, in ticks
          MaxTime,          \* bound on the master's time
          MaxClock,         \* bound on the slave's time
          MaxInFlight,      \* bound on the messages under way
          MaxRounds,        \* bound on the Sync messages sent
          MaxDups           \* bound on the deliveries of a message after its first

ASSUME SlaveAssumption ==
  /\ MaxDelay \in Nat /\ MaxTime \in Nat /\ MaxClock \in Nat
  /\ MaxInFlight \in Nat \ {0} /\ MaxDups \in Nat /\ MaxRounds \in Nat
  /\ PTP_MAX_ERR_NS \in Nat \ {0} /\ RESYNC_COARSE_TIME \in Nat
  /\ MaxTime + NS_SEC_PERIOD <= MaxClock
  /\ \A t \in 0 .. MaxClock : t \div NS_SEC_PERIOD \in Seconds

VARIABLES now,              \* the master's time, in ticks
          clock,            \* the slave's time, in ticks
          net,              \* messages under way
          rounds, dups,     \* Sync messages sent, extra deliveries made so far
          pc, integ, fine_tune_register,      \* report handling
          status, coarse_service_ok, receive_counter,         \* TimeSync
          last_coarse_time_value, last_coarse_time_stamp, last_pps_time_stamp,
          sync_diff_integrated_ns, status_prev, service_out

interpreter == <<registered, mode, t1, t2, t3, t4, out>>
service == <<status, coarse_service_ok, receive_counter, last_coarse_time_value,
             last_coarse_time_stamp, last_pps_time_stamp, sync_diff_integrated_ns,
             status_prev, service_out>>
control == <<pc, integ, fine_tune_register>>
slave_vars == <<now, clock, net, rounds, dups, control, interpreter, service>>

TS == INSTANCE TimeSync
        WITH UINT32 <- 1, PPS_PERIOD_LOW <- 950, PPS_PERIOD_HIGH <- 1050,
             PPS_LATENCY_CORRECTION_NS <- 1200, COARSE_TIME_AGE_MAX <- 1000,
             SYNC_DIFF_BOUNDARY_NS <- 10000, PPS_CORRECTION_BOUNDARY <- 50,
             CoarseTimes <- {}, Errors <- {}, MaxUptime <- 0,
             uptime <- 0, coarse_at <- 0, out <- service_out

Ticks(ts) == ts.seconds * NS_SEC_PERIOD + ts.nanosec

FromTicks(t) == Time(t \div NS_SEC_PERIOD, t % NS_SEC_PERIOD)

Message(type, ts) == [type |-> type, ts |-> ts, sent |-> now]

Stamp(t) == ptp_prepare_timestamp(FromTicks(t))

(***************************************************************************)
(* init_tsu has cleared the slave's clock and init_ptp_task has registered *)
(* the callbacks; the master has been running for some time.               *)
(***************************************************************************)
SlaveInit ==
  /\ now \in NS_SEC_PERIOD .. MaxTime
  /\ clock = 0
  /\ net = {} /\ rounds = 0 /\ dups = 0
  /\ pc = "idle" /\ integ = 0 /\ fine_tune_register = NoAdjustment
  /\ registered = Callbacks /\ mode = "running"
  /\ t1 = TimeZero /\ t2 = TimeZero /\ t3 = TimeZero /\ t4 = TimeZero
  /\ out = Silent(0)
  /\ TS!ServiceInit

-----------------------------------------------------------------------------

(***************************************************************************)
(* Both clocks advance; a message past its longest delay is gone.          *)
(***************************************************************************)
Tick ==
  /\ pc = "idle" /\ now < MaxTime /\ clock < MaxClock
  /\ now' = now + 1 /\ clock' = clock + 1
  /\ net' = {m \in net : now' <= m.sent + MaxDelay}
  /\ UNCHANGED <<rounds, dups, control, interpreter, service>>

(***************************************************************************)
(* The network after m is delivered and the messages of reply are sent.    *)
(* The delivered message may stay, to be delivered once more.              *)
(***************************************************************************)
Deliver(m, reply) ==
  /\ \/ /\ net' = (net \ {m}) \cup reply
        /\ UNCHANGED dups
     \/ /\ dups < MaxDups
        /\ dups' = dups + 1
        /\ net' = net \cup reply
  /\ Cardinality(net') <= MaxInFlight

MasterSync ==
  /\ pc = "idle" /\ rounds < MaxRounds
  /\ rounds' = rounds + 1
  /\ net' = net \cup {Message("Sync", Stamp(0)), Message("Follow_Up", Stamp(now))}
  /\ Cardinality(net') <= MaxInFlight
  /\ UNCHANGED <<now, clock, dups, control, interpreter, service>>

(***************************************************************************)
(* The master stamps the reception of a Delay_Req and answers at once.     *)
(***************************************************************************)
MasterDelayResp ==
  /\ pc = "idle"
  /\ \E m \in net : /\ m.type = "Delay_Req"
                    /\ Deliver(m, {Message("Delay_Resp", Stamp(now))})
  /\ UNCHANGED <<now, clock, rounds, control, interpreter, service>>

Lose ==
  /\ pc = "idle"
  /\ \E m \in net : net' = net \ {m}
  /\ UNCHANGED <<now, clock, rounds, dups, control, interpreter, service>>

-----------------------------------------------------------------------------

HandleSync ==
  /\ pc = "idle"
  /\ \E m \in net : /\ m.type = "Sync"
                    /\ SyncMsg(FromTicks(clock))
                    /\ Deliver(m, {})
  /\ UNCHANGED <<now, clock, rounds, control, service>>

HandleFollowUp ==
  /\ pc = "idle"
  /\ \E m \in net :
       /\ m.type = "Follow_Up"
       /\ FollowUpMsg(m.ts, FromTicks(clock))
       /\ Deliver(m, {Message("Delay_Req", out'.origin_ts)})
  /\ UNCHANGED <<now, clock, rounds, control, service>>

HandleDelayResp ==
  /\ pc = "idle"
  /\ \E m \in net : /\ m.type = "Delay_Resp"
                    /\ DelayResponse(m.ts, FromTicks(clock))
                    /\ Deliver(m, {})
  /\ pc' = "report"
  /\ UNCHANGED <<now, clock, rounds, integ, fine_tune_register, service>>

(***************************************************************************)
(* ptp_process_time_diff on the report just made, in one branch ...        *)
(***************************************************************************)
ProcessCoarse ==
  /\ pc = "report" /\ out.diff.seconds # 0
  /\ TS!coarse_time_received(out.synced.seconds, out.synced.nanosec,
                             clock % NS_SEC_PERIOD)
  /\ clock' = IF service_out'.call = "tsu_set_time" THEN Ticks(service_out') ELSE clock
  /\ integ' = 0
  /\ pc' = "idle"
  /\ UNCHANGED <<now, net, rounds, dups, fine_tune_register, interpreter>>

(***************************************************************************)
(* ... and in the other; a correction never takes the clock below zero     *)
(* here, where the hardware's second counter would wrap.                   *)
(***************************************************************************)
ProcessFine ==
  /\ pc = "report" /\ out.diff.seconds = 0
  /\ integ' = integ + out.diff.nanosec
  /\ fine_tune_register' = tsu_clock_fine_tune(fine_tune_register,
                             out.diff.nanosec, integ', PTP_MAX_ERR_NS)
  /\ clock + ClockStep(fine_tune_register') \in 0 .. MaxClock
  /\ clock' = clock + ClockStep(fine_tune_register')
  /\ pc' = "fine_time_received"
  /\ UNCHANGED <<now, net, rounds, dups, interpreter, service>>

NotifyFine ==
  /\ pc = "fine_time_received"
  /\ TS!fine_time_received(0, 0)
  /\ pc' = "error_report"
  /\ UNCHANGED <<now, clock, net, rounds, dups, integ, fine_tune_register, interpreter>>

ReportError ==
  /\ pc = "error_report"
  /\ TS!update_error(integ)
  /\ pc' = "idle"
  /\ UNCHANGED <<now, clock, net, rounds, dups, integ, fine_tune_register, interpreter>>

SlaveNext ==
  \/ Tick \/ Lose
  \/ MasterSync \/ MasterDelayResp
  \/ HandleSync \/ HandleFollowUp \/ HandleDelayResp
  \/ ProcessCoarse \/ ProcessFine \/ NotifyFine \/ ReportError

SlaveSpec == SlaveInit /\ [][SlaveNext]_slave_vars

-----------------------------------------------------------------------------

(***************************************************************************)
(* The integral that ptp_process_time_diff sums up without a limit never   *)
(* leaves its int32_t: on this network every report leads the clock back   *)
(* before the errors add up to two seconds, and a coarse time starts them  *)
(* again from zero, although every report is late by an unknown delay.     *)
(***************************************************************************)
IntegralFits == integ \in Int32

(***************************************************************************)
(* Lost, repeated, late and mispaired messages notwithstanding, a reported *)
(* time is the master's time of at most MaxDelay ago (and one nanosecond   *)
(* of rounding): never more than a nanosecond ahead of the master, and     *)
(* never older than the one Delay_Resp it was made from.                   *)
(***************************************************************************)
ReportIsRecent ==
  pc = "report" => now - Ticks(out.synced) \in -1 .. MaxDelay + 1

(***************************************************************************)
(* The slave implements SlaveClock.  A coarse time sets the clock to the   *)
(* master's recent time, except that coarse_time_received takes zero       *)
(* nanoseconds for "none given".  Once it is in fine status nothing but    *)
(* small corrections moves its clock, although two clocks a few            *)
(* nanoseconds apart make a report with a second in it whenever a second   *)
(* begins between the two readings; and every correction, whatever mixture *)
(* of messages it was computed from, leads to a recent time of the master, *)
(* up to the share of the integral, or follows a report of one that is     *)
(* that and the dead zone away at most.                                    *)
(***************************************************************************)
Clock == INSTANCE SlaveClock
           WITH Second <- NS_SEC_PERIOD, Lag <- MaxDelay,
                Slack <- NS_SEC_PERIOD \div 10 + PTP_MAX_ERR_NS - 1,
                Starts <- NS_SEC_PERIOD .. MaxTime, locked <- (status = "TS_FINE")

ImplementsSlaveClock == Clock!Spec

=============================================================================
