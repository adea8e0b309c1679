------------------------------ MODULE TimeSync ------------------------------
(***************************************************************************)
(* The time service of timesync.c: its status, the callbacks it hands to a *)
(* time source in init_param, and the corrections they make to the clock.  *)
(*                                                                         *)
(* The clock itself is the environment's: a handler that reads it is given *)
(* what tsu_get_time returned, and what it writes with tsu_set_time or     *)
(* tunes with tsu_clock_fine_tune is left in out.  The millisecond uptime  *)
(* is unbounded here; the code sees it modulo 2^32 (UINT32) and takes the  *)
(* difference of two stamps as a signed number.                            *)
(***************************************************************************)
EXTENDS TsuAdjust

CONSTANTS NS_SEC_PERIOD, UINT32,
          RESYNC_COARSE_TIME, PPS_PERIOD_LOW, PPS_PERIOD_HIGH,
          PPS_LATENCY_CORRECTION_NS, COARSE_TIME_AGE_MAX,
          SYNC_DIFF_BOUNDARY_NS, PPS_CORRECTION_BOUNDARY,
          CoarseTimes,      \* second values a time source may report
          Errors,           \* magnitudes of the average errors it may report
          MaxUptime         \* bound on the uptime

ASSUME TimeSyncAssumption ==
  /\ NS_SEC_PERIOD \in Nat \ {0} /\ UINT32 \in Nat \ {0}
  /\ RESYNC_COARSE_TIME \in Nat
  /\ PPS_PERIOD_LOW \in Nat /\ PPS_PERIOD_HIGH \in Nat
  /\ PPS_LATENCY_CORRECTION_NS \in Nat /\ COARSE_TIME_AGE_MAX \in Nat
  /\ SYNC_DIFF_BOUNDARY_NS \in Nat /\ PPS_CORRECTION_BOUNDARY \in Nat
  /\ CoarseTimes \subseteq Nat /\ Errors \subseteq Nat /\ MaxUptime \in Nat

VARIABLES status, coarse_service_ok, receive_counter,
          last_coarse_time_value, last_coarse_time_stamp, last_pps_time_stamp,
          sync_diff_integrated_ns, status_prev,
          uptime,           \* milliseconds since start, never wrapping
          out,              \* what the last handler did to the clock
          coarse_at         \* history: uptime of the last coarse time, if any

stamps == <<last_coarse_time_value, last_coarse_time_stamp, last_pps_time_stamp>>
vars == <<status, coarse_service_ok, receive_counter, stamps,
          sync_diff_integrated_ns, status_prev, uptime, out, coarse_at>>

States == {"TS_NEVER", "TS_COARSE", "TS_FINE", "TS_LOST"}

Nothing == [call |-> "none"]
SetTime(s, n) == [call |-> "tsu_set_time", seconds |-> s, nanosec |-> n]
FineTune(error_ns, integrated, boundary) ==
  [call |-> "tsu_clock_fine_tune", error_ns |-> error_ns,
   integrated |-> integrated, boundary |-> boundary]

ServiceInit ==
  /\ status = "TS_NEVER" /\ status_prev = "TS_NEVER"
  /\ coarse_service_ok = FALSE
  /\ receive_counter = 0
  /\ last_coarse_time_value = 0 /\ last_coarse_time_stamp = 0
  /\ last_pps_time_stamp = 0
  /\ sync_diff_integrated_ns = 0
  /\ out = Nothing

(***************************************************************************)
(* The stamp of the last coarse time is zero, although none was received.  *)
(***************************************************************************)
Never == -1

Init == ServiceInit /\ uptime = 0 /\ coarse_at = Never

-----------------------------------------------------------------------------

tsu_get_uptime_ms == uptime % UINT32

(***************************************************************************)
(* (int)(current_stamp - stamp): the distance modulo 2^32, as a signed int *)
(***************************************************************************)
Age(stamp) ==
  LET d == (tsu_get_uptime_ms - stamp) % UINT32
  IN  IF 2 * d >= UINT32 THEN d - UINT32 ELSE d

\* Mutant: the counter is compared before it is incremented.
UseCoarseLate ==
  \/ status \in {"TS_NEVER", "TS_LOST"}
  \/ status = "TS_COARSE" /\ receive_counter > RESYNC_COARSE_TIME

\* Mutant: the first coarse time ever is not used.
UseCoarseNotFirst ==
  \/ status = "TS_LOST"
  \/ status = "TS_COARSE" /\ receive_counter + 1 > RESYNC_COARSE_TIME

\* Mutant: a coarse time is used in fine status too.
UseCoarseInFine ==
  \/ status \in {"TS_NEVER", "TS_LOST", "TS_FINE"}
  \/ status = "TS_COARSE" /\ receive_counter + 1 > RESYNC_COARSE_TIME

(***************************************************************************)
(* A coarse time is used when there was none before, or when it is the one *)
(* that makes the pre-incremented counter exceed the limit.                *)
(***************************************************************************)
UseCoarse ==
  \/ status \in {"TS_NEVER", "TS_LOST"}
  \/ status = "TS_COARSE" /\ receive_counter + 1 > RESYNC_COARSE_TIME

(***************************************************************************)
(* The clock's own nanoseconds are kept ("keep the msec") when the source  *)
(* reports none.                                                           *)
(***************************************************************************)
CoarseNanosec(nanoseconds, clock_ns) ==
  IF nanoseconds > 0 THEN nanoseconds ELSE clock_ns

(***************************************************************************)
(* clock_ns is what tsu_get_time would return.                             *)
(***************************************************************************)
coarse_time_received(timestamp, nanoseconds, clock_ns) ==
  /\ coarse_service_ok' = TRUE
  /\ last_coarse_time_value' = timestamp
  /\ last_coarse_time_stamp' = tsu_get_uptime_ms
  /\ coarse_at' = uptime
  /\ IF UseCoarse
       THEN /\ out' = IF timestamp > 0
                        THEN SetTime(timestamp, CoarseNanosec(nanoseconds, clock_ns))
                        ELSE Nothing
            /\ receive_counter' = 0
            /\ status' = IF status # "TS_FINE" THEN "TS_COARSE" ELSE status
       ELSE /\ out' = Nothing
            /\ receive_counter' = IF status = "TS_COARSE" THEN receive_counter + 1
                                                          ELSE receive_counter
            /\ UNCHANGED status
  /\ UNCHANGED <<last_pps_time_stamp, sync_diff_integrated_ns, status_prev, uptime>>

fine_time_received(timestamp, nanoseconds) ==
  /\ out' = IF timestamp > 0 THEN SetTime(timestamp, nanoseconds) ELSE Nothing
  /\ status' = "TS_FINE"
  /\ UNCHANGED <<coarse_service_ok, receive_counter, stamps,
                 sync_diff_integrated_ns, status_prev, uptime, coarse_at>>

(***************************************************************************)
(* The distance of the clock's nanoseconds from where a pulse should find  *)
(* them, folded into plus or minus half a second.                          *)
(***************************************************************************)
PpsError(clock_ns) ==
  LET d == clock_ns - PPS_LATENCY_CORRECTION_NS
  IN  IF d > NS_SEC_PERIOD \div 2 THEN d - NS_SEC_PERIOD ELSE d

PpsOutOfBounds(clock_ns) ==
  Magnitude(PpsError(clock_ns)) > SYNC_DIFF_BOUNDARY_NS

\* Mutant: the age of the coarse time is taken without a limit.
CoarseAlwaysFresh == TRUE

CoarseFresh == Age(last_coarse_time_stamp) < COARSE_TIME_AGE_MAX

(***************************************************************************)
(* A pulse in fine status: a large error sets the clock to the second that *)
(* follows the last coarse time, if that is fresh; a small one is averaged *)
(* and tuned away.                                                         *)
(***************************************************************************)
PpsCorrect(clock_ns) ==
  \/ /\ PpsOutOfBounds(clock_ns)
     /\ CoarseFresh
     /\ out' = SetTime((last_coarse_time_value + 1) % UINT32, PPS_LATENCY_CORRECTION_NS)
     /\ sync_diff_integrated_ns' = 0
  \/ /\ PpsOutOfBounds(clock_ns)
     /\ ~CoarseFresh
     /\ out' = Nothing
     /\ UNCHANGED sync_diff_integrated_ns
  \/ /\ ~PpsOutOfBounds(clock_ns)
     /\ LET corr == Quotient(sync_diff_integrated_ns - PpsError(clock_ns), 10)
        IN  sync_diff_integrated_ns' = sync_diff_integrated_ns - corr
     /\ out' = FineTune(sync_diff_integrated_ns', 0, PPS_CORRECTION_BOUNDARY)

pps_received(clock_ns) ==
  /\ last_pps_time_stamp' = tsu_get_uptime_ms
  /\ \/ /\ Age(last_pps_time_stamp) \notin PPS_PERIOD_LOW .. PPS_PERIOD_HIGH
        /\ out' = Nothing
        /\ UNCHANGED <<status, sync_diff_integrated_ns>>
     \/ /\ Age(last_pps_time_stamp) \in PPS_PERIOD_LOW .. PPS_PERIOD_HIGH
        /\ \/ /\ status = "TS_FINE"
              /\ PpsCorrect(clock_ns)
              /\ UNCHANGED status
           \/ /\ status # "TS_FINE"
              /\ status' = IF status = "TS_COARSE" THEN "TS_FINE" ELSE status
              /\ out' = Nothing
              /\ UNCHANGED sync_diff_integrated_ns
  /\ UNCHANGED <<coarse_service_ok, receive_counter, last_coarse_time_value,
                 last_coarse_time_stamp, status_prev, uptime, coarse_at>>

coarse_timeout ==
  /\ status' = IF status = "TS_COARSE" THEN "TS_LOST" ELSE status
  /\ coarse_service_ok' = FALSE
  /\ out' = Nothing
  /\ UNCHANGED <<receive_counter, stamps, sync_diff_integrated_ns, status_prev,
                 uptime, coarse_at>>

\* Mutant: the fallback does not look at the coarse service.
FallbackToCoarse == "TS_COARSE"

FineFallback == IF coarse_service_ok THEN "TS_COARSE" ELSE "TS_LOST"

fine_timeout ==
  /\ status' = IF status = "TS_FINE" THEN FineFallback ELSE status
  /\ out' = Nothing
  /\ UNCHANGED <<coarse_service_ok, receive_counter, stamps,
                 sync_diff_integrated_ns, status_prev, uptime, coarse_at>>

housekeeping ==
  /\ status_prev' = status
  /\ out' = Nothing
  /\ UNCHANGED <<status, coarse_service_ok, receive_counter, stamps,
                 sync_diff_integrated_ns, uptime, coarse_at>>

update_error(avg_error_ns) ==
  /\ sync_diff_integrated_ns' = avg_error_ns
  /\ out' = Nothing
  /\ UNCHANGED <<status, coarse_service_ok, receive_counter, stamps, status_prev,
                 uptime, coarse_at>>

(***************************************************************************)
(* tsu_systick_cb, as far as the uptime is concerned.                      *)
(***************************************************************************)
SysTick ==
  /\ uptime < MaxUptime
  /\ uptime' = uptime + 1
  /\ out' = Nothing
  /\ UNCHANGED <<status, coarse_service_ok, receive_counter, stamps,
                 sync_diff_integrated_ns, status_prev, coarse_at>>

Next ==
  \/ \E ts \in CoarseTimes, n, c \in 0 .. NS_SEC_PERIOD - 1 : coarse_time_received(ts, n, c)
  \/ \E ts \in CoarseTimes, n \in 0 .. NS_SEC_PERIOD - 1 : fine_time_received(ts, n)
  \/ \E c \in 0 .. NS_SEC_PERIOD - 1 : pps_received(c)
  \/ coarse_timeout \/ fine_timeout
  \/ housekeeping
  \/ \E e \in Errors : update_error(e) \/ update_error(-e)
  \/ SysTick

Spec == Init /\ [][Next]_vars

-----------------------------------------------------------------------------

(***************************************************************************)
(* The status, the counters and the stamps have the values their C types   *)
(* and the code's resets leave them; the resync counter never passes its   *)
(* limit, whatever excursions through the other states the status makes.   *)
(***************************************************************************)
TypeOK ==
  /\ status \in States /\ status_prev \in States
  /\ coarse_service_ok \in BOOLEAN
  /\ receive_counter \in 0 .. RESYNC_COARSE_TIME
  /\ last_coarse_time_value \in Nat
  /\ last_coarse_time_stamp \in 0 .. UINT32 - 1
  /\ last_pps_time_stamp \in 0 .. UINT32 - 1
  /\ sync_diff_integrated_ns \in Int
  /\ uptime \in Nat /\ coarse_at \in Nat \cup {Never}

(***************************************************************************)
(* The status and the flag of the coarse service agree under every order   *)
(* of receptions and timeouts: coarse status means the coarse service is   *)
(* up, and a service that is up is never reported as never or lost.        *)
(***************************************************************************)
ServiceConsistent ==
  /\ status = "TS_COARSE" => coarse_service_ok
  /\ coarse_service_ok => status \in {"TS_COARSE", "TS_FINE"}

(***************************************************************************)
(* The difference of the stamps that PpsCorrect takes for the age of a     *)
(* coarse time from uptime a is below the limit: because that is less than *)
(* COARSE_TIME_AGE_MAX ago, or because it is so long ago, half the range   *)
(* of the millisecond counter or more, that the signed difference may come *)
(* out negative.                                                           *)
(***************************************************************************)
PassesForFresh(a) == uptime - a < COARSE_TIME_AGE_MAX \/ 2 * (uptime - a) >= UINT32

(***************************************************************************)
(* When a pulse steps the clock, the coarse time it builds on is less than *)
(* COARSE_TIME_AGE_MAX old, with two exceptions that the code does not     *)
(* rule out: the coarse service has been silent for at least half the      *)
(* range of the millisecond counter, or there never was a coarse time.     *)
(* Then the stamp of zero passes for one received at the start, and a      *)
(* pulse in the first COARSE_TIME_AGE_MAX milliseconds steps the clock to  *)
(* second 1.                                                               *)
(***************************************************************************)
StepsOnFreshCoarse ==
  [][last_pps_time_stamp' # last_pps_time_stamp /\ out'.call = "tsu_set_time" =>
       IF coarse_at = Never
         THEN PassesForFresh(0) /\ out'.seconds = 1 % UINT32
         ELSE PassesForFresh(coarse_at)]_vars

=============================================================================
