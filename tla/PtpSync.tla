------------------------------ MODULE PtpSync ------------------------------
(***************************************************************************)
(* The PTP message interpreter of ptp_sync.c: the four timestamps kept     *)
(* between messages, the three registered callbacks and the calculation    *)
(* made when a Delay_Resp arrives.                                         *)
(*                                                                         *)
(* The environment is open: a message of any type may arrive at any time   *)
(* and in any order, with any bytes for a timestamp, and the local clock   *)
(* may show anything when it is read.  Nothing in the interpreter pairs    *)
(* the messages of one exchange (seqId and port identity are never read),  *)
(* and nothing asks whether the nanoseconds received are less than a       *)
(* second.                                                                 *)
(***************************************************************************)
EXTENDS PtpTime, PtpWire

CONSTANTS Seconds,          \* the second values a clock can show
          WireNanosec,      \* the nanosecond values a message may carry
          OverflowResults   \* what an int32_t may hold after an overflow

ASSUME SecondsAssumption ==
  /\ Seconds \subseteq Nat
  /\ 0 \in Seconds
  /\ \A s \in Seconds : FitsSeconds(s)

ASSUME WireAssumption ==
  /\ WireNanosec \subseteq Nat
  /\ 0 .. NS_SEC_PERIOD - 1 \subseteq WireNanosec
  /\ \A n \in WireNanosec : FitsNanosec(n)

ASSUME OverflowAssumption ==
  /\ INT32_MAX \in Nat /\ 2 * NS_SEC_PERIOD <= INT32_MAX + 1
  /\ OverflowResults \subseteq Int32 /\ OverflowResults # {}

VARIABLES registered,       \* callbacks registered so far
          mode,             \* "aborted" once an assert has stopped the program
          t1, t2, t3, t4,   \* the static timestamps of ptp_sync_interpreter
          out               \* what the last handler did: callback and result

timestamps == <<t1, t2, t3, t4>>
vars == <<registered, mode, t1, t2, t3, t4, out>>

Callbacks == {"gettime", "report_diff", "delay_req"}

Timestamp == [seconds : Seconds, nanosec : 0 .. NS_SEC_PERIOD - 1]

WireTimestamp == [seconds : Seconds, nanosec : WireNanosec]

Received == [seconds : Seconds, nanosec : {ToInt32(n) : n \in WireNanosec}]

PTP_MSG_OK == 0
PTP_MSG_ERR == -1

Silent(ret) == [call |-> "none", ret |-> ret]
Report(synced, diff) == [call |-> "report_diff", synced |-> synced, diff |-> diff]
DelayReq(origin_ts) == [call |-> "delay_req", origin_ts |-> origin_ts]

Init ==
  /\ registered = {}
  /\ mode = "running"
  /\ t1 = TimeZero /\ t2 = TimeZero /\ t3 = TimeZero /\ t4 = TimeZero
  /\ out = Silent(PTP_MSG_OK)

-----------------------------------------------------------------------------

Register(cb) ==
  /\ mode = "running"
  /\ registered' = registered \cup {cb}
  /\ out' = Silent(PTP_MSG_OK)
  /\ UNCHANGED <<mode, timestamps>>

(***************************************************************************)
(* An assert on a callback that is not registered stops the program.       *)
(***************************************************************************)
AssertFails(cb) ==
  /\ cb \notin registered
  /\ mode' = "aborted"
  /\ out' = Silent(PTP_MSG_ERR)
  /\ UNCHANGED registered

SyncMsg(now) ==
  /\ mode = "running"
  /\ \/ /\ "gettime" \in registered
        /\ t2' = now
        /\ out' = Silent(PTP_MSG_OK)
        /\ UNCHANGED <<registered, mode>>
     \/ /\ AssertFails("gettime")
        /\ UNCHANGED t2
  /\ UNCHANGED <<t1, t3, t4>>

ptp_sync_send_delay_req_event(ts) ==
  \/ /\ "delay_req" \in registered
     /\ out' = DelayReq(ptp_prepare_timestamp(ts))
     /\ UNCHANGED <<registered, mode>>
  \/ AssertFails("delay_req")

FollowUpMsg(precise_origin_ts, now) ==
  /\ mode = "running"
  /\ t1' = ptp_store_timestamp(precise_origin_ts)
  /\ \/ /\ "gettime" \in registered
        /\ t3' = now
        /\ ptp_sync_send_delay_req_event(now)
     \/ /\ AssertFails("gettime")
        /\ UNCHANGED t3
  /\ UNCHANGED <<t2, t4>>

ptp_sycn_report_diff(synced, diff) ==
  \/ /\ "report_diff" \in registered
     /\ out' = Report(synced, diff)
     /\ UNCHANGED <<registered, mode>>
  \/ AssertFails("report_diff")

Overflows(a, b, c, d, sys_ts) ==
  \E x \in Intermediates(a, b, c, d, sys_ts) : x.nanosec \notin Int32

(***************************************************************************)
(* The possible results of the calculation.  An overflow of a signed       *)
(* nanosec field is undefined behaviour, and the nanoseconds reported may  *)
(* then be anything; the seconds, of 64 bits, are calculated apart.        *)
(***************************************************************************)
Results(a, b, c, d, sys_ts) ==
  LET synced_time == SyncedTime(a, b, c, d)
      diff == TimeDiff(a, b, c, d, sys_ts)
  IN  IF Overflows(a, b, c, d, sys_ts)
        THEN {Report(Time(synced_time.seconds, n), Time(diff.seconds, m)) :
                n, m \in OverflowResults}
        ELSE {Report(synced_time, diff)}

\* Mutant: the calculation uses the t4 of the previous Delay_Resp.
DelayResponseStale(recv_ts, now) ==
  /\ mode = "running"
  /\ \/ /\ "gettime" \in registered
        /\ t4' = ptp_store_timestamp(recv_ts)
        /\ \E r \in Results(t1, t2, t3, t4, now) : ptp_sycn_report_diff(r.synced, r.diff)
     \/ /\ AssertFails("gettime")
        /\ UNCHANGED t4
  /\ UNCHANGED <<t1, t2, t3>>

DelayResponse(recv_ts, now) ==
  /\ mode = "running"
  /\ \/ /\ "gettime" \in registered
        /\ t4' = ptp_store_timestamp(recv_ts)
        /\ \E r \in Results(t1, t2, t3, t4', now) : ptp_sycn_report_diff(r.synced, r.diff)
     \/ /\ AssertFails("gettime")
        /\ UNCHANGED t4
  /\ UNCHANGED <<t1, t2, t3>>

(***************************************************************************)
(* Peer-delay and Announce messages are accepted and have no effect;       *)
(* Signaling, Management and unknown types are refused.                    *)
(***************************************************************************)
OtherMsg(ret) ==
  /\ mode = "running"
  /\ out' = Silent(ret)
  /\ UNCHANGED <<registered, mode, timestamps>>

Next ==
  \/ \E cb \in Callbacks : Register(cb)
  \/ \E now \in Timestamp : SyncMsg(now)
  \/ \E now \in Timestamp, ts \in WireTimestamp :
       FollowUpMsg(ptp_prepare_timestamp(ts), now)
  \/ \E now \in Timestamp, ts \in WireTimestamp :
       DelayResponse(ptp_prepare_timestamp(ts), now)
  \/ \E ret \in {PTP_MSG_OK, PTP_MSG_ERR} : OtherMsg(ret)

Spec == Init /\ [][Next]_vars

-----------------------------------------------------------------------------

(***************************************************************************)
(* The timestamps taken from the clock are times it can show, those taken  *)
(* from messages are ones that somebody sent, and the last output is a     *)
(* callback.                                                               *)
(***************************************************************************)
TypeOK ==
  /\ registered \subseteq Callbacks
  /\ mode \in {"running", "aborted"}
  /\ t1 \in Received /\ t2 \in Timestamp /\ t3 \in Timestamp /\ t4 \in Received
  /\ out.call \in {"none", "report_diff", "delay_req"}

Near(a, b) == a - b \in -1 .. 1

(***************************************************************************)
(* Half of the range of an int32_t: 30 bits, somewhat more than a second.  *)
(***************************************************************************)
Moderate(ts) == ts.nanosec \in 0 .. INT32_MAX \div 2

(***************************************************************************)
(* Whatever exchanges t1, t2 and t3 were left over from, the time that     *)
(* ptp_sync_interpreter reports has the second of the t4 of this very      *)
(* Delay_Resp, even if the nanoseconds of some message were nonsense.      *)
(* When the nanoseconds that t1 and t4 came with fit 30 bits, those        *)
(* reported are t4's as well, at most one nanosecond of rounding away, and *)
(* a legal value for the clock registers if t4's are (the fields are never *)
(* normalised, so none of this is evident).  A message with worse ones     *)
(* does harm only until the next one of its type.                          *)
(***************************************************************************)
SyncedTracksT4 ==
  out.call = "report_diff" =>
    /\ out.synced.seconds = t4.seconds
    /\ Moderate(t1) /\ Moderate(t4) =>
         /\ Near(out.synced.nanosec, t4.nanosec)
         /\ t4 \in Timestamp => out.synced.nanosec \in 0 .. NS_SEC_PERIOD - 1

(***************************************************************************)
(* Nothing checks the nanoseconds of a message, and ptp_store_timestamp    *)
(* turns half of the values into negative ones.  Still no negation, sum or *)
(* difference of ptp_sync_interpreter's calculation overflows its int32_t  *)
(* as long as the nanoseconds of t1 and t4 fit 30 bits: these two fields   *)
(* are the only way to the undefined behaviour, whatever t2, t3 and the    *)
(* clock show.                                                             *)
(***************************************************************************)
Int32Safe ==
  Moderate(t1) /\ Moderate(t4) => \A at \in Timestamp : ~Overflows(t1, t2, t3, t4, at)

(***************************************************************************)
(* The Delay_Req answering a Follow_Up carries, in its bytes, the very t3  *)
(* that is kept for the calculation: what a master decodes from the        *)
(* message is what the slave later subtracts.                              *)
(***************************************************************************)
DelayReqCarriesT3 ==
  out.call = "delay_req" => ptp_store_timestamp(out.origin_ts) = t3

=============================================================================
