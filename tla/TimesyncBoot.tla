---------------------------- MODULE TimesyncBoot ----------------------------
(***************************************************************************)
(* Starting the time service: timesync_init selects a source, ptp_init or  *)
(* gptp_init registers its callbacks with the interpreter, and frames      *)
(* reach the interpreter over UDP (ptp.c) or straight from the Ethernet    *)
(* layer (gptp_hook.c), whichever source was selected, and also before     *)
(* any was.                                                                *)
(*                                                                         *)
(* timesync_init and the handling of a frame both run in the main loop, so *)
(* each is one step.  When the application calls timesync_init is not part *)
(* of this repository: any time, and any number of times.                  *)
(***************************************************************************)
EXTENDS PtpTime, PtpWire

CONSTANTS Seconds, WireNanosec, OverflowResults

VARIABLES isInitialized, clock_source,  \* timesync.c
          init_params,                  \* the pointer kept by ptp.c
          ports,                        \* UDP ports bound to the interpreter
          mcast,                        \* the MAC accepts the gPTP group address
          delay_req_cb,                 \* the sender of Delay_Req registered
          event,                        \* what the last step handled
          crashed,                      \* a NULL pointer has been used
          registered, mode, t1, t2, t3, t4, out    \* ptp_sync.c (PtpSync)

Sync == INSTANCE PtpSync

setup == <<isInitialized, clock_source, init_params, ports, mcast, delay_req_cb>>
interpreter == <<registered, mode, t1, t2, t3, t4, out>>
vars == <<setup, event, crashed, interpreter>>

clock_type == {"NONE", "GENERAL_NMEA_GPS", "PTP", "GPTP"}
PtpSources == {"PTP", "GPTP"}

PTP_EVENT_MSG_PORT == 319
PTP_GEN_MSG_PORT == 320

Init ==
  /\ isInitialized = FALSE /\ clock_source = "NONE"
  /\ init_params = "NULL"
  /\ ports = {} /\ mcast = FALSE /\ delay_req_cb = "NULL"
  /\ event = "none" /\ crashed = FALSE
  /\ Sync!Init

Running == mode = "running" /\ ~crashed

-----------------------------------------------------------------------------

\* Mutant: the sender of Delay_Req is not registered.
RegisterTwo(sender) ==
  /\ registered' = registered \cup {"gettime", "report_diff"}
  /\ delay_req_cb' = "NULL"

(***************************************************************************)
(* The three ptp_sync_register_ calls that both sources make.              *)
(***************************************************************************)
RegisterCallbacks(sender) ==
  /\ registered' = registered \cup Sync!Callbacks
  /\ delay_req_cb' = sender

(***************************************************************************)
(* Each port is bound unless udp_new has no control block left; a second   *)
(* call returns at once, but is never made.                                *)
(***************************************************************************)
bind_udp_receiver == ports' \in SUBSET {PTP_EVENT_MSG_PORT, PTP_GEN_MSG_PORT}

init_ptp_task == RegisterCallbacks("ptp_send_delay_request") /\ bind_udp_receiver

ptp_init ==
  /\ init_params' = "init_param"
  /\ init_ptp_task
  /\ UNCHANGED mcast

(***************************************************************************)
(* gPTP has no receiver of its own: the Ethernet hook is always installed. *)
(* It keeps its parameters in ptp.c, whose report handler it shares.       *)
(***************************************************************************)
init_gptp_task == RegisterCallbacks("gptp_send_delay_request") /\ UNCHANGED ports

enable_mac_multicast == mcast' = TRUE

\* Mutant: the parameters are kept in gptp.c only.
KeepParamLocal == UNCHANGED init_params

set_gptp_param == init_params' = "init_param"

gptp_init == enable_mac_multicast /\ set_gptp_param /\ init_gptp_task

start_timesync ==
  \/ clock_source' = "PTP" /\ ptp_init
  \/ clock_source' = "GPTP" /\ gptp_init
  \/ /\ clock_source' \notin PtpSources
     /\ UNCHANGED <<init_params, ports, mcast, delay_req_cb, registered>>

timesync_init(type) ==
  /\ Running
  /\ event' = "timesync_init"
  /\ \/ /\ ~isInitialized
        /\ clock_source' = type
        /\ start_timesync
        /\ isInitialized' = TRUE
        /\ UNCHANGED mode
     \/ /\ isInitialized
        /\ mode' = "aborted"
        /\ UNCHANGED <<setup, registered>>
  /\ UNCHANGED <<crashed, t1, t2, t3, t4, out>>

-----------------------------------------------------------------------------

(***************************************************************************)
(* ptp_send_delay_request uses the buffer without looking whether it got   *)
(* one; gptp_send_delay_request sends nothing when it got none.            *)
(***************************************************************************)
SendDelayReq(allocated) ==
  crashed' = (/\ out'.call = "delay_req"
              /\ delay_req_cb = "ptp_send_delay_request"
              /\ ~allocated)

(***************************************************************************)
(* A report goes to ptp_process_time_diff, which reads init_params.        *)
(***************************************************************************)
ProcessTimeDiff == crashed' = (out'.call = "report_diff" /\ init_params = "NULL")

ptp_sync_interpreter ==
  \/ \E now \in Sync!Timestamp : Sync!SyncMsg(now) /\ UNCHANGED crashed
  \/ \E now \in Sync!Timestamp, ts \in Sync!WireTimestamp, allocated \in BOOLEAN :
       /\ Sync!FollowUpMsg(ptp_prepare_timestamp(ts), now)
       /\ SendDelayReq(allocated)
  \/ \E now \in Sync!Timestamp, ts \in Sync!WireTimestamp :
       /\ Sync!DelayResponse(ptp_prepare_timestamp(ts), now)
       /\ ProcessTimeDiff
  \/ \E ret \in {Sync!PTP_MSG_OK, Sync!PTP_MSG_ERR} :
       Sync!OtherMsg(ret) /\ UNCHANGED crashed

(***************************************************************************)
(* A UDP datagram on a bound port: ptp_msg_interpreter.                    *)
(***************************************************************************)
UdpMessage ==
  /\ Running
  /\ ports # {}
  /\ event' = "udp"
  /\ ptp_sync_interpreter
  /\ UNCHANGED setup

(***************************************************************************)
(* A frame of type 0x88F7, to the board's own address or to the group      *)
(* address when the MAC lets it through: xemacpsif_input, ethernet_input   *)
(* and the hook pass it on unconditionally.                                *)
(***************************************************************************)
gptp_protocol_hook(dest) ==
  /\ Running
  /\ dest = "group" => mcast
  /\ event' = "ethernet"
  /\ ptp_sync_interpreter
  /\ UNCHANGED setup

Next ==
  \/ \E type \in clock_type : timesync_init(type)
  \/ UdpMessage
  \/ \E dest \in {"own", "group"} : gptp_protocol_hook(dest)

Spec == Init /\ [][Next]_vars

-----------------------------------------------------------------------------

(***************************************************************************)
(* The sources leave the setup all or nothing: with a PTP source selected  *)
(* every callback is there, with any other one none is.                    *)
(***************************************************************************)
TypeOK ==
  /\ isInitialized \in BOOLEAN /\ crashed \in BOOLEAN
  /\ clock_source \in clock_type
  /\ registered = IF clock_source \in PtpSources THEN Sync!Callbacks ELSE {}
  /\ ports # {} => clock_source = "PTP"
  /\ mcast = (clock_source = "GPTP")

(***************************************************************************)
(* With a PTP source selected no frame, over either transport and in any   *)
(* order, makes an assert of the interpreter fail: only a second call of   *)
(* timesync_init can still stop the program.                               *)
(***************************************************************************)
AssertsHoldWithSource ==
  mode = "aborted" /\ clock_source \in PtpSources => event = "timesync_init"

(***************************************************************************)
(* A report never finds init_params NULL, although gptp.c keeps a pointer  *)
(* of the same name that nobody sets: the one NULL pointer ever used is    *)
(* the buffer ptp_send_delay_request did not get.                          *)
(***************************************************************************)
ParamsBeforeReports == crashed => out.call = "delay_req" /\ clock_source = "PTP"

=============================================================================
