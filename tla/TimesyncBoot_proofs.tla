------------------------ MODULE TimesyncBoot_proofs ------------------------
(***************************************************************************)
(* Proofs about selecting a source while frames of both transports arrive, *)
(* for every size of byte and second.                                      *)
(***************************************************************************)
EXTENDS TimesyncBoot, TLAPS

(***************************************************************************)
(* What the sources have set up belongs to the one selected: the           *)
(* parameters are there with either of them, the sender of Delay_Req is    *)
(* the one of that source, and a source is selected only once.             *)
(***************************************************************************)
SetupOfSource ==
  /\ clock_source \in PtpSources => init_params = "init_param"
  /\ delay_req_cb = "ptp_send_delay_request" => clock_source = "PTP"
  /\ ~isInitialized => clock_source = "NONE"

IInv == TypeOK /\ SetupOfSource /\ AssertsHoldWithSource /\ ParamsBeforeReports

LEMMA IInvInit == Init => IInv
  BY DEF Init, Sync!Init, IInv, TypeOK, SetupOfSource, AssertsHoldWithSource,
         ParamsBeforeReports, clock_type, PtpSources

(***************************************************************************)
(* One message, over whichever transport.  It changes no callback; an      *)
(* assert fails only when one is missing; the only NULL pointer it may     *)
(* find is the buffer of ptp_send_delay_request.                           *)
(***************************************************************************)
LEMMA MessageSafe ==
  ASSUME IInv, Running, ptp_sync_interpreter, UNCHANGED setup,
         event' \in {"udp", "ethernet"}
  PROVE  IInv'
  <1>1. registered' = registered /\ crashed' \in BOOLEAN
    BY Zenon DEF ptp_sync_interpreter, SendDelayReq, ProcessTimeDiff, Sync!SyncMsg, Sync!FollowUpMsg,
       Sync!DelayResponse, Sync!OtherMsg, Sync!AssertFails, Sync!ptp_sycn_report_diff,
       Sync!ptp_sync_send_delay_req_event, IInv, TypeOK
  <1>2. TypeOK' /\ SetupOfSource'
    BY <1>1 DEF setup, IInv, TypeOK, SetupOfSource
  <1>3. clock_source \in PtpSources => mode' = "running"
    <2> SUFFICES ASSUME clock_source \in PtpSources PROVE mode' = "running"
      OBVIOUS
    <2>1. registered = {"gettime", "report_diff", "delay_req"}
      BY DEF IInv, TypeOK, Sync!Callbacks
    <2>2. ASSUME NEW now \in Sync!Timestamp, Sync!SyncMsg(now) PROVE mode' = "running"
      BY <2>1, <2>2 DEF Sync!SyncMsg, Sync!AssertFails
    <2>3. ASSUME NEW now \in Sync!Timestamp, NEW ts, Sync!FollowUpMsg(ts, now)
          PROVE  mode' = "running"
      BY <2>1, <2>3 DEF Sync!FollowUpMsg, Sync!ptp_sync_send_delay_req_event,
                        Sync!AssertFails
    <2>4. ASSUME NEW now \in Sync!Timestamp, NEW ts, Sync!DelayResponse(ts, now)
          PROVE  mode' = "running"
      BY <2>1, <2>4 DEF Sync!DelayResponse, Sync!ptp_sycn_report_diff, Sync!AssertFails
    <2>5. ASSUME NEW ret, Sync!OtherMsg(ret) PROVE mode' = "running"
      BY <2>5 DEF Sync!OtherMsg
    <2> QED  BY <2>2, <2>3, <2>4, <2>5 DEF ptp_sync_interpreter
  <1>4. AssertsHoldWithSource'
    BY <1>3 DEF setup, AssertsHoldWithSource
  <1>5. ASSUME crashed' PROVE out'.call = "delay_req" /\ clock_source = "PTP"
    <2>1. ~crashed
      BY DEF Running
    <2>2. ASSUME NEW a \in BOOLEAN, SendDelayReq(a)
          PROVE  out'.call = "delay_req" /\ clock_source = "PTP"
      BY <1>5, <2>2 DEF SendDelayReq, IInv, SetupOfSource
    <2>3. ASSUME NEW now \in Sync!Timestamp, NEW ts, Sync!DelayResponse(ts, now),
                 ProcessTimeDiff
          PROVE  FALSE
      <3>1. out'.call = "report_diff" /\ init_params = "NULL"
        BY <1>5, <2>3 DEF ProcessTimeDiff
      <3>2. registered = {}
        BY <3>1 DEF IInv, TypeOK, SetupOfSource
      <3>3. out' = Sync!Silent(Sync!PTP_MSG_ERR)
        BY <2>3, <3>2 DEF Sync!DelayResponse, Sync!AssertFails
      <3> QED  BY <3>1, <3>3 DEF Sync!Silent
    <2> QED  BY <1>5, <2>1, <2>2, <2>3 DEF ptp_sync_interpreter
  <1>6. ParamsBeforeReports'
    BY <1>5 DEF setup, ParamsBeforeReports
  <1> QED  BY <1>2, <1>4, <1>6 DEF IInv

LEMMA IInvNext == IInv /\ [Next]_vars => IInv'
  <1> SUFFICES ASSUME IInv, [Next]_vars PROVE IInv'
    OBVIOUS
  <1>1. ASSUME NEW type \in clock_type, timesync_init(type) PROVE IInv'
    <2>1. CASE ~isInitialized
      <3>1. clock_source = "NONE" /\ clock_source' = type /\ isInitialized' = TRUE
            /\ mode' = mode /\ crashed' = crashed /\ event' = "timesync_init" /\ ~crashed
            /\ start_timesync
        BY <1>1, <2>1 DEF timesync_init, IInv, SetupOfSource, Running
      <3>2. registered = {} /\ ports = {} /\ ~mcast
            /\ delay_req_cb # "ptp_send_delay_request"
        BY <3>1 DEF IInv, TypeOK, SetupOfSource, PtpSources
      <3>3. CASE type = "PTP"
        BY <3>1, <3>2, <3>3, Zenon DEF start_timesync, ptp_init, init_ptp_task, RegisterCallbacks,
           bind_udp_receiver, IInv, TypeOK, SetupOfSource, AssertsHoldWithSource,
           ParamsBeforeReports, PtpSources, clock_type
      <3>4. CASE type = "GPTP"
        BY <3>1, <3>2, <3>4, Zenon DEF start_timesync, gptp_init, enable_mac_multicast, set_gptp_param,
           init_gptp_task, RegisterCallbacks, IInv, TypeOK, SetupOfSource,
           AssertsHoldWithSource, ParamsBeforeReports, PtpSources, clock_type
      <3>5. CASE type \notin PtpSources
        BY <3>1, <3>2, <3>5 DEF start_timesync, IInv, TypeOK, SetupOfSource,
           AssertsHoldWithSource, ParamsBeforeReports, PtpSources, clock_type
      <3> QED  BY <3>3, <3>4, <3>5 DEF PtpSources
    <2>2. CASE isInitialized
      BY <1>1, <2>2 DEF timesync_init, setup, IInv, TypeOK, SetupOfSource,
         AssertsHoldWithSource, ParamsBeforeReports
    <2> QED  BY <2>1, <2>2 DEF IInv, TypeOK
  <1>2. CASE UdpMessage
    BY <1>2, MessageSafe DEF UdpMessage
  <1>3. ASSUME NEW dest \in {"own", "group"}, gptp_protocol_hook(dest) PROVE IInv'
    BY <1>3, MessageSafe DEF gptp_protocol_hook
  <1>4. CASE UNCHANGED vars
    BY <1>4 DEF vars, setup, interpreter, IInv, TypeOK, SetupOfSource,
       AssertsHoldWithSource, ParamsBeforeReports
  <1> QED  BY <1>1, <1>2, <1>3, <1>4 DEF Next

(***************************************************************************)
(* The inductive invariant of the start-up.                                *)
(***************************************************************************)
THEOREM BootInvariant == Spec => []IInv
  BY IInvInit, IInvNext, PTL DEF Spec

(***************************************************************************)
(* timesync_init leaves all callbacks of the interpreter or none.          *)
(***************************************************************************)
THEOREM SetupAllOrNothing == Spec => []TypeOK
  <1>1. IInv => TypeOK
    BY DEF IInv
  <1> QED  BY <1>1, BootInvariant, PTL

(***************************************************************************)
(* Once ptp_init or gptp_init has run, no frame makes an assert of         *)
(* ptp_sync_interpreter fail.                                              *)
(***************************************************************************)
THEOREM AssertsAlwaysHold == Spec => []AssertsHoldWithSource
  <1>1. IInv => AssertsHoldWithSource
    BY DEF IInv
  <1> QED  BY <1>1, BootInvariant, PTL

(***************************************************************************)
(* ptp_process_time_diff never finds init_params NULL.                     *)
(***************************************************************************)
THEOREM ParamsAlwaysBeforeReports == Spec => []ParamsBeforeReports
  <1>1. IInv => ParamsBeforeReports
    BY DEF IInv
  <1> QED  BY <1>1, BootInvariant, PTL

=============================================================================
