# A TLA+ model of the standalone PTP slave

This directory models the PTP/gPTP slave for bare-metal Xilinx devices kept in
`IEEE1588/`: the message interpreter, the control loop, the time stamp unit,
the time service, the start-up of the two sources, and the Ethernet driver with its
receive ring, transmit ring and multicast filters. TLC checks small instances;
TLAPS proves the central properties for every value of the constants.

## 1. The system

The program is a single main loop plus the interrupts of the Ethernet MAC. There
is no operating system, no `main` in the repository, and the timer that once drove
the periodic work (`ttc_timer.c`) is disabled.

| part | state | operations | interacts with |
|---|---|---|---|
| interpreter `ptp_sync.c` | callbacks, `t1`..`t4` | register a callback; handle Sync, Follow_Up, Delay_Resp, other messages | called with a message by `ptp.c` and `gptp_hook.c`; calls back for the time, a report, a Delay_Req |
| PTP source `ptp.c` | `init_params`, integral of the error, bound ports | `ptp_process_time_diff`, `ptp_send_delay_request`, initialisation | time service (callbacks), controller, lwIP |
| gPTP source `gptp.c`, `gptp_hook.c` | none of its own (it shares those of `ptp.c`) | initialisation, `gptp_send_delay_request`, Ethernet hook | interpreter, driver |
| time service `timesync.c` | status, coarse flag, resync counter, stamps, average error | coarse and fine time, pulse per second, two timeouts, housekeeping, error report | reads and sets the clock, tunes it |
| time stamp unit `tsu_time.c` | hardware clock, register image, uptime | get, set, fine-tune, tick | hardware |
| driver, receive `xemacpsif*.c`, `ethernet.c` | BD ring, table of buffers, queue, descriptor space | init, refill, interrupt handler, input, error recovery, ring reset | lwIP pool, hardware |
| driver, transmit `xemacpsif*.c`, `ethernet.c` | BD ring, table of buffers, table of blocking sends | send (blocking or not), reclaim, error recovery, ring reset | lwIP, hardware |
| multicast filters `xemacpsif.c`, `gptp.c` | two entry masks, hash register | add, remove, hash update, gPTP's own bit | both rings (a hash update resets them), lwIP |

An exchange: the master sends Sync (the slave notes `t2`) and Follow_Up (carries
`t1`; the slave notes `t3` and sends a Delay_Req), then answers with a Delay_Resp
(carries `t4`). The interpreter computes the synced time and its difference to the
local clock, field by field, and reports both. `ptp_process_time_diff` treats a
difference with seconds in it as a coarse time, which the time service may set; any
other goes to the controller, and the resulting correction is written to the
hardware at once.

What is hard here: messages carry sequence numbers that nobody reads, so exchanges
mix under loss, repetition and reordering; times are never normalised; the clock
runs while it is read and set in several register accesses; the register keeps
old corrections; the status machine has states that nothing leaves; frames arrive
before the software is ready; buffers move between interrupt, queue, stack and
pool, and the pool can be empty; the transmitter reads a frame's BDs while they are
being written; joining a group resets both rings under way; a mask that only counts
and a hash that many addresses share decide what is heard. `PROJECT.json` lists each such hazard at its line.

What makes the parts correct: a report is the master's recent time, whatever it was
made of; reading the clock is atomic and setting it is exact up to rollovers; the
loop converges and its correction fits the hardware; the status agrees with the
services; every receive buffer has one owner and frames stay in order; every transmit
buffer is held as long as the hardware may read it, and waits for the transmitter end;
a wanted group is heard; no assert fails once a source is selected.

## 2. Modules

| module | models | built on |
|---|---|---|
| `PtpTime` | time arithmetic of `ptp_sync.c` (pure operators) | |
| `PtpWire` | the ten-byte timestamp of a message (pure operators) | |
| `PtpSync` | the interpreter in an open environment | `PtpTime`, `PtpWire` |
| `TsuClock` | the clock and each register access of `tsu_get_time`, `tsu_set_time`, `tsu_driver_adjust_time`, `init_tsu` | `PtpTime` |
| `TsuAdjust` | the register image and `tsu_clock_fine_tune` (pure operators) | |
| `TimeSync` | the time service, all callbacks of `init_param` | `TsuAdjust` |
| `PtpServo` | the closed control loop, counted in exchanges | `TsuAdjust`, `PtpTime`, instance of `TimeSync` |
| `PtpSlave` | a slave and a master with running clocks and a faulty network | `PtpSync`, `TsuAdjust`, instance of `TimeSync` |
| `SlaveClock` | what a slave promises of its clock (abstract) | refined by `PtpSlave` |
| `TimesyncBoot` | selecting a source while frames arrive | instance of `PtpSync` |
| `EmacRx` (`MCEmacRx`) | receive ring, buffers, queue, input, DMA errors, ring resets | |
| `PbufLife` | the places a receive buffer may go to (abstract) | refined by `EmacRx` |
| `EmacTx` | transmit ring, sends, reclaim, blocking sends, errors, ring resets | |
| `McastFilter` (`MCMcastFilter`) | entry masks, hash register, joined groups | |
| `PtpSlave_proofs` | theorems on `PtpSync` and on `PtpSlave`, which extends it | `PtpSlave` |
| `TsuClock_proofs`, `TimeSync_proofs`, `PtpServo_proofs`, `TimesyncBoot_proofs`, `EmacRx_proofs`, `EmacTx_proofs`, `McastFilter_proofs` | theorems | the module named |

Definitions keep the names of the C functions they model; a name in mixed case is
a part of a function, an event or a property. Definitions under a `Mutant:` comment
are deliberate bugs that no specification uses; each one is a way to break a property.

### How state and actions correspond to the code

*Interpreter.* `t1`..`t4` and the three callbacks are the static variables; each
message type of the `switch` is an action, with the clock reading `now` as input.
`out` is what the handler did: the callback it made, with its arguments. A failed
assert ends in `mode = "aborted"`. A message may carry any nanoseconds of `WireNanosec`; as an
`int32_t` half of the 32-bit values are negative (`ToInt32`). `Overflows` says whether one of the
`Intermediates` of the calculation leaves the `int32_t`: undefined behaviour, after which the reported
nanoseconds are any of `OverflowResults`. The field `dts`, which is written and never read, is left
out, as are the constant header fields of the Delay_Req.

*Clock.* `pc` is the position between two register accesses; `Tick`, one cycle of
the hardware, may come between any two. `start`, `ideal` and `rolled` are history
variables used by the properties only. The adjustment register is written only from the
main loop, never in the middle of a get or set.

*Time service.* The handlers that read the clock get the reading as a parameter;
what they do to the clock is left in `out`. The uptime is unbounded and the code's view
of it is taken modulo 2^32, with signed differences. `coarse_at`, a history variable, is the true
time of the last coarse reception, or `Never`, while the code's stamp starts at 0 (`ServiceInit`). `sync_diff_ns` is left out: only the log reads it.

*Control loop.* `off` is the difference the next report will find; `Reports` gives
the two ways field-wise subtraction may express it (with or without a second).
`ptp_process_time_diff` is split at its calls of the time service (`pc`), because each
call is an action of `TimeSync`. `Integrate` is the unlimited sum in an `int`; when it overflows, the
integral is any of `OverflowResults` and `overflowed`, a history variable, says so. Drift between two exchanges is not modelled here: the
loop is started from every offset instead.

*Slave on a network.* Both clocks count nanosecond ticks. The network is a set of
messages; a delivery may leave the message in place (repetition), `Lose` removes one,
and messages are taken in any order. A message older than `MaxDelay` is gone. The
three handlers and the two branches of the report are composed from the actions of
`PtpSync`, whose variables the module shares, and of `TimeSync`; `SlaveInit`, `SlaveNext` and
`SlaveSpec` are the composition, `Init`, `Next` and `Spec` those of the interpreter alone.

*Start-up.* `timesync_init` is one step, as the main loop is not interrupted by a frame's handler.
The Ethernet hook is compiled in and so always active; UDP messages need a bound port,
group-addressed Ethernet frames need the MAC filter.

*Receive ring.* The BDs with the hardware are `hw_cnt` from `hw_head` on; `filled` are
those whose "new" bit is set, `hw_ptr` is the one the hardware fills next. `ref` is the
reference count (0: in the pool). One round of the loop in `emacps_recv_handler` is one
action; since the main loop cannot run inside the interrupt and a round takes all filled
BDs, rounds and interrupts are the same. `xemacpsif_input` takes one of five kinds of frame,
and `ethernet_input` says for each who frees it. `reset_dma` moves the pointers of
ring and hardware back to the first BD and nothing else. An error recovery frees every entry of the
table, also one whose BD no longer owns its pbuf (`free_txrx_pbufs`), and hands pbufs of the resulting
pool to the new ring. Two events set `corrupt`, after which the model stops: such a free of a stale
entry, and a reset of a ring in which BDs have no buffer
(ring and table no longer agree). Ring functions, pool and stack are external.

*Transmit ring.* `tx` is the ring with its counts and heads, the marks of the BDs (`used`,
`last`), and the entries of `tx_pbufs_storage` and `notifyinfo`. The driver sends with interrupts off,
but the hardware reads BDs all the time, so `emacps_sgsend` is two steps:
`low_level_output` writes all but the first BD's mark, `SubmitFirst` clears that one. `pc` also
has the two busy waits: for an empty ring (`xemacpsif_mac_hash_update`) and for a blocking send.
A blocking send that could not be entered waits on an index it never set; the model takes
any. Both error handlers make the ring anew (`RenewRing`). `HandleEmacPsError` does it with `init_dma`,
which returns early when the receive side gets too few pbufs; nobody looks, and the hardware is not told
of the new ring (`attached`). At boot the same return also leaves the interrupt unconnected (`intr_on`).
The model lets this happen at any boot or recovery, since the pool is not part of it; `reset_dma` sets the
queue pointer again. `WaitOn` is a round of `while(txring->HwCnt)`. The join at the end of `gptp_init` waits, or is
refused for want of a filter entry and does not.
`enable_mac_multicast` is a single step although it does not mask interrupts: it calls `XEmacPs_Stop`
first, which turns those of the controller off until `XEmacPs_Start`. `sent` and `untimely` are history variables.

*Multicast filters.* A join or leave changes the mask, then waits for the transmit ring,
then writes the hash: two steps (`update` in between), since an error recovery may come during the
wait and clears the register. A mask is a set of entry numbers; `HashOf` is the hash
function, which makes addresses clash. IPv6 groups of a scope the driver does not know are `OddScope`.
The test for IPv4, `(ip_addr[0] < 224) && (ip_addr[0] > 239)`, is never true and so has no action.
`refused`, `overflowed`, `left` and `recovered` are history variables.

## 3. Runs

| run | module, cfg | result |
|---|---|---|
| `interpreter` | `PtpSync` | `TypeOK`, `SyncedTracksT4`, `Int32Safe`, `DelayReqCarriesT3` hold |
| `tsu_clock` | `TsuClock` | `TypeOK`, `SetLosesOnlyRollovers`, `GetLinearizable` hold |
| `time_service` | `TimeSync` | `TypeOK`, `ServiceConsistent`, `StepsOnFreshCoarse` hold |
| `servo` | `PtpServo` | `TypeOK`, `NeverDrivenOut`, `CorrectionFits`, `IntegralSurvivesAStep`, `EventuallyFine` hold |
| `servo_resync` | `PtpServo`, `PtpServoResync.cfg` | `CoarseErrorIsCorrected` fails |
| `slave_on_network` | `PtpSlave` | `IntegralFits`, `ReportIsRecent` hold; it implements `SlaveClock` |
| `boot` | `TimesyncBoot` | `TypeOK`, `AssertsHoldWithSource`, `ParamsBeforeReports` hold |
| `rx_ring` | `MCEmacRx`, `EmacRx.cfg` | `TypeOK`, `OneOwner`, `SafeUntilDry`, `InStep`, `NeverWedged`, `DeafUntilError`, `DryOnlyWhenShort` hold; it implements `PbufLife`, but for the recovery that frees a stale entry |
| `rx_bd_space` | `MCEmacRx`, `EmacRxBdSpace.cfg` | `BdSpaceSuffices` fails |
| `tx_ring` | `EmacTx` | `TypeOK`, `SlotsMatchRing`, `OpenBdsAreHeld`, `NoFrameHalfOpen`, `CompleteIsSent`, `BlockingOkMeansSent`, `WaitEnds` hold |
| `tx_reset_hang` | `EmacTx`, `EmacTxReset.cfg` | `SentIsAcknowledged` fails |
| `mcast_filter` | `MCMcastFilter`, `McastFilter.cfg` | `TypeOK`, `WantedIsHeard`, `NothingElseIsHeard`, `RefusedOnlyWhenFull` hold |

What they show:

- *Mixing exchanges is harmless for the synced time.* The calculation cancels `t1`,
  `t2` and `t3`: whatever they are, the reported time is `t4`, up to one nanosecond
  of rounding, with a legal nanosecond field. This and the absence of overflows (`Int32Safe`) hold as long as
  the nanoseconds of the stored `t1` and `t4` fit 30 bits. Nothing in `ptp_store_timestamp` sees to that: larger
  ones overflow the `int32_t` on the way, and then only the reported second is sure to be that of `t4`. It also means that the measured path
  delay does not enter the result: the slave follows the master late by the time the
  Delay_Resp took. `ReportIsRecent` is the consequence for a report on a network, and
  `ImplementsSlaveClock` for the clock: before fine status it jumps to a recent time of the
  master, after it it is moved by less than a second, to such a time or from one. `Slack`, the tenth
  of a second and the dead zone by which `SlaveClock` lets a correction miss, is the share of the
  integral; the exchanges of the run are too few for an integral with a share, and there it is 0.
- *The clock is read atomically* although it takes three accesses, and set exactly
  except that a second that begins between the two writes is lost.
- *The loop converges to fine status* from every start and does not drive the clock
  out again, although near the boundary of a second reports alternate between
  the paths. But it does not come to rest: inside the dead zone the register still
  holds the last correction, and it is applied again with every exchange. No run
  states this; the amplitude grows with the dead zone, and iterating the same
  equations with the real boundary of 500 ns gives about 20 microseconds, where the
  comment on `PTP_MAX_ERR_NS` speaks of one.
- *The integral has no limit, and need not have one until the master's time is stepped twice.* One step by any number
  of seconds cannot overflow it (`IntegralSurvivesAStep`); after the second one it may, and the model goes on with
  any value.
- *Fine status is for ever.* A later error of a second or more is reported as a coarse
  time and ignored, and no timeout is scheduled (`servo_resync`).
- *The service's status is consistent* under all orders of its callbacks, and a
  pulse acts on fresh coarse times only, except after 2^31 ms of silence, and except when there never was one: then
  the stamp of 0 passes for a coarse time received at the start, and a pulse in fine status within the first second sets
  the clock to second 1 (`timesync.c:110-118`). `StepsOnFreshCoarse` names both exceptions. The coarse time is
  set in every (N+1)th cycle (`++receive_counter > N`), one later than the comment at `timesync.c:11` says; no run
  is about that comment, and `TypeOK` only says that the counter never passes N.
- *Selecting a source makes the interpreter safe* (`AssertsHoldWithSource`); without one,
  the first Ethernet PTP frame fails an assert of the interpreter and stops the program,
  because the hook is always compiled in. The condition on `clock_source` in the property is that case.
- *Every receive buffer has one owner* as long as no DMA error meets a stale entry of
  `rx_pbufs_storage`, and there is none as long as the pool has not run dry; it runs dry only when
  ring, queue and stack together want more buffers than there are. Then reception may
  stop until the next DMA error, which in turn frees a buffer twice. That recovery takes pbufs from the queue
  or the stack and hands them to the hardware again: the one step that `ImplementsPbufLife` exempts.
- *Frames are received in order until a ring reset finds frames waiting* (`InStep`). After that,
  handler and hardware may be out of step and a new frame overtakes an old one, but they never
  wait for each other (`NeverWedged`), and buffers still move only as `PbufLife` allows.
- *The transmit ring and its tables agree, no frame is half open, and no pbuf is freed
  while the hardware may read it.* The early return in the middle of `emacps_sgsend` (a slot
  still in use) cannot happen, except after `gptp_init` has reset the ring with frames in it.
  That reset halts the transmitter, and the join that follows in `gptp_init` waits
  for these frames for ever (`tx_reset_hang`). An error recovery during a blocking send makes
  it time out instead of reporting success, as `notifyinfo` is left set. A boot or a recovery whose `init_dma` gives up
  leaves a ring the hardware does not know: tables and ring still agree, but a frame sent on it is not acknowledged,
  and a join that waits for it waits for ever (`xemacpsif.c:647`). `WaitEnds` is about the other waits.
- *A wanted group is heard, with three exceptions, all of which happen:* its join found no
  entry (lwIP ignores the result), a group that shares its bit was left later (the PTP address
  included: leaving a group can silence gPTP), or an error recovery cleared the register, which nothing
  fills again. That a mask does not know which entry is whose does no harm:
  entries are never lost (`RefusedOnlyWhenFull`).

Deadlock checking is off where the system stops: after a failed assert (`PtpSync`,
`TimesyncBoot`), once ring and table have come apart (`EmacRx`), and in `PtpSlave` at the
bound on time.

### Bounds

- `PtpSync`: a second of 2 in an `int32_t` of 8 bits (`BYTE` = 4), two second values, so that sums of seconds are odd and even
  and of either sign, and a timestamp has several bytes; nanoseconds of a message on both sides of a second, of 30 bits
  and of the sign bit. The theorems remove the bounds.
- `TsuClock`: a tick of 3 in a second of 4 makes the counter skip and roll over at
  different phases; up to three seconds.
- `TimeSync`: a word of 6 ms and 6 ms of uptime, so that stamps wrap; limit 2, so
  that the counter is exceeded in several ways.
- `PtpServo`: a second of 500 with a dead zone of 1 (the real ratio is two million to
  one; below about 440 the ringing itself crosses a second, which the real ratio
  excludes), a register field of 536 (a little more than a second, as 2^30 ns is),
  starts up to two seconds off, two steps of the master's time, of which the second can take the integral
  beyond an `int32_t` (from about 1.95 seconds to 2.85). The theorems need only that the
  dead zone is at most a 500th of a second and the field holds 21/20 of one (`LoopAssumption`), or
  1.07 seconds for the step (`RegisterHasRoom`).
- `PtpSlave`: a second of 4 ticks, 8 ticks of master time, a delay of up to 2, three messages
  at once, three rounds, one repetition: enough for a Delay_Resp of an earlier
  exchange, for clocks on both sides of a second and for all four status changes.
- `EmacRx`: 3 BDs, 5 buffers, a queue of 2, a stack that holds 3, two errors: the pool
  can be exhausted, the queue full, an error or a reset can meet every situation, and an error can follow one.
  `EmacRxBdSpace.cfg` has the real sizes of `bd_space` (32 chains of 64 KB on aarch64,
  four per call on a GEM version above 2).
- `EmacTx`: 3 BDs, frames of one or two pbufs, reclaim with one free BD or none: the ring
  wraps inside a frame, is full, and has room for one pbuf of two.
- `McastFilter`: two entries and three groups in each family, with clashing bits inside
  a family, between the families, and with the PTP address; any number of joins and errors.

### Fairness

`PtpServo` assumes that exchanges go on (`WF` on coarse reports), that a handler
once begun runs to its end (`WF` on its calls: the main loop is sequential), and that
a difference of less than a second is not always sampled across the boundary of a second
(`SF` on fine reports: the phase of the exchanges moves relative to the second). The master's
messages are not the slave's doing; without them nothing can be promised.

`EmacTx` assumes that a started transmitter that knows its ring goes on (`WF` on `HwTransmit`), that its
interrupt, once connected, is taken (`WF` on `emacps_send_handler`: interrupts are on during both waits), and that
the main loop, being sequential, goes on after the two steps of a send and after a wait whose
condition holds (`WF` on `SubmitFirst` and `HashUpdate`). Nothing is assumed of sends, errors and
timeouts. The other runs check safety only.

## 4. Proofs

Each proof module extends its component and states its theorems as `Spec => []P` or
`Spec => [][A]_vars`. They rest on the assumptions named in the modules: the period is
even and above 1 (`PeriodAssumption`), a byte has at least two values
(`ByteAssumption`), the timestamps fit their bytes (`SecondsAssumption`, `WireAssumption`), an `int32_t` has four of
them (`Int32Assumption`) and holds two seconds (`OverflowAssumption`), the integral does (`ServoAssumption`), a tick is shorter than a second
(`TickAssumption`), the limits of the service are natural numbers
(`TimeSyncAssumption`), the dead zone is small beside a second and the register holds the largest
correction (`LoopAssumption`: 500 ns, a second and 2^30 ns in the code), the rings, pools, queues and
sets of groups have sensible sizes (`RxAssumption`, `TxAssumption`, `FilterAssumption`), and the bounds
on time leave room for a second and are second values a timestamp can hold (`SlaveAssumption`). The
constants of the code satisfy all of them. Two hypotheses are part of the theorems that need them,
`NetworkIsFast` and `RegisterHasRoom`; they are explained below. For every inductive invariant, TLC
found it to hold on the instance of the component's run before it was proved, except for `ControlIInv`,
whose hypothesis asks for a second of at least 1650 ticks.

- `PtpSlave_proofs`, on the interpreter. `TypeOK` is inductive, since what is stored is a clock
  reading or a decoded timestamp (`WireRoundTrip`: decoding inverts encoding for any base).
  `SyncedTimeIsT4` does the arithmetic: delay and offset are halves of a sum and
  a difference with the same parity, so their difference is `t4 - t3` up to
  the rounding of two halves (`HalfDifference`). `SyncedTracksT4` follows from it. `ModerateIsSafe` bounds each
  intermediate result by the range of an `int32_t` when the nanoseconds of `t1` and `t4` have 30 bits; without an overflow the
  calculation is the exact one, and with one only the seconds, which are calculated apart, are claimed.
- `PtpSlave_proofs`, on the slave. `SlaveIInv` dates every message under way: it is at most `MaxDelay`
  old, and a Follow_Up or Delay_Resp carries the time at which it was sent. With `SyncedTimeIsT4` a report
  is such a time (`Reported`, `ReportIsRecent`), and since the clock does not move before the report is
  handled, a report without a second in it is the distance of that time from the clock
  (`FineReportIsDistance`). The master's messages are well formed here, so that no calculation overflows.
  The control loop then sees the master's time less the clock's, minus a delay that varies from report
  to report within `Delays`. `ControlIInv` carries the argument of `PtpServo_proofs` over to it,
  with the dead zone widened by the delay (`Blur`) and with what each state knows blurred by it. It needs
  `NetworkIsFast`: dead zone and delay together are at most a 550th of a second, which for the
  500 ns of the code is a delay of up to 1.8 ms, and the register holds 21/20 of a second. A slower
  network is outside of the theorem, whose bounds on the corrections would reach a second there. From `ControlIInv` follow
  `SlaveIntegralFits` (the integral stays in its `int32_t`), `SlaveStaysClose` (in fine status the clock is less than a second off, the `NeverDrivenOut` of the
  loop, now with a network) and, step by step, `SlaveRefinesClock`: ticks are `Run`, a used coarse report is
  `Jump` (`CoarseSets`), a fine one `Trim`, its notification `Lock`, and all other steps leave
  clock and status alone.
- `TsuClock_proofs`. `IInv` strengthens the type invariant by what a read in progress knows
  (the first second read, and that the nanoseconds read belong to it while it
  lasts) and by how far a write in progress is from the ideal clock. `AdvanceUniform` and
  `AdjustedUniform` say that the registers and the ideal clock, having equal
  nanoseconds, carry at the same moments.
- `TimeSync_proofs`. `IInv` ties the stamp to the true time of the coarse
  reception, or to 0 when there was none, and adds the consistency of status and flag. For
  `StepsOnFreshCoarse`, `WrappedDifference` shows that the signed wrapped age is the
  true one below half the word.

- `PtpServo_proofs`. The danger of the loop is a report inside the dead zone while the register still
  holds a large correction, which is then applied again. After a tuned report the difference is minus
  a twentieth of the integral (`Tuned`); after one in the dead zone it is that report less the old
  correction (`Coasting`); after a whole-second report the integral is 0 (`Restarted`). `IInv` says that
  one of the three holds and that the correction is `Modest`, at most 460 dead zones, wherever the next
  report may fall into the dead zone: a correction is the integral before it, subtracted from 21/20 of
  the one after it, and both are bounded there. `HeldWhenTuned`, `HeldInDeadZone` and
  `HeldWhenRestarted` are the three ways to go on. `NeverDrivenOut`, `CorrectionFits` and, as long as the master's time is not
  stepped, that the integral does not overflow follow (`IntegralNeverOverflows`). `StepIInv` goes on after the first step of the master's
  time: until the next fine report the loop is `Stepped`, a difference of a second or more lasts (whole-second
  reports are ignored), and a smaller one is outside of the dead zone and leads back to `Tuned`. Since
  the integral was below a second before (`IntegralBelowSecond`), it is below two after it, which
  is `OneStepIsSafe`. From the second step on an overflow is possible, and only `ServoTypeCorrect` goes on. The largest correction is then 1.05 seconds and two dead zones,
  so the theorem asks for a register of 1.07 seconds (`RegisterHasRoom`; 2^30 ns is 1.073 seconds).
- `TimesyncBoot_proofs`. `SetupOfSource` says that what has been set up is what the
  selected source sets up, and a source is selected once; with it the asserts of the interpreter
  find their callbacks and a report finds its parameters.
- `McastFilter_proofs`. `EntriesCount` ties the number of entries in a mask to the number of joined
  groups of the family (equal, or at most equal once a join was refused): that is all a mask keeps.
  `UpdateOfGroup` says which group an update under way belongs to, `HashAsked` that every
  bit set was asked for. `RefusedOnlyWhenFull` needs the count alone; the other two need all three.
- `EmacTx_proofs`. The BDs with the hardware are a row of whole frames (`RowOfFrames`), the hardware
  stands between two of them, with the frames behind it marked and those before it open but for the
  one being written (`HwStandsAt`), and a waiting send finds its index in `notifyinfo` until its frame
  is sent (`BlockedIsNoted`). An untimely reset destroys the row until the next recovery from an error. What the
  hardware knows of the ring plays no part in these safety properties, so they hold after a failed `init_dma` too. Each action
  moves an end of the row; the lemmas on `Span`, `Ends` and `SameFrame` say what
  remains of it.
- `EmacRx_proofs`. `Sound` says that every BD with the hardware has a pbuf of its own, apart from queue
  and stack, and that the reference counts tell exactly these. The hardware stands `q` places from
  the handler's head: all BDs up to there are filled (`Ahead`), or, after a reset that found frames,
  those from there on are clear (`Clear`); both hold until such a reset. The lemmas on the refill
  count pbufs, which gives `DryOnlyWhenShort`. `RxImplementsPbufLife` shows step by step
  that each action moves a pbuf along one edge of `PbufLife` (`Place` is the refinement mapping,
  `OwnerFits` ties it to the sets of owners) or leaves all of them where they are; the recovery that finds a stale entry
  does neither, and `ErrorCases` shows that the pool has run dry before it, and the theorem that there is no other such step.

Where an argument needs the first or last element of a set of places (the next end of a frame, the
number of BDs to take), it is the least element by the well-foundedness of the natural numbers;
this needs no induction over an operator.

Only model-checked: liveness (`EventuallyFine`, `WaitEnds`), which the prover does not do. That the
loop converges, and how fast, needs induction over exchanges and stays with TLC; that it does no harm is
proved. Two results go beyond what TLC sees: the few exchanges of `PtpSlave` keep the integral below
the divisor of 20, so that the run shows `SlaveClock` for the proportional part and the theorem for the
integral too; and TLC cannot check the theorem's hypothesis `NetworkIsFast` on a second of 4 ticks, where
the run shows the refinement without it.

## 5. Not modelled

- `ttc_timer.c`: every call of it is disabled.
- `resetrx_on_no_rxdata`: a register workaround for GEM version 2.
- `ethernet.c` beyond who frees a frame and the early return of `ethernet_output`: VLAN tags, flags
  of the pbuf, ARP bookkeeping.
- What follows once receive ring and table have come apart (`corrupt` in `EmacRx`). The step itself is performed, with
  each reference count at 0 after its free; what lwIP makes of a count that is 0 before it is undefined.
- Whether `XEmacPs_Start` sets the queue pointers itself, which would mend a failed `init_dma`: the BSP is not in this
  repository, and `EmacTx` covers both, as a recovery may leave `attached` either way.
  `EmacRx` lets an error be handled also after a boot whose `init_dma` failed, where the interrupt is not connected.
- An allocation of a Delay_Req's pbuf that fails (`ptp.c:138`, not tested for NULL).
- The two rings and the filters in one state: `HashUpdate` in `EmacTx` and `reset_dma` in `EmacRx` stand for
  the same call, and `McastFilter` lets the wait for the ring end at any time.
- lwIP, the BD ring library and the hardware: external, modelled by what the code relies on.
- What nanoseconds of more than 10^9 - 1 do behind the interpreter: `PtpSync` takes any, but the master of `PtpSlave` and
  the reports of `PtpServo` are well formed. Frames shorter than a message.
- Formatting and logging; the CRC and hash helpers of `gptp.c`, which nothing calls.

## 6. Plan

Done, in this order: arithmetic and interpreter; clock; time service; control loop;
slave on a network; start-up; receive ring; proofs of the first three; transmit ring
with both callers of `reset_dma`; multicast filters; ring resets and frame kinds in the
receive ring; the abstract specifications `PbufLife` and `SlaveClock`; proofs of the start-up,
the filters, both rings with the refinement of `PbufLife`, and the control loop; proofs of the slave on
a network with the refinement of `SlaveClock`, and of the control loop across a step of the master's time.

To do: a slave whose clock drifts against the master's between two exchanges (the theorems cover
late reports, not a different rate); and one model of both rings and the filters, so that the
wait of a join is the wait for the transmit ring itself.
