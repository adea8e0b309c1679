----------------------------- MODULE SlaveClock -----------------------------
(***************************************************************************)
(* What a PTP slave promises of its clock, with no word about messages,    *)
(* exchanges or registers: until it is locked it may jump to the master's  *)
(* time, once it is locked it is only ever moved by less than a second and *)
(* some slack, and in between it runs.  "The master's time" is the time of *)
(* at most Lag ago, give or take a nanosecond of rounding.                 *)
(***************************************************************************)
EXTENDS Integers

CONSTANTS Second,           \* nanoseconds of a second
          Lag,              \* how old a time of the master may be
          Slack,            \* how far a correction may miss it
          Starts            \* the master's time at the start

VARIABLES now, clock,       \* the master's time and the slave's, in nanoseconds
          locked            \* the slave has found fine time

vars == <<now, clock, locked>>

Recent(c) == now - c \in -1 .. Lag + 1

NearRecent(c) == now - c \in -(Slack + 1) .. Lag + 1 + Slack

Init == now \in Starts /\ clock = 0 /\ locked = FALSE

Run == now' = now + 1 /\ clock' = clock + 1 /\ UNCHANGED locked

(***************************************************************************)
(* The clock is set to a time of the master.  When that is the very start  *)
(* of a second, the clock may keep its own nanoseconds.                    *)
(***************************************************************************)
Jump ==
  /\ ~locked
  /\ \/ Recent(clock')
     \/ clock' % Second = clock % Second /\ Recent(clock' - (clock' % Second))
  /\ UNCHANGED <<now, locked>>

(***************************************************************************)
(* A correction of hardly more than a second brings the clock near a time  *)
(* of the master, or repeats an earlier correction on a clock that shows   *)
(* one.                                                                    *)
(***************************************************************************)
Trim ==
  /\ NearRecent(clock') \/ NearRecent(clock)
  /\ clock' - clock \in 1 - Second - Slack .. Second + Slack - 1
  /\ UNCHANGED <<now, locked>>

Lock == locked' = TRUE /\ UNCHANGED <<now, clock>>

Next == Run \/ Jump \/ Trim \/ Lock

Spec == Init /\ [][Next]_vars

=============================================================================
