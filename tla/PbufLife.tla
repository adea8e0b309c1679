------------------------------ MODULE PbufLife ------------------------------
(***************************************************************************)
(* What the receive side of the Ethernet driver promises of the pbufs of   *)
(* the pool: each is in one place at a time and goes from place to place   *)
(* only as listed here.  In particular the hardware writes to a pbuf only  *)
(* between its being armed and its first frame, the queue gets only pbufs  *)
(* with a frame in them, and what the queue and the stack have is touched  *)
(* by nobody else.                                                         *)
(***************************************************************************)
CONSTANT Pbufs

VARIABLE owner

Places == {"pool", "armed", "filled", "queue", "stack"}

Init == owner = [p \in Pbufs |-> "pool"]

Moves(allowed) ==
  /\ owner' \in [Pbufs -> Places]
  /\ \A p \in Pbufs : owner'[p] # owner[p] => <<owner[p], owner'[p]>> \in allowed

MovesOne(from, to) ==
  \E p \in Pbufs : owner[p] = from /\ owner' = [owner EXCEPT ![p] = to]

(***************************************************************************)
(* The hardware writes a frame.                                            *)
(***************************************************************************)
Arrive == MovesOne("armed", "filled")

(***************************************************************************)
(* Frames go to the queue or, when it is full, back to the pool, and pbufs *)
(* of the pool, among them the ones just freed, take their place.          *)
(***************************************************************************)
Collect ==
  /\ \E p \in Pbufs : owner[p] = "filled" /\ owner'[p] # "filled"
  /\ Moves({<<"filled", "queue">>, <<"filled", "pool">>, <<"filled", "armed">>,
            <<"pool", "armed">>})

Deliver == MovesOne("queue", "stack") \/ MovesOne("queue", "pool")

Release == MovesOne("stack", "pool")

(***************************************************************************)
(* The ring is made anew: its frames are lost and the pbufs shuffled.      *)
(***************************************************************************)
Renew ==
  Moves({<<"armed", "pool">>, <<"filled", "pool">>, <<"filled", "armed">>, <<"pool", "armed">>})

Next == Arrive \/ Collect \/ Deliver \/ Release \/ Renew

Spec == Init /\ [][Next]_owner

=============================================================================
