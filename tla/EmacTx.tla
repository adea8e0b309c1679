------------------------------- MODULE EmacTx -------------------------------
(***************************************************************************)
(* The transmit side of the Ethernet driver: the ring of buffer            *)
(* descriptors (BDs), the table of the pbufs handed to them, the reclaim   *)
(* of sent frames, the recovery from errors, and the two callers of        *)
(* reset_dma: the update of the multicast hash, which first waits for the  *)
(* ring to drain, and enable_mac_multicast, which does not.                *)
(*                                                                         *)
(* Frames are sent from the main loop with interrupts off, and the handler *)
(* is the interrupt; the hardware reads BDs all the time.  So a send is    *)
(* two steps, with the hardware between them: all is written but the first *)
(* BD's mark, then that mark is cleared.  The main loop's two busy waits   *)
(* are states of pc, in which the interrupt and the hardware go on.  A     *)
(* frame is a chain of 1 .. MaxChain pbufs, each with a BD of its own.     *)
(* The driver holds one reference for every entry of tx_pbufs_storage; the *)
(* caller has given up its own by the time the frame is on the wire.       *)
(***************************************************************************)
EXTENDS Integers, FiniteSets, FiniteSetsExt

CONSTANTS N_TX_DESC,        \* BDs of the ring
          MaxChain,         \* bound on the pbufs of a frame
          TX_LOW            \* with this many free BDs or fewer, a send reclaims first

ASSUME TxAssumption ==
  /\ N_TX_DESC \in Nat \ {0} /\ TX_LOW \in Nat
  /\ MaxChain \in 1 .. N_TX_DESC

VARIABLES tx,               \* the ring, its BDs and the tables of the driver
          hw_ptr,           \* the BD the hardware looks at next
          active,           \* the transmitter has been started and not yet halted
          pc,               \* "idle", "send", "wait" for an empty ring, "block" for a frame
          opening,          \* the BD whose mark the send under way clears last
          to_block_index,   \* the BD a blocking send waits for
          err,              \* the result of the last send
          attached,         \* the hardware has been told where the ring is
          intr_on,          \* the interrupt has been connected and enabled
          gptp_up,          \* enable_mac_multicast has been called
          sent,             \* history: BDs whose present pbuf has been transmitted
          untimely          \* history: the ring was reset by gptp with frames in it

hardware == <<hw_ptr, active>>
call == <<opening, to_block_index, err>>
dma == <<attached, intr_on>>
vars == <<tx, hardware, pc, call, dma, gptp_up, sent, untimely>>

Bds == 0 .. N_TX_DESC - 1

\* to_block_index of a send that does not wait.
NoIndex == N_TX_DESC

\* Mutant: no wrap at the end of the ring.
BdNoWrap(head, k) == head + k

\* The BD k places after head.
Bd(head, k) == (head + k) % N_TX_DESC

(***************************************************************************)
(* The ring as XEmacPs_BdRingCreate leaves it: all BDs free and marked     *)
(* used.  stored are the non-zero entries of tx_pbufs_storage, notifyinfo  *)
(* those of the table of that name.                                        *)
(***************************************************************************)
NewRing(entries, notify) ==
  [FreeHead |-> 0, PreHead |-> 0, HwHead |-> 0, PreCnt |-> 0, HwCnt |-> 0,
   used |-> Bds, last |-> {}, stored |-> entries, notifyinfo |-> notify]

FreeCnt(r) == N_TX_DESC - r.PreCnt - r.HwCnt

(***************************************************************************)
(* low_level_init.  When the receive side finds too few pbufs, init_dma    *)
(* returns before it tells the hardware of the rings and connects the      *)
(* interrupt; no caller looks at its result.                               *)
(***************************************************************************)
Init ==
  /\ tx = NewRing({}, {})
  /\ intr_on \in BOOLEAN /\ attached = intr_on
  /\ hw_ptr = 0 /\ active = FALSE
  /\ pc = "idle" /\ opening = 0 /\ to_block_index = NoIndex /\ err = "ERR_OK"
  /\ gptp_up = FALSE /\ sent = {} /\ untimely = FALSE

-----------------------------------------------------------------------------

(***************************************************************************)
(* How many BDs at the head of the hardware's group make up complete       *)
(* frames.  The hardware marks the first BD of a frame used when it has    *)
(* sent all of it; the driver marks its last one (external).               *)
(***************************************************************************)
BdRingFromHwTx(r) ==
  LET ends == {0} \cup {k \in 1 .. r.HwCnt : Bd(r.HwHead, k - 1) \in r.last}
  IN  Max({n \in ends : \A k \in ends : k < n => Bd(r.HwHead, k) \in r.used})

Complete(r) == {Bd(r.HwHead, k) : k \in 0 .. BdRingFromHwTx(r) - 1}

\* Mutant: only the BD's first word is written, so the mark stays clear.
ReclaimUnmarked(r) ==
  LET gone == Complete(r)
  IN  [r EXCEPT !.HwHead = Bd(@, Cardinality(gone)), !.HwCnt = @ - Cardinality(gone),
                !.last = @ \ gone, !.stored = @ \ gone, !.notifyinfo = @ \ gone]

(***************************************************************************)
(* Take back the complete frames: mark their BDs used and free the pbufs.  *)
(***************************************************************************)
process_sent_bds(r) ==
  LET gone == Complete(r)
  IN  [r EXCEPT !.HwHead = Bd(@, Cardinality(gone)), !.HwCnt = @ - Cardinality(gone),
                !.used = @ \cup gone, !.last = @ \ gone,
                !.stored = @ \ gone, !.notifyinfo = @ \ gone]

(***************************************************************************)
(* The outcome of a send: the ring, the BDs given a pbuf, whether the loop *)
(* over the pbufs came to its end, and whether the frame was submitted.    *)
(***************************************************************************)
Outcome(r, filled, looped, ok) == [ring |-> r, filled |-> filled, looped |-> looped, ok |-> ok]

\* Mutant: the marks are cleared from the first BD on.
OpenAllButLast(r, n) == {Bd(r.FreeHead, k) : k \in 0 .. n - 2}

(***************************************************************************)
(* The BDs whose marks are cleared at once: all but the first, "the used   *)
(* bit for this BD should be cleared at the end".                          *)
(***************************************************************************)
OpenAllButFirst(r, n) == {Bd(r.FreeHead, k) : k \in 1 .. n - 1}

(***************************************************************************)
(* Every pbuf of the frame gets a BD; an entry of the table still in use   *)
(* ends the send half-way, with the BDs allocated and the earlier pbufs    *)
(* entered.  XEmacPs_BdRingToHw rejects BDs that are not the ones          *)
(* allocated first.                                                        *)
(***************************************************************************)
emacps_sgsend(r, n, block) ==
  LET bd(k) == Bd(r.FreeHead, k)
      all == {bd(k) : k \in 0 .. n - 1}
      busy == {k \in 0 .. n - 1 : bd(k) \in r.stored}
      before == {bd(k) : k \in 0 .. Min(busy) - 1}
      allocated == [r EXCEPT !.FreeHead = bd(n), !.PreCnt = @ + n]
      entered == [allocated EXCEPT
                    !.stored = @ \cup all,
                    !.last = (@ \ all) \cup {bd(n - 1)},
                    !.notifyinfo = IF block THEN @ \cup {bd(n - 1)} ELSE @,
                    !.used = @ \ OpenAllButFirst(r, n)]
  IN  CASE FreeCnt(r) < n -> Outcome(r, {}, FALSE, FALSE)
        [] FreeCnt(r) >= n /\ busy # {} ->
             Outcome([allocated EXCEPT !.stored = @ \cup before, !.last = @ \ before],
                     before, FALSE, FALSE)
        [] FreeCnt(r) >= n /\ busy = {} /\ r.PreHead # r.FreeHead ->
             Outcome(entered, all, TRUE, FALSE)
        [] OTHER ->
             Outcome([entered EXCEPT !.PreHead = bd(n), !.PreCnt = @ - n, !.HwCnt = @ + n],
                     all, TRUE, TRUE)

-----------------------------------------------------------------------------

\* The result of _unbuffered_low_level_output.
UnbufferedErr(s) == IF s.ok THEN "ERR_OK" ELSE "ERR_MEM"

(***************************************************************************)
(* low_level_output.  When the frame could not be entered, a blocking send *)
(* waits on an index it never set, which may be any.                       *)
(***************************************************************************)
AfterSend(block) == IF block THEN "block" ELSE "idle"

low_level_output(n, block) ==
  /\ pc = "idle"
  /\ LET r == IF FreeCnt(tx) <= TX_LOW THEN process_sent_bds(tx) ELSE tx
         s == emacps_sgsend(r, n, block)
     IN  \/ /\ FreeCnt(r) = 0
            /\ tx' = r /\ err' = "ERR_MEM"
            /\ UNCHANGED <<sent, pc, opening, to_block_index>>
         \/ /\ FreeCnt(r) > 0
            /\ tx' = s.ring
            /\ sent' = sent \ s.filled
            /\ err' = UnbufferedErr(s)
            /\ \/ /\ s.looped
                  /\ pc' = "send" /\ opening' = r.FreeHead
                  /\ to_block_index' = IF block THEN Bd(r.FreeHead, n - 1) ELSE NoIndex
               \/ /\ ~s.looped
                  /\ pc' = AfterSend(block)
                  /\ to_block_index' \in IF block THEN Bds ELSE {NoIndex}
                  /\ UNCHANGED opening
  /\ UNCHANGED <<hardware, dma, gptp_up, untimely>>

\* Mutant: the mark of the first BD is never cleared.
SubmitMarked ==
  /\ pc = "send"
  /\ active' = (active \/ err = "ERR_OK")
  /\ pc' = AfterSend(to_block_index # NoIndex) /\ opening' = 0
  /\ UNCHANGED <<tx, hw_ptr, to_block_index, err, dma, gptp_up, sent, untimely>>

\* Mutant: the transmitter is not started.
SubmitUnstarted ==
  /\ pc = "send"
  /\ tx' = [tx EXCEPT !.used = @ \ {opening}]
  /\ pc' = AfterSend(to_block_index # NoIndex) /\ opening' = 0
  /\ UNCHANGED <<hardware, to_block_index, err, dma, gptp_up, sent, untimely>>

(***************************************************************************)
(* The end of emacps_sgsend: the first BD's mark is cleared and, unless    *)
(* XEmacPs_BdRingToHw has failed, the transmitter started.                 *)
(***************************************************************************)
SubmitFirst ==
  /\ pc = "send"
  /\ tx' = [tx EXCEPT !.used = @ \ {opening}]
  /\ active' = (active \/ err = "ERR_OK")
  /\ pc' = AfterSend(to_block_index # NoIndex) /\ opening' = 0
  /\ UNCHANGED <<hw_ptr, to_block_index, err, dma, gptp_up, sent, untimely>>

(***************************************************************************)
(* lwIP sends through ethernet_output, which puts the Ethernet header in   *)
(* front and gives up when there is no room for it; gptp.c calls           *)
(* low_level_output directly.                                              *)
(***************************************************************************)
ethernet_output(n, block) ==
  \/ low_level_output(n, block)
  \/ /\ pc = "idle" /\ err' = "ERR_BUF"
     /\ UNCHANGED <<tx, hardware, pc, opening, to_block_index, dma, gptp_up, sent, untimely>>

\* Mutant: the end of the wait is not looked at, only its length.
BlockEndsEarly ==
  /\ pc = "block"
  /\ pc' = "idle" /\ to_block_index' = NoIndex
  /\ UNCHANGED <<tx, hardware, opening, err, dma, gptp_up, sent, untimely>>

BlockEnds ==
  /\ pc = "block" /\ to_block_index \notin tx.notifyinfo
  /\ pc' = "idle" /\ to_block_index' = NoIndex
  /\ UNCHANGED <<tx, hardware, opening, err, dma, gptp_up, sent, untimely>>

BlockTimesOut ==
  /\ pc = "block" /\ to_block_index \in tx.notifyinfo
  /\ pc' = "idle" /\ to_block_index' = NoIndex /\ err' = "ERR_TIMEOUT"
  /\ UNCHANGED <<tx, hardware, opening, dma, gptp_up, sent, untimely>>

(***************************************************************************)
(* The interrupt after a frame was sent.                                   *)
(***************************************************************************)
emacps_send_handler ==
  /\ intr_on /\ pc # "send" /\ BdRingFromHwTx(tx) > 0
  /\ tx' = process_sent_bds(tx)
  /\ UNCHANGED <<hardware, pc, call, dma, gptp_up, sent, untimely>>

(***************************************************************************)
(* The hardware sends the frame at hw_ptr and marks its first BD used, or  *)
(* halts: at a used BD, at the start of a frame or within one.  Before it  *)
(* has been told of a ring it does nothing (external).                     *)
(***************************************************************************)
FrameEnds(r, b) == {k \in 1 .. N_TX_DESC : Bd(b, k - 1) \in r.last}
FrameAt(r, b) == {Bd(b, k) : k \in 0 .. Min(FrameEnds(r, b)) - 1}
IsOpen(r, b) == FrameEnds(r, b) # {} /\ FrameAt(r, b) \cap r.used = {}

HwTransmit ==
  /\ active /\ attached
  /\ \/ /\ IsOpen(tx, hw_ptr)
        /\ tx' = [tx EXCEPT !.used = @ \cup {hw_ptr}]
        /\ hw_ptr' = Bd(hw_ptr, Min(FrameEnds(tx, hw_ptr)))
        /\ sent' = sent \cup FrameAt(tx, hw_ptr)
        /\ UNCHANGED active
     \/ /\ ~IsOpen(tx, hw_ptr)
        /\ active' = FALSE
        /\ UNCHANGED <<tx, hw_ptr, sent>>
  /\ UNCHANGED <<pc, call, dma, gptp_up, untimely>>

-----------------------------------------------------------------------------

free_onlytx_pbufs(r) == [r EXCEPT !.stored = {}]

clean_dma_txdescs(r) == NewRing(r.stored, r.notifyinfo)

(***************************************************************************)
(* What the two error handlers do to the ring: every pbuf of the table is  *)
(* freed and the ring is made anew, while notifyinfo stays.  The hardware  *)
(* goes back to the first BD.  A blocking send under way that an untimely  *)
(* reset has misled is still misled.                                       *)
(***************************************************************************)
RenewRing ==
  /\ intr_on /\ pc # "send"
  /\ tx' = clean_dma_txdescs(free_onlytx_pbufs(tx))
  /\ hw_ptr' = 0 /\ active' = FALSE
  /\ sent' = sent \ tx.stored /\ untimely' = (untimely /\ pc = "block")
  /\ UNCHANGED <<pc, call, intr_on, gptp_up>>

(***************************************************************************)
(* HandleTxErrors turns the transmitter off and on, and the hardware knows *)
(* as much of the ring as before.                                          *)
(***************************************************************************)
HandleTxErrors == RenewRing /\ UNCHANGED attached

(***************************************************************************)
(* HandleEmacPsError resets the device and makes the rings at another      *)
(* place of bd_space.  When the pool of the receive side runs dry init_dma *)
(* returns early, nobody looks, and the hardware is not told of the ring.  *)
(***************************************************************************)
HandleEmacPsError == RenewRing /\ attached' \in BOOLEAN

(***************************************************************************)
(* Between XEmacPs_Stop and XEmacPs_Start the pointers of the ring and of  *)
(* the hardware go back to the first BD; the counts, the BDs and the table *)
(* stay.  Only the next send starts the transmitter again.                 *)
(***************************************************************************)
reset_dma ==
  /\ tx' = [tx EXCEPT !.FreeHead = 0, !.PreHead = 0, !.HwHead = 0]
  /\ hw_ptr' = 0 /\ active' = FALSE /\ attached' = TRUE

BeginHashUpdate ==
  /\ pc = "idle" /\ pc' = "wait"
  /\ UNCHANGED <<tx, hardware, call, dma, gptp_up, sent, untimely>>

\* Mutant: the reset does not wait for the ring to drain.
HashUpdateAtOnce ==
  /\ pc = "wait"
  /\ reset_dma
  /\ pc' = "idle"
  /\ UNCHANGED <<call, intr_on, gptp_up, sent, untimely>>

(***************************************************************************)
(* A multicast group is joined or left: xemacpsif_mac_hash_update.         *)
(***************************************************************************)
HashUpdate ==
  /\ pc = "wait" /\ tx.HwCnt = 0
  /\ reset_dma
  /\ pc' = "idle"
  /\ UNCHANGED <<call, intr_on, gptp_up, sent, untimely>>

(***************************************************************************)
(* while(txring->HwCnt), once more round.                                  *)
(***************************************************************************)
WaitOn == pc = "wait" /\ tx.HwCnt > 0 /\ UNCHANGED vars

(***************************************************************************)
(* gptp_init, which the program calls once: enable_mac_multicast, then the *)
(* other set-up, then it joins the PTP group.  The join updates the hash,  *)
(* or is refused for want of an entry in the mask, and then nothing waits. *)
(***************************************************************************)
enable_mac_multicast ==
  /\ pc = "idle" /\ ~gptp_up
  /\ gptp_up' = TRUE
  /\ reset_dma
  /\ untimely' = (tx.HwCnt > 0)
  /\ pc' \in {"wait", "idle"}
  /\ UNCHANGED <<call, intr_on, sent>>

Next ==
  \/ \E n \in 1 .. MaxChain, block \in BOOLEAN : ethernet_output(n, block)
  \/ SubmitFirst
  \/ BlockEnds \/ BlockTimesOut
  \/ emacps_send_handler
  \/ HwTransmit
  \/ HandleTxErrors \/ HandleEmacPsError
  \/ BeginHashUpdate \/ WaitOn \/ HashUpdate
  \/ enable_mac_multicast

(***************************************************************************)
(* A started transmitter sends, its interrupt is taken, and a busy wait    *)
(* whose condition holds comes to its end.                                 *)
(***************************************************************************)
Fairness ==
  /\ WF_vars(HwTransmit)
  /\ WF_vars(emacps_send_handler)
  /\ WF_vars(SubmitFirst)
  /\ WF_vars(HashUpdate)

Spec == Init /\ [][Next]_vars /\ Fairness

-----------------------------------------------------------------------------

WithHw == {Bd(tx.HwHead, k) : k \in 0 .. tx.HwCnt - 1}

(***************************************************************************)
(* The heads stay on the ring and its groups of BDs within its size.       *)
(***************************************************************************)
TypeOK ==
  /\ tx \in [FreeHead : Bds, PreHead : Bds, HwHead : Bds,
             PreCnt : 0 .. N_TX_DESC, HwCnt : 0 .. N_TX_DESC,
             used : SUBSET Bds, last : SUBSET Bds, stored : SUBSET Bds,
             notifyinfo : SUBSET Bds]
  /\ FreeCnt(tx) >= 0
  /\ hw_ptr \in Bds /\ active \in BOOLEAN
  /\ pc \in {"idle", "send", "wait", "block"}
  /\ opening \in Bds /\ to_block_index \in Bds \cup {NoIndex}
  /\ err \in {"ERR_OK", "ERR_MEM", "ERR_BUF", "ERR_TIMEOUT"}
  /\ attached \in BOOLEAN /\ intr_on \in BOOLEAN
  /\ gptp_up \in BOOLEAN /\ sent \subseteq Bds /\ untimely \in BOOLEAN

(***************************************************************************)
(* Unless enable_mac_multicast met frames under way, tx_pbufs_storage has  *)
(* an entry for exactly the BDs with the hardware, and no BD is stuck      *)
(* between allocation and submission: no send of emacps_sgsend ever ends   *)
(* half-way, whatever the mix of sends, reclaims, errors, timeouts and     *)
(* updates of the hash, each of which moves the pointers of the ring.      *)
(***************************************************************************)
SlotsMatchRing ==
  ~untimely => /\ tx.PreCnt = 0
               /\ tx.stored = WithHw
               /\ tx.PreHead = tx.FreeHead
               /\ tx.FreeHead = Bd(tx.HwHead, tx.HwCnt)

(***************************************************************************)
(* A BD the hardware is free to read always has its pbuf held in the       *)
(* table, also after an untimely reset: no freed memory goes on the wire.  *)
(***************************************************************************)
OpenBdsAreHeld == Bds \ tx.used \subseteq tx.stored

(***************************************************************************)
(* A frame whose first BD the hardware may read can be read to its end,    *)
(* even while emacps_sgsend is still at work: a transmitter that is        *)
(* running never meets a used BD in the middle of a frame.                 *)
(***************************************************************************)
NoFrameHalfOpen ==
  active /\ ~untimely => IsOpen(tx, hw_ptr) \/ hw_ptr \in tx.used

(***************************************************************************)
(* Whenever process_sent_bds may run, what it takes for sent has been      *)
(* sent: the marks that emacps_sgsend clears and the hardware sets let no  *)
(* part of a frame of several pbufs pass for the whole.                    *)
(***************************************************************************)
CompleteIsSent == ~untimely /\ pc # "send" => Complete(tx) \subseteq sent

(***************************************************************************)
(* A blocking send that returns ERR_OK has waited until its frame was sent *)
(* and its pbuf given back.  An error recovery in between frees the pbuf   *)
(* and leaves notifyinfo alone, so that the send times out.                *)
(***************************************************************************)
BlockingOkMeansSent ==
  [][pc = "block" /\ pc' = "idle" /\ err' = "ERR_OK" /\ ~untimely =>
       to_block_index \in sent \ tx.stored]_vars

(***************************************************************************)
(* The wait for an empty ring comes to its end: when there is nothing to   *)
(* wait for, or else if the interrupt was connected and the hardware was   *)
(* told of the ring.  After an untimely reset, and on a ring that an       *)
(* init_dma without enough pbufs has left unknown, a frame may keep it     *)
(* waiting for ever.                                                       *)
(***************************************************************************)
WaitEnds ==
  (pc = "wait" /\ ~untimely /\ (tx.HwCnt > 0 => attached /\ intr_on)) ~> pc # "wait"

(***************************************************************************)
(* What the comment in xemacpsif_mac_hash_update says: it waits till all   *)
(* sent packets are acknowledged.  Every wait comes to its end, if the     *)
(* hardware knows the ring and its interrupt is taken.                     *)
(***************************************************************************)
SentIsAcknowledged == (pc = "wait" /\ attached /\ intr_on) ~> (pc # "wait")

=============================================================================
