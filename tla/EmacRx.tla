------------------------------- MODULE EmacRx -------------------------------
(***************************************************************************)
(* The receive side of the Ethernet driver: the ring of buffer descriptors *)
(* (BDs), the table of the pbufs handed to them, the queue between the     *)
(* interrupt handler and the main loop, the recovery from DMA errors, and  *)
(* reset_dma, with which a change of the multicast hash ends.              *)
(*                                                                         *)
(* The handlers run with interrupts off or in the interrupt itself, and so *)
(* are single steps; the hardware fills BDs between them, in ring order,   *)
(* until it comes to one whose "new" bit the driver has not cleared yet.   *)
(* A BD is either with the hardware or free: every handler that takes one  *)
(* from the ring puts it back before it returns.                           *)
(***************************************************************************)
EXTENDS Integers, Sequences, FiniteSets, FiniteSetsExt, Functions

CONSTANTS N_RX_DESC,        \* BDs of the ring
          Pbufs, NULL,      \* the pbufs of PBUF_POOL, the null pointer
          PQ_QUEUE_SIZE,    \* capacity of recv_q
          MaxHeld,          \* most pbufs the stack holds on to
          BD_SPACE,         \* chains of 64 KB that bd_space has room for
          CHAINS,           \* chains that one init_dma takes
          MaxErrors         \* bound on the DMA errors

ASSUME RxAssumption ==
  /\ N_RX_DESC \in Nat \ {0} /\ PQ_QUEUE_SIZE \in Nat /\ MaxHeld \in Nat
  /\ IsFiniteSet(Pbufs) /\ NULL \notin Pbufs
  /\ BD_SPACE \in Nat /\ CHAINS \in {2, 4} /\ MaxErrors \in Nat

VARIABLES hw_head, hw_cnt,  \* the BDs with the hardware: hw_cnt from hw_head on
          hw_ptr,           \* the BD the hardware fills next
          filled,           \* BDs whose "new" bit is set
          rx_pbufs_storage, \* the pbuf last handed to each BD
          ref,              \* reference count of each pbuf, 0 in the pool
          recv_q,           \* pbufs received and not yet taken by the main loop
          held,             \* pbufs taken and not yet freed by the stack
          bd_space_index,   \* in chains of 64 KB
          dma_ready,        \* the last init_dma returned 0
          errors,           \* DMA errors so far
          corrupt,          \* ring and table have come apart: not followed further
          dry,              \* history: the pool has run dry at a refill
          shuffled          \* history: a reset has found frames in the ring

ring == <<hw_head, hw_cnt, hw_ptr, filled, rx_pbufs_storage>>
vars == <<ring, ref, recv_q, held, bd_space_index, dma_ready, errors, corrupt, dry, shuffled>>

Bds == 0 .. N_RX_DESC - 1

\* Mutant: no wrap at the end of the ring.
BdNoWrap(head, k) == head + k

\* The BD k places after head.
Bd(head, k) == (head + k) % N_RX_DESC

WithHw == {Bd(hw_head, k) : k \in 0 .. hw_cnt - 1}

Pool(refs) == {p \in Pbufs : refs[p] = 0}

pbuf_free(refs, ps) == [p \in Pbufs |-> IF p \in ps THEN refs[p] - 1 ELSE refs[p]]

Init ==
  /\ hw_head = 0 /\ hw_cnt = 0 /\ hw_ptr = 0 /\ filled = {}
  /\ rx_pbufs_storage = [i \in Bds |-> NULL]
  /\ ref = [p \in Pbufs |-> 0]
  /\ recv_q = <<>> /\ held = {}
  /\ bd_space_index = 0 /\ dma_ready = FALSE
  /\ errors = 0 /\ corrupt = FALSE /\ dry = FALSE /\ shuffled = FALSE

-----------------------------------------------------------------------------

\* Mutant: the last free BD is left out.
FreeCntLess(cnt) == IF cnt + 1 < N_RX_DESC THEN N_RX_DESC - cnt - 1 ELSE N_RX_DESC - cnt

FreeCnt(cnt) == N_RX_DESC - cnt

(***************************************************************************)
(* The ring after its free BDs, those behind the cnt ones from head on,    *)
(* were given pbufs of the pool, as many as it has.                        *)
(***************************************************************************)
Refill(head, cnt, refs, new) ==
  LET stock == Cardinality(Pool(refs))
      got == IF stock < FreeCnt(cnt) THEN stock ELSE FreeCnt(cnt)
      place(b) == (b - head - cnt) % N_RX_DESC
  IN  \E fresh \in [0 .. got - 1 -> Pool(refs)] :
        /\ IsInjective(fresh)
        /\ rx_pbufs_storage' =
             [b \in Bds |-> IF place(b) < got THEN fresh[place(b)] ELSE rx_pbufs_storage[b]]
        /\ filled' = {b \in new : place(b) >= got}
        /\ ref' = [p \in Pbufs |-> IF p \in Range(fresh) THEN 1 ELSE refs[p]]
        /\ hw_head' = head /\ hw_cnt' = cnt + got
        /\ dry' = (dry \/ stock < N_RX_DESC - cnt)

setup_rx_bds(head, cnt, refs) == Refill(head, cnt, refs, filled)

(***************************************************************************)
(* New rings at the next place of bd_space, every BD with a pbuf.  When    *)
(* the pool runs dry init_dma returns early, its callers do not look, and  *)
(* the hardware is never told where the ring is.                           *)
(***************************************************************************)
init_dma(refs) ==
  /\ bd_space_index' = bd_space_index + CHAINS
  /\ Refill(0, 0, refs, {})
  /\ hw_ptr' = 0 /\ shuffled' = FALSE
  /\ dma_ready' = (hw_cnt' = N_RX_DESC)

low_level_init ==
  /\ bd_space_index = 0
  /\ init_dma(ref)
  /\ UNCHANGED <<recv_q, held, errors, corrupt>>

(***************************************************************************)
(* The hardware fills the next BD (external).                              *)
(***************************************************************************)
Receive ==
  /\ ~corrupt /\ dma_ready /\ hw_ptr \notin filled
  /\ filled' = filled \cup {hw_ptr}
  /\ hw_ptr' = Bd(hw_ptr, 1)
  /\ UNCHANGED <<hw_head, hw_cnt, rx_pbufs_storage, ref, recv_q, held,
                 bd_space_index, dma_ready, errors, corrupt, dry, shuffled>>

-----------------------------------------------------------------------------

\* Mutant: BDs are counted from the other end of the hardware's group too.
FromHwAnyOrder(new) == Cardinality(new \cap WithHw)

(***************************************************************************)
(* How many BDs at the head of the hardware's group are new, up to the     *)
(* first that is not (external).                                           *)
(***************************************************************************)
BdRingFromHwRx(new) ==
  Max({n \in 0 .. hw_cnt : \A k \in 0 .. n - 1 : Bd(hw_head, k) \in new})

\* Mutant: the ring is refilled at every interrupt.
AnyInterrupt(n) == dma_ready

(***************************************************************************)
(* The loop of the handler has a body only when BDs come back.             *)
(***************************************************************************)
SomeProcessed(n) == n > 0

\* Mutant: a pbuf that found no room in the queue is not freed.
DropForgotten(refs, frames, room) == refs

(***************************************************************************)
(* pq_enqueue fails when the queue is full; such a pbuf is freed.          *)
(***************************************************************************)
DropRest(refs, frames, room) ==
  pbuf_free(refs, {frames[i] : i \in room + 1 .. Len(frames)})

(***************************************************************************)
(* One round of the loop in emacps_recv_handler; the entries of            *)
(* rx_pbufs_storage stay as they are until the BD is used again.           *)
(***************************************************************************)
emacps_recv_handler ==
  LET n == BdRingFromHwRx(filled)
      frames == [i \in 1 .. n |-> rx_pbufs_storage[Bd(hw_head, i - 1)]]
      free == PQ_QUEUE_SIZE - Len(recv_q)
      room == IF n < free THEN n ELSE free
  IN  /\ ~corrupt /\ SomeProcessed(n)
      /\ recv_q' = recv_q \o SubSeq(frames, 1, room)
      /\ setup_rx_bds(Bd(hw_head, n), hw_cnt - n, DropRest(ref, frames, room))
      /\ UNCHANGED <<hw_ptr, held, bd_space_index, dma_ready, errors, corrupt, shuffled>>

\* Mutant: the type the stack does not know is reported to the driver.
InputReportsUnknown(kind, keep) ==
  [frees |-> IF kind = "ip" /\ keep THEN 0 ELSE 1,
   err |-> IF kind = "ptp" THEN "ERR_ARG" ELSE "ERR_OK"]

(***************************************************************************)
(* ethernet_input frees a frame too short for its header.  IP keeps a      *)
(* frame or frees it, ARP and the hook for PTP free it; whatever happened, *)
(* the result is ERR_OK, so that the driver does not free it again.        *)
(***************************************************************************)
ethernet_input(kind, keep) ==
  [frees |-> IF kind = "ip" /\ keep THEN 0 ELSE 1, err |-> "ERR_OK"]

Kinds == {"short", "ip", "arp", "ptp", "other"}

(***************************************************************************)
(* xemacpsif_input takes one pbuf, passes on the types it knows and frees  *)
(* the others, as well as what the stack did not take.                     *)
(***************************************************************************)
xemacpsif_input(kind, keep) ==
  /\ ~corrupt /\ recv_q # <<>> /\ (keep => Cardinality(held) < MaxHeld)
  /\ recv_q' = Tail(recv_q)
  /\ LET p == Head(recv_q)
         in == ethernet_input(kind, keep)
         freed == CASE kind = "other" -> 1
                    [] kind # "other" /\ in.err = "ERR_OK" -> in.frees
                    [] OTHER -> in.frees + 1
     IN  /\ ref' = [ref EXCEPT ![p] = @ - freed]
         /\ held' = IF freed = 0 THEN held \cup {p} ELSE held
  /\ UNCHANGED <<ring, bd_space_index, dma_ready, errors, corrupt, dry, shuffled>>

StackFrees ==
  /\ ~corrupt
  /\ \E p \in held : /\ held' = held \ {p}
                     /\ ref' = pbuf_free(ref, {p})
  /\ UNCHANGED <<ring, recv_q, bd_space_index, dma_ready, errors, corrupt, dry, shuffled>>

(***************************************************************************)
(* The references after every entry of the table was freed, also one whose *)
(* BD has given its pbuf away and got no other since: the pbuf is in the   *)
(* queue, with the stack, in the pool or in another BD, and goes to the    *)
(* pool all the same.  What lwIP makes of a second free is undefined.      *)
(***************************************************************************)
free_txrx_pbufs ==
  [p \in Pbufs |-> IF p \in Range(rx_pbufs_storage) THEN 0 ELSE ref[p]]

StaleEntry == \E b \in Bds \ WithHw : rx_pbufs_storage[b] # NULL

(***************************************************************************)
(* The new ring takes pbufs of that pool.  If there was a stale entry,     *)
(* they may be in use, or the pool may be damaged.                         *)
(***************************************************************************)
HandleEmacPsError ==
  /\ ~corrupt /\ bd_space_index > 0 /\ errors < MaxErrors
  /\ errors' = errors + 1
  /\ init_dma(free_txrx_pbufs)
  /\ corrupt' = StaleEntry
  /\ UNCHANGED <<recv_q, held>>

(***************************************************************************)
(* reset_dma takes the pointers of ring and hardware to the first BD, and  *)
(* leaves the counts, the BDs and the table as they are.  With BDs that    *)
(* have no buffer, the free ones and those of the hardware begin at the    *)
(* same BD from then on, or the hardware gets a BD without an address.     *)
(***************************************************************************)
BdsMissing == hw_cnt < N_RX_DESC /\ ~(hw_cnt = 0 /\ dma_ready)

\* Mutant: the hardware is not told.
QueuePtrKept == hw_ptr

\* XEmacPs_SetQueuePtr with the first BD.
QueuePtr == 0

reset_dma ==
  /\ ~corrupt /\ bd_space_index > 0
  /\ \/ /\ BdsMissing
        /\ corrupt' = TRUE
        /\ UNCHANGED <<ring, dma_ready, shuffled>>
     \/ /\ ~BdsMissing
        /\ hw_head' = 0 /\ hw_ptr' = QueuePtr /\ dma_ready' = TRUE
        /\ shuffled' = (shuffled \/ filled # {})
        /\ UNCHANGED <<hw_cnt, filled, rx_pbufs_storage, corrupt>>
  /\ UNCHANGED <<ref, recv_q, held, bd_space_index, errors, dry>>

Next ==
  \/ low_level_init
  \/ Receive
  \/ emacps_recv_handler
  \/ \E kind \in Kinds, keep \in BOOLEAN : xemacpsif_input(kind, keep)
  \/ StackFrees
  \/ HandleEmacPsError
  \/ reset_dma

Spec == Init /\ [][Next]_vars

-----------------------------------------------------------------------------

InRing == {rx_pbufs_storage[b] : b \in WithHw}
Queued == Range(recv_q)

(***************************************************************************)
(* The indices stay on the ring and the counts within it; a pbuf has at    *)
(* most one reference; the queue keeps to its capacity.                    *)
(***************************************************************************)
TypeOK ==
  /\ hw_head \in Bds /\ hw_cnt \in 0 .. N_RX_DESC
  /\ hw_ptr \in Bds /\ filled \subseteq Bds
  /\ rx_pbufs_storage \in [Bds -> Pbufs \cup {NULL}]
  /\ ref \in [Pbufs -> 0 .. 1]
  /\ recv_q \in Seq(Pbufs) /\ Len(recv_q) <= PQ_QUEUE_SIZE
  /\ held \subseteq Pbufs
  /\ dma_ready \in BOOLEAN /\ corrupt \in BOOLEAN
  /\ dry \in BOOLEAN /\ shuffled \in BOOLEAN

(***************************************************************************)
(* Every pbuf has exactly one owner: it is in one BD that is with the      *)
(* hardware, or once in the queue, or with the stack, or in the pool.      *)
(* None is lost, none is shared, across batches, full queues, an exhausted *)
(* pool and DMA errors, until an error finds a stale entry.                *)
(***************************************************************************)
OneOwner ==
  ~corrupt =>
    /\ Cardinality(InRing) = hw_cnt
    /\ Cardinality(Queued) = Len(recv_q)
    /\ InRing \cap Queued = {} /\ InRing \cap held = {} /\ Queued \cap held = {}
    /\ InRing \cup Queued \cup held = Pbufs \ Pool(ref)

(***************************************************************************)
(* As long as no refill has found the pool empty, every BD is with the     *)
(* hardware and a DMA error is recovered from without a double free.       *)
(***************************************************************************)
SafeUntilDry == ~dry => ~corrupt /\ (bd_space_index > 0 => hw_cnt = N_RX_DESC)

(***************************************************************************)
(* A refill finds the pool empty only when the ring, the queue and the     *)
(* stack together ask for more pbufs than there are: none of the ways a    *)
(* frame can take loses one.                                               *)
(***************************************************************************)
DryOnlyWhenShort ==
  [][dry' /\ ~dry => Cardinality(Pbufs) < N_RX_DESC + Len(recv_q') + Cardinality(held')]_vars

(***************************************************************************)
(* Until a reset finds frames in the ring, the handler takes the frames in *)
(* the order of their arrival: those waiting are the ones from its head    *)
(* on, and the hardware goes on right behind them.                         *)
(***************************************************************************)
InStep ==
  ~corrupt /\ ~shuffled /\ hw_cnt > 0 =>
    LET n == BdRingFromHwRx(filled)
    IN  /\ filled \cap WithHw = {Bd(hw_head, k) : k \in 0 .. n - 1}
        /\ hw_ptr = Bd(hw_head, n)

(***************************************************************************)
(* However a reset shuffled the ring, the hardware never waits for the     *)
(* handler to clear a BD while the handler waits for the hardware.         *)
(***************************************************************************)
NeverWedged ==
  ~corrupt /\ hw_cnt = N_RX_DESC /\ hw_ptr \in filled => hw_head \in filled

(***************************************************************************)
(* Reception that has lost its last BD is not resumed by any interrupt,    *)
(* nor by pbufs coming back to the pool: only a DMA error restores it.     *)
(***************************************************************************)
DeafUntilError ==
  [][bd_space_index > 0 /\ hw_cnt = 0 /\ errors' = errors => hw_cnt' = 0]_vars

(***************************************************************************)
(* What the comment on bd_space says: the chains take up a fixed part of   *)
(* it and the rest is unused, so every ring lies within it.                *)
(***************************************************************************)
BdSpaceSuffices == bd_space_index <= BD_SPACE

(***************************************************************************)
(* Where a pbuf is.  A pbuf without a reference is in the pool and one in  *)
(* the ring with the hardware, even if the queue or the stack has it, too. *)
(***************************************************************************)
Place(p) ==
  CASE ref[p] = 0 -> "pool"
    [] ref[p] # 0 /\ p \in InRing ->
         IF \E b \in WithHw \ filled : rx_pbufs_storage[b] = p THEN "armed" ELSE "filled"
    [] ref[p] # 0 /\ p \notin InRing /\ p \in Queued -> "queue"
    [] OTHER -> "stack"

Owner == [p \in Pbufs |-> Place(p)]

Life == INSTANCE PbufLife WITH owner <- Owner

(***************************************************************************)
(* The driver implements PbufLife: no pbuf takes a short cut from one      *)
(* place to another, whatever batches, drops, errors and resets do.  The   *)
(* exception is the step with which ring and table come apart, once the    *)
(* pool has run dry: HandleEmacPsError then frees pbufs that the queue or  *)
(* the stack still has, and hands them to the hardware again.              *)
(***************************************************************************)
ImplementsPbufLife == Life!Init /\ [][Life!Next \/ (dry /\ corrupt')]_Owner

=============================================================================
