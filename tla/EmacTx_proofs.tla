--------------------------- MODULE EmacTx_proofs ---------------------------
(***************************************************************************)
(* Proofs about the transmit side of the Ethernet driver, for a ring of    *)
(* any size, frames of any length and any interleaving of the main loop,   *)
(* the interrupt, the hardware, errors and resets.                         *)
(***************************************************************************)
EXTENDS EmacTx, FiniteSetTheorems, TLAPS

\* The c BDs from h on.
Span(h, c) == {Bd(h, k) : k \in 0 .. c - 1}

RingType ==
  [FreeHead : Bds, PreHead : Bds, HwHead : Bds,
   PreCnt : 0 .. N_TX_DESC, HwCnt : 0 .. N_TX_DESC,
   used : SUBSET Bds, last : SUBSET Bds, stored : SUBSET Bds, notifyinfo : SUBSET Bds]

RingOK(r) == r \in RingType /\ FreeCnt(r) >= 0

Slots(r) ==
  /\ r.PreCnt = 0
  /\ r.stored = Span(r.HwHead, r.HwCnt)
  /\ r.PreHead = r.FreeHead
  /\ r.FreeHead = Bd(r.HwHead, r.HwCnt)

Held(r) == Bds \ r.used \subseteq r.stored

(***************************************************************************)
(* The hardware's group of BDs is a row of frames.  Ends are the places at *)
(* which one frame ends and the next begins, counted from its head.        *)
(***************************************************************************)
Ends(r) == {0} \cup {k \in 1 .. r.HwCnt : Bd(r.HwHead, k - 1) \in r.last}

\* Places k .. j belong to one frame.
SameFrame(r, k, j) == k <= j /\ \A e \in Ends(r) : ~(k < e /\ e <= j)

(***************************************************************************)
(* A frame whose first BD is marked has been transmitted to its end; done  *)
(* are the BDs transmitted, and closed is the first BD of a frame that     *)
(* emacps_sgsend is still at work on.                                      *)
(***************************************************************************)
MarkedIsSent(r, closed, done) ==
  \A k \in Ends(r), j \in 0 .. r.HwCnt - 1 :
    SameFrame(r, k, j) /\ Bd(r.HwHead, k) \in r.used \ closed => Bd(r.HwHead, j) \in done

(***************************************************************************)
(* The hardware's group ends with a frame, in front of the next BD to be   *)
(* submitted, and all of its pbufs are held.                               *)
(***************************************************************************)
RowOfFrames(r, closed, done) ==
  /\ r.HwCnt \in Ends(r)
  /\ r.PreHead = Bd(r.HwHead, r.HwCnt)
  /\ Span(r.HwHead, r.HwCnt) \subseteq r.stored
  /\ MarkedIsSent(r, closed, done)

(***************************************************************************)
(* The hardware stands p places from the head of its group, between two    *)
(* frames: what is behind it has its first BD marked, what is before it    *)
(* has no mark but that of the send under way.                             *)
(***************************************************************************)
HwStandsAt(p, r, closed, ptr) ==
  /\ p \in Ends(r) /\ ptr = Bd(r.HwHead, p)
  /\ \A k \in 0 .. r.HwCnt - 1 :
       Bd(r.HwHead, k) \in r.used <=> (k \in Ends(r) /\ k < p) \/ Bd(r.HwHead, k) \in closed
  /\ \A b \in closed : \E o \in Ends(r) : o \in p .. r.HwCnt - 1 /\ b = Bd(r.HwHead, o)

\* The BD of the send under way whose mark is still to be cleared.
Closed == IF pc = "send" THEN {opening} ELSE {}

(***************************************************************************)
(* An untimely reset destroys the row of frames.                           *)
(***************************************************************************)
Framed == ~untimely => RowOfFrames(tx, Closed, sent)

HwBetweenFrames == ~untimely => \E p \in 0 .. tx.HwCnt : HwStandsAt(p, tx, Closed, hw_ptr)

(***************************************************************************)
(* A send that waits for its frame finds it noted in notifyinfo until it   *)
(* has been sent.                                                          *)
(***************************************************************************)
BlockedIsNoted ==
  /\ ~untimely /\ err = "ERR_OK"
  /\ pc = "block" \/ (pc = "send" /\ to_block_index # NoIndex)
  => to_block_index \in tx.notifyinfo \cup (sent \ tx.stored)

IInv ==
  /\ TypeOK
  /\ untimely => gptp_up
  /\ SlotsMatchRing
  /\ OpenBdsAreHeld
  /\ Closed \subseteq tx.stored
  /\ Framed
  /\ HwBetweenFrames
  /\ BlockedIsNoted

-----------------------------------------------------------------------------

LEMMA BdCalc ==
  ASSUME NEW h \in Bds, NEW k \in 0 .. N_TX_DESC
  PROVE  Bd(h, k) = IF h + k < N_TX_DESC THEN h + k ELSE h + k - N_TX_DESC
  BY TxAssumption, SMT DEF Bd, Bds

LEMMA BdType ==
  ASSUME NEW h \in Bds, NEW k \in 0 .. N_TX_DESC
  PROVE  Bd(h, k) \in Bds
  BY TxAssumption, BdCalc, SMT DEF Bds

LEMMA BdZero ==
  ASSUME NEW h \in Bds
  PROVE  Bd(h, 0) = h /\ Bd(h, N_TX_DESC) = h
  BY TxAssumption, SMT DEF Bd, Bds

(***************************************************************************)
(* Fewer than a whole turn from h on, no BD is met twice.                  *)
(***************************************************************************)
LEMMA BdInjective ==
  ASSUME NEW h \in Bds, NEW j \in 0 .. N_TX_DESC - 1, NEW k \in 0 .. N_TX_DESC - 1,
         Bd(h, j) = Bd(h, k)
  PROVE  j = k
  <1>1. j \in 0 .. N_TX_DESC /\ k \in 0 .. N_TX_DESC
    BY TxAssumption
  <1>2. /\ Bd(h, j) = IF h + j < N_TX_DESC THEN h + j ELSE h + j - N_TX_DESC
        /\ Bd(h, k) = IF h + k < N_TX_DESC THEN h + k ELSE h + k - N_TX_DESC
    BY <1>1, BdCalc
  <1>3. h \in 0 .. N_TX_DESC - 1 /\ N_TX_DESC \in Nat
    BY TxAssumption DEF Bds
  <1>4. CASE h + j < N_TX_DESC /\ h + k < N_TX_DESC
    <2>1. h + j = h + k
      BY <1>2, <1>4
    <2> QED  BY <1>3, <2>1
  <1>5. CASE ~(h + j < N_TX_DESC) /\ ~(h + k < N_TX_DESC)
    <2>1. h + j - N_TX_DESC = h + k - N_TX_DESC
      BY <1>2, <1>5
    <2> QED  BY <1>3, <2>1
  <1>6. CASE h + j < N_TX_DESC /\ ~(h + k < N_TX_DESC)
    <2>1. h + j = h + k - N_TX_DESC
      BY <1>2, <1>6
    <2> QED  BY <1>3, <2>1
  <1>7. CASE ~(h + j < N_TX_DESC) /\ h + k < N_TX_DESC
    <2>1. h + j - N_TX_DESC = h + k
      BY <1>2, <1>7
    <2> QED  BY <1>3, <2>1
  <1> QED  BY <1>4, <1>5, <1>6, <1>7

LEMMA BdShift ==
  ASSUME NEW h \in Bds, NEW a \in Nat, NEW b \in Nat, a + b <= N_TX_DESC
  PROVE  Bd(Bd(h, a), b) = Bd(h, a + b)
  <1>1. a \in 0 .. N_TX_DESC /\ b \in 0 .. N_TX_DESC /\ a + b \in 0 .. N_TX_DESC
    BY TxAssumption
  <1>2. /\ Bd(h, a) \in Bds
        /\ Bd(h, a) = IF h + a < N_TX_DESC THEN h + a ELSE h + a - N_TX_DESC
        /\ Bd(h, a + b) = IF h + (a + b) < N_TX_DESC THEN h + (a + b)
                          ELSE h + (a + b) - N_TX_DESC
    BY <1>1, BdCalc, BdType
  <1> DEFINE g == Bd(h, a)
  <1> HIDE DEF g
  <1>3. Bd(g, b) = IF g + b < N_TX_DESC THEN g + b ELSE g + b - N_TX_DESC
    BY <1>1, <1>2, BdCalc DEF g
  <1>4. Bd(g, b) = Bd(h, a + b)
    BY TxAssumption, <1>1, <1>2, <1>3, SMT DEF Bds, g
  <1> QED  BY <1>4 DEF g

LEMMA MinOf ==
  ASSUME NEW S, S \subseteq Nat, S # {}
  PROVE  Min(S) \in S /\ \A y \in S : Min(S) <= y
  <1> DEFINE R == OpToRel(<, Nat)
  <1>1. IsWellFoundedOn(R, Nat)
    BY NatLessThanWellFounded
  <1>2. \A x, y \in Nat : <<y, x>> \in R <=> y < x
    BY DEF OpToRel
  <1> HIDE DEF R
  <1>3. PICK x \in S : \A y \in S : ~ (<<y, x>> \in R)
    BY <1>1, WFMin
  <1>4. \A y \in S : ~(y < x)
    BY <1>2, <1>3
  <1>5. \A y \in S : x <= y
    BY <1>4, SMT
  <1> QED  BY <1>5 DEF Min

LEMMA MaxOf ==
  ASSUME NEW n \in Nat, NEW S, S \subseteq 0 .. n, S # {}
  PROVE  Max(S) \in S /\ \A y \in S : y <= Max(S)
  <1> DEFINE T == {n - x : x \in S}
  <1>1. T \subseteq Nat /\ T # {}
    <2>1. \A x \in S : n - x \in Nat
      OBVIOUS
    <2>2. T # {}
      OBVIOUS
    <2> QED  BY <2>1, <2>2
  <1>2. Min(T) \in T /\ \A y \in T : Min(T) <= y
    <2> HIDE DEF T
    <2> QED  BY <1>1, MinOf
  <1>3. PICK x \in S : Min(T) = n - x
    BY <1>2
  <1>4. \A y \in S : n - x <= n - y
    <2>1. \A y \in S : n - y \in T
      OBVIOUS
    <2> QED  BY <1>2, <1>3, <2>1
  <1> HIDE DEF T
  <1>5. \A y \in S : x >= y
    BY <1>4, SMT
  <1>6. Max(S) \in S /\ \A y \in S : Max(S) >= y
    BY <1>5 DEF Max
  <1> QED  BY <1>6, SMT

LEMMA SpanCard ==
  ASSUME NEW h \in Bds, NEW c \in 0 .. N_TX_DESC
  PROVE  /\ Span(h, c) \subseteq Bds
         /\ IsFiniteSet(Span(h, c)) /\ Cardinality(Span(h, c)) = c
  <1>0. \A k \in 0 .. c - 1 : k \in 0 .. N_TX_DESC - 1 /\ k \in 0 .. N_TX_DESC
    BY TxAssumption
  <1>1. Span(h, c) \subseteq Bds
    BY <1>0, BdType DEF Span
  <1> DEFINE I == 0 .. c - 1
             f == [k \in I |-> Bd(h, k)]
  <1>2. IsFiniteSet(I) /\ Cardinality(I) = c
    <2>1. CASE c = 0
      <3>1. I = {}
        BY <2>1
      <3> QED  BY <2>1, <3>1, FS_EmptySet
    <2>2. CASE c # 0
      <3> DEFINE m == c - 1
      <3>1. m \in Nat /\ c = m + 1
        BY <2>2, TxAssumption
      <3> HIDE DEF m
      <3>2. IsFiniteSet(0 .. m) /\ Cardinality(0 .. m) = IF 0 > m THEN 0 ELSE m - 0 + 1
        BY <3>1, FS_Interval
      <3> QED  BY <3>1, <3>2 DEF m
    <2> QED  BY <2>1, <2>2
  <1>3. f \in Bijection(I, Span(h, c))
    <2>1. f \in Injection(I, Span(h, c))
      <3>1. f \in [I -> Span(h, c)]
        BY DEF Span
      <3>2. \A j, k \in I : f[j] = f[k] => j = k
        BY <1>0, BdInjective
      <3> QED  BY <3>1, <3>2 DEF Injection, IsInjective
    <2>2. \A b \in Span(h, c) : \E k \in I : f[k] = b
      BY DEF Span
    <2> QED  BY <2>1, <2>2 DEF Bijection, Surjection, Injection
  <1>4. ExistsBijection(I, Span(h, c))
    BY <1>3 DEF ExistsBijection
  <1> HIDE DEF I, f
  <1>5. IsFiniteSet(Span(h, c)) /\ Cardinality(Span(h, c)) = Cardinality(I)
    BY <1>2, <1>4, FS_Bijection
  <1> QED  BY <1>1, <1>2, <1>5

LEMMA SpanMember ==
  ASSUME NEW h \in Bds, NEW c \in 0 .. N_TX_DESC, NEW k \in 0 .. N_TX_DESC - 1
  PROVE  Bd(h, k) \in Span(h, c) <=> k < c
  <1>1. ASSUME k < c PROVE Bd(h, k) \in Span(h, c)
    <2>1. k \in 0 .. c - 1
      BY <1>1
    <2> QED  BY <2>1 DEF Span
  <1>2. ASSUME Bd(h, k) \in Span(h, c) PROVE k < c
    <2>1. PICK j \in 0 .. c - 1 : Bd(h, k) = Bd(h, j)
      BY <1>2 DEF Span
    <2>2. j \in 0 .. N_TX_DESC - 1
      BY TxAssumption
    <2>3. k = j
      BY <2>1, <2>2, BdInjective
    <2> QED  BY <2>3
  <1> QED  BY <1>1, <1>2

(***************************************************************************)
(* The c BDs from a places after h on are those at the places a .. a+c-1.  *)
(***************************************************************************)
LEMMA SpanShift ==
  ASSUME NEW h \in Bds, NEW a \in Nat, NEW c \in Nat, a + c <= N_TX_DESC
  PROVE  Span(Bd(h, a), c) = {Bd(h, k) : k \in a .. a + c - 1}
  <1>1. \A k \in 0 .. c - 1 : Bd(Bd(h, a), k) = Bd(h, a + k)
    <2> TAKE k \in 0 .. c - 1
    <2>1. k \in Nat /\ a + k <= N_TX_DESC
      BY TxAssumption
    <2> QED  BY <2>1, BdShift
  <1>2. \A k \in 0 .. c - 1 : a + k \in a .. a + c - 1
    OBVIOUS
  <1>3. \A k \in a .. a + c - 1 : k - a \in 0 .. c - 1 /\ a + (k - a) = k
    OBVIOUS
  <1> QED  BY <1>1, <1>2, <1>3 DEF Span

(***************************************************************************)
(* Two stretches that fit on the ring one after the other share no BD.     *)
(***************************************************************************)
LEMMA SpansDisjoint ==
  ASSUME NEW h \in Bds, NEW a \in Nat, NEW c \in Nat, a + c <= N_TX_DESC
  PROVE  Span(h, a) \cap Span(Bd(h, a), c) = {}
  <1> SUFFICES ASSUME NEW b \in Span(h, a), b \in Span(Bd(h, a), c) PROVE FALSE
    OBVIOUS
  <1>1. PICK k \in a .. a + c - 1 : b = Bd(h, k)
    BY SpanShift
  <1>2. k \in 0 .. N_TX_DESC - 1 /\ a \in 0 .. N_TX_DESC /\ ~(k < a)
    BY TxAssumption
  <1> QED  BY <1>1, <1>2, SpanMember

LEMMA SpanJoin ==
  ASSUME NEW h \in Bds, NEW a \in Nat, NEW c \in Nat, a + c <= N_TX_DESC
  PROVE  Span(h, a + c) = Span(h, a) \cup Span(Bd(h, a), c)
  <1>1. 0 .. a + c - 1 = (0 .. a - 1) \cup (a .. a + c - 1)
    OBVIOUS
  <1>2. Span(Bd(h, a), c) = {Bd(h, k) : k \in a .. a + c - 1}
    BY SpanShift
  <1>3. /\ Span(h, a) = {Bd(h, k) : k \in 0 .. a - 1}
        /\ Span(h, a + c) = {Bd(h, k) : k \in 0 .. a + c - 1}
    BY DEF Span
  <1> QED  BY <1>1, <1>2, <1>3

LEMMA RingFields ==
  ASSUME NEW r, RingOK(r)
  PROVE  /\ r.FreeHead \in Bds /\ r.PreHead \in Bds /\ r.HwHead \in Bds
         /\ r.PreCnt \in 0 .. N_TX_DESC /\ r.HwCnt \in 0 .. N_TX_DESC
         /\ r.used \subseteq Bds /\ r.last \subseteq Bds
         /\ r.stored \subseteq Bds /\ r.notifyinfo \subseteq Bds
         /\ r.PreCnt + r.HwCnt <= N_TX_DESC
         /\ N_TX_DESC \in Nat \ {0}
  BY TxAssumption DEF RingOK, RingType, FreeCnt

LEMMA EndsType ==
  ASSUME NEW r, RingOK(r)
  PROVE  0 \in Ends(r) /\ Ends(r) \subseteq 0 .. r.HwCnt
  <1>1. r.HwCnt \in Nat
    BY RingFields
  <1> QED  BY <1>1 DEF Ends

(***************************************************************************)
(* What XEmacPs_BdRingFromHwTx counts: up to the end of a frame, over      *)
(* frames whose first BDs are all marked.                                  *)
(***************************************************************************)
LEMMA ReclaimCount ==
  ASSUME NEW r, RingOK(r)
  PROVE  /\ BdRingFromHwTx(r) \in Ends(r)
         /\ \A k \in Ends(r) : k < BdRingFromHwTx(r) => Bd(r.HwHead, k) \in r.used
  <1> DEFINE S == {n \in Ends(r) : \A k \in Ends(r) : k < n => Bd(r.HwHead, k) \in r.used}
  <1>1. BdRingFromHwTx(r) = Max(S)
    BY DEF BdRingFromHwTx, Ends
  <1>2. r.HwCnt \in Nat /\ S \subseteq 0 .. r.HwCnt
    BY EndsType, RingFields
  <1>3. S # {}
    <2>1. \A k \in Ends(r) : ~(k < 0)
      BY EndsType, RingFields
    <2>2. 0 \in S
      BY <2>1, EndsType
    <2> QED  BY <2>2
  <1>4. Max(S) \in S
    <2> HIDE DEF S
    <2> QED  BY <1>2, <1>3, MaxOf
  <1> QED  BY <1>1, <1>4

(***************************************************************************)
(* The ring that process_sent_bds leaves.                                  *)
(***************************************************************************)
LEMMA ReclaimRing ==
  ASSUME NEW r, RingOK(r), NEW n, n = BdRingFromHwTx(r), NEW q, q = process_sent_bds(r)
  PROVE  /\ n \in Nat /\ n <= r.HwCnt
         /\ Complete(r) = Span(r.HwHead, n)
         /\ q.HwHead = Bd(r.HwHead, n) /\ q.HwCnt = r.HwCnt - n
         /\ q.FreeHead = r.FreeHead /\ q.PreHead = r.PreHead /\ q.PreCnt = r.PreCnt
         /\ q.used = r.used \cup Span(r.HwHead, n) /\ q.last = r.last \ Span(r.HwHead, n)
         /\ q.stored = r.stored \ Span(r.HwHead, n)
         /\ q.notifyinfo = r.notifyinfo \ Span(r.HwHead, n)
         /\ RingOK(q)
  <1>1. n \in 0 .. r.HwCnt /\ n \in 0 .. N_TX_DESC /\ n \in Nat /\ n <= r.HwCnt
    BY ReclaimCount, EndsType, RingFields
  <1>2. Complete(r) = Span(r.HwHead, n)
    BY DEF Complete, Span
  <1>3. Cardinality(Complete(r)) = n
    BY <1>1, <1>2, SpanCard, RingFields
  <1>4. q = [r EXCEPT !.HwHead = Bd(@, n), !.HwCnt = @ - n,
                      !.used = @ \cup Span(r.HwHead, n), !.last = @ \ Span(r.HwHead, n),
                      !.stored = @ \ Span(r.HwHead, n),
                      !.notifyinfo = @ \ Span(r.HwHead, n)]
    BY <1>2, <1>3 DEF process_sent_bds
  <1>5. r \in RingType
    BY DEF RingOK
  <1>6. /\ q.HwHead = Bd(r.HwHead, n) /\ q.HwCnt = r.HwCnt - n
        /\ q.FreeHead = r.FreeHead /\ q.PreHead = r.PreHead /\ q.PreCnt = r.PreCnt
        /\ q.used = r.used \cup Span(r.HwHead, n) /\ q.last = r.last \ Span(r.HwHead, n)
        /\ q.stored = r.stored \ Span(r.HwHead, n)
        /\ q.notifyinfo = r.notifyinfo \ Span(r.HwHead, n)
    BY <1>4, <1>5 DEF RingType
  <1>7. RingOK(q)
    <2>1. Bd(r.HwHead, n) \in Bds /\ Span(r.HwHead, n) \subseteq Bds
      BY <1>1, BdType, SpanCard, RingFields
    <2>2. q \in RingType
      <3>1. r.HwCnt - n \in 0 .. N_TX_DESC
        BY <1>1, RingFields
      <3>2. /\ r.used \cup Span(r.HwHead, n) \in SUBSET Bds
            /\ r.last \ Span(r.HwHead, n) \in SUBSET Bds
            /\ r.stored \ Span(r.HwHead, n) \in SUBSET Bds
            /\ r.notifyinfo \ Span(r.HwHead, n) \in SUBSET Bds
        BY <2>1, RingFields
      <3> QED  BY <1>4, <1>5, <2>1, <3>1, <3>2 DEF RingType
    <2>3. FreeCnt(q) >= 0
      BY <1>1, <1>6, RingFields DEF FreeCnt
    <2> QED  BY <2>2, <2>3 DEF RingOK
  <1> QED  BY <1>1, <1>2, <1>6, <1>7

LEMMA EndsMember ==
  ASSUME NEW r, RingOK(r), NEW k \in 1 .. r.HwCnt
  PROVE  k \in Ends(r) <=> Bd(r.HwHead, k - 1) \in r.last
  <1>1. k # 0
    BY RingFields
  <1> QED  BY <1>1 DEF Ends

(***************************************************************************)
(* The reclaim takes whole frames, so the other frames stay what they are. *)
(***************************************************************************)
LEMMA ReclaimPlaces ==
  ASSUME NEW r, RingOK(r), NEW n, n = BdRingFromHwTx(r), NEW q, q = process_sent_bds(r),
         NEW k \in 0 .. q.HwCnt
  PROVE  /\ k + n \in 0 .. r.HwCnt
         /\ Bd(q.HwHead, k) = Bd(r.HwHead, k + n)
         /\ k \in Ends(q) <=> k + n \in Ends(r)
  <1> DEFINE h == r.HwHead
             c == r.HwCnt
  <1>1. /\ n \in Nat /\ n <= c /\ c \in Nat /\ c <= N_TX_DESC /\ N_TX_DESC \in Nat
        /\ q.HwCnt = c - n /\ q.HwHead = Bd(h, n) /\ h \in Bds
        /\ q.last = r.last \ Span(h, n) /\ RingOK(q)
    BY ReclaimRing, RingFields
  <1> HIDE DEF h, c
  <1>2. k \in Nat /\ k + n \in 0 .. c /\ n + k <= N_TX_DESC /\ k + n = n + k
    BY <1>1
  <1>3. Bd(q.HwHead, k) = Bd(h, k + n)
    BY <1>1, <1>2, BdShift
  <1>4. CASE k = 0
    <2>1. n \in Ends(r) /\ 0 \in Ends(q)
      BY <1>1, ReclaimCount, EndsType
    <2> QED  BY <1>1, <1>2, <1>3, <1>4, <2>1 DEF h, c
  <1>5. CASE k # 0
    <2>1. /\ k - 1 \in Nat /\ n + (k - 1) <= N_TX_DESC /\ k \in 1 .. q.HwCnt
          /\ k + n \in 1 .. c /\ n + (k - 1) = (k + n) - 1
          /\ (k + n) - 1 \in 0 .. N_TX_DESC - 1 /\ ~((k + n) - 1 < n)
          /\ n \in 0 .. N_TX_DESC
      BY <1>1, <1>2, <1>5
    <2>2. Bd(q.HwHead, k - 1) = Bd(h, n + (k - 1))
      BY <1>1, <2>1, BdShift
    <2>3. Bd(h, (k + n) - 1) \notin Span(h, n)
      BY <1>1, <2>1, SpanMember
    <2>4. k \in Ends(q) <=> Bd(q.HwHead, k - 1) \in q.last
      BY <1>1, <2>1, EndsMember
    <2>5. k + n \in Ends(r) <=> Bd(h, (k + n) - 1) \in r.last
      BY <2>1, EndsMember DEF h, c
    <2>6. Bd(q.HwHead, k - 1) = Bd(h, (k + n) - 1)
      BY <2>1, <2>2
    <2>7. k \in Ends(q) <=> k + n \in Ends(r)
      BY <1>1, <2>3, <2>4, <2>5, <2>6
    <2> QED  BY <1>2, <1>3, <2>7 DEF h, c
  <1> QED  BY <1>4, <1>5

LEMMA ReclaimSlots ==
  ASSUME NEW r, RingOK(r), NEW q, q = process_sent_bds(r)
  PROVE  /\ Slots(r) => Slots(q)
         /\ Held(r) => Held(q)
  <1> DEFINE n == BdRingFromHwTx(r)
             h == r.HwHead
             c == r.HwCnt
  <1>1. /\ n \in Nat /\ n <= c /\ c \in Nat /\ c <= N_TX_DESC /\ N_TX_DESC \in Nat
        /\ q.HwCnt = c - n /\ q.HwHead = Bd(h, n) /\ h \in Bds
        /\ q.used = r.used \cup Span(h, n) /\ q.stored = r.stored \ Span(h, n)
        /\ q.FreeHead = r.FreeHead /\ q.PreHead = r.PreHead /\ q.PreCnt = r.PreCnt
    BY ReclaimRing, RingFields
  <1> HIDE DEF n, h, c
  <1>2. /\ c - n \in Nat /\ n + (c - n) = c /\ n + (c - n) <= N_TX_DESC
    BY <1>1
  <1>3. /\ Bd(Bd(h, n), c - n) = Bd(h, n + (c - n))
        /\ Span(h, n + (c - n)) = Span(h, n) \cup Span(Bd(h, n), c - n)
        /\ Span(h, n) \cap Span(Bd(h, n), c - n) = {}
    BY <1>1, <1>2, BdShift, SpanJoin, SpansDisjoint
  <1>4. Bd(q.HwHead, q.HwCnt) = Bd(h, c) /\ Span(q.HwHead, q.HwCnt) = Span(h, c) \ Span(h, n)
    BY <1>1, <1>2, <1>3
  <1> QED  BY <1>1, <1>4 DEF Slots, Held, h, c

(***************************************************************************)
(* A frame taken for sent is sent.                                         *)
(***************************************************************************)
LEMMA CompleteSent ==
  ASSUME NEW r, RingOK(r), NEW done, RowOfFrames(r, {}, done)
  PROVE  Complete(r) \subseteq done
  <1> DEFINE n == BdRingFromHwTx(r)
  <1>1. n \in Nat /\ n <= r.HwCnt /\ Complete(r) = Span(r.HwHead, n) /\ r.HwCnt \in Nat
    BY ReclaimRing, RingFields
  <1>2. \A k \in Ends(r) : k < n => Bd(r.HwHead, k) \in r.used
    BY ReclaimCount
  <1> HIDE DEF n
  <1>3. ASSUME NEW j \in 0 .. n - 1
        PROVE  Bd(r.HwHead, j) \in done
    <2> DEFINE S == {e \in Ends(r) : e <= j}
    <2>1. j \in Nat /\ S \subseteq 0 .. j /\ 0 \in S
      BY <1>1, EndsType
    <2>2. Max(S) \in S /\ \A e \in S : e <= Max(S)
      <3> HIDE DEF S
      <3> QED  BY <2>1, MaxOf
    <2> DEFINE k == Max(S)
    <2>3. k \in Ends(r) /\ k <= j /\ k \in Nat
      BY <2>1, <2>2
    <2>4. \A e \in Ends(r) : e <= j => e <= k
      BY <2>2
    <2> HIDE DEF k
    <2>5. SameFrame(r, k, j)
      <3>1. \A e \in Ends(r) : e \in Nat
        BY EndsType, RingFields
      <3> QED  BY <2>3, <2>4, <3>1 DEF SameFrame
    <2>6. k < n /\ j \in 0 .. r.HwCnt - 1
      BY <1>1, <2>3
    <2>7. Bd(r.HwHead, k) \in r.used \ {}
      BY <1>2, <2>3, <2>6
    <2> QED  BY <2>3, <2>5, <2>6, <2>7 DEF RowOfFrames, MarkedIsSent
  <1> QED  BY <1>1, <1>3 DEF Span

LEMMA ReclaimRow ==
  ASSUME NEW r, RingOK(r), NEW q, q = process_sent_bds(r), NEW done,
         RowOfFrames(r, {}, done)
  PROVE  RowOfFrames(q, {}, done)
  <1> DEFINE n == BdRingFromHwTx(r)
             h == r.HwHead
             c == r.HwCnt
  <1>1. /\ n \in Nat /\ n <= c /\ c \in Nat /\ c <= N_TX_DESC /\ N_TX_DESC \in Nat
        /\ q.HwCnt = c - n /\ q.HwHead = Bd(h, n) /\ h \in Bds
        /\ q.used = r.used \cup Span(h, n) /\ q.stored = r.stored \ Span(h, n)
        /\ q.PreHead = r.PreHead /\ RingOK(q)
    BY ReclaimRing, RingFields
  <1>0. \A k \in 0 .. q.HwCnt : /\ k + n \in 0 .. c
                                /\ Bd(q.HwHead, k) = Bd(h, k + n)
                                /\ k \in Ends(q) <=> k + n \in Ends(r)
    BY ReclaimPlaces
  <1>00. Ends(q) \subseteq 0 .. q.HwCnt /\ Ends(r) \subseteq 0 .. c
    BY <1>1, EndsType
  <1> HIDE DEF n, h, c
  <1>2. /\ c - n \in Nat /\ n + (c - n) = c /\ n + (c - n) <= N_TX_DESC
        /\ c - n \in 0 .. q.HwCnt /\ (c - n) + n = c
    BY <1>1
  <1>3. /\ Span(h, n + (c - n)) = Span(h, n) \cup Span(Bd(h, n), c - n)
        /\ Span(h, n) \cap Span(Bd(h, n), c - n) = {}
    BY <1>1, <1>2, SpanJoin, SpansDisjoint
  <1>4. q.HwCnt \in Ends(q) /\ q.PreHead = Bd(q.HwHead, q.HwCnt)
    BY <1>0, <1>1, <1>2 DEF RowOfFrames, h, c
  <1>5. Span(q.HwHead, q.HwCnt) \subseteq q.stored
    BY <1>1, <1>2, <1>3 DEF RowOfFrames, h, c
  <1>6. ASSUME NEW k \in Ends(q), NEW j \in 0 .. q.HwCnt - 1,
               SameFrame(q, k, j), Bd(q.HwHead, k) \in q.used
        PROVE  Bd(q.HwHead, j) \in done
    <2>1. /\ k \in 0 .. q.HwCnt /\ j \in 0 .. q.HwCnt /\ k <= j
          /\ k + n <= j + n /\ j + n \in 0 .. c - 1
          /\ k + n \in 0 .. N_TX_DESC - 1 /\ ~(k + n < n) /\ n \in 0 .. N_TX_DESC
      BY <1>00, <1>1, <1>6 DEF SameFrame
    <2>2. k + n \in Ends(r) /\ Bd(q.HwHead, k) = Bd(h, k + n) /\ Bd(q.HwHead, j) = Bd(h, j + n)
      BY <1>0, <2>1
    <2>3. SameFrame(r, k + n, j + n)
      <3>1. ASSUME NEW e \in Ends(r), k + n < e, e <= j + n PROVE FALSE
        <4>1. e - n \in 0 .. q.HwCnt /\ (e - n) + n = e /\ k < e - n /\ e - n <= j
          BY <1>00, <1>1, <2>1, <3>1
        <4>2. e - n \in Ends(q)
          BY <1>0, <4>1
        <4> QED  BY <1>6, <4>1, <4>2 DEF SameFrame
      <3> QED  BY <2>1, <3>1 DEF SameFrame
    <2>4. Bd(h, k + n) \in r.used
      BY <1>1, <1>6, <2>1, <2>2, SpanMember
    <2> QED  BY <2>1, <2>2, <2>3, <2>4 DEF RowOfFrames, MarkedIsSent, h, c
  <1> QED  BY <1>4, <1>5, <1>6 DEF RowOfFrames, MarkedIsSent

LEMMA ReclaimStands ==
  ASSUME NEW r, RingOK(r), NEW q, q = process_sent_bds(r), NEW ptr, NEW p \in 0 .. r.HwCnt,
         HwStandsAt(p, r, {}, ptr)
  PROVE  \E x \in 0 .. q.HwCnt : HwStandsAt(x, q, {}, ptr)
  <1> DEFINE n == BdRingFromHwTx(r)
             h == r.HwHead
             c == r.HwCnt
             x == p - n
  <1>1. /\ n \in Nat /\ n <= c /\ c \in Nat /\ c <= N_TX_DESC /\ N_TX_DESC \in Nat
        /\ q.HwCnt = c - n /\ q.HwHead = Bd(h, n) /\ h \in Bds
        /\ q.used = r.used \cup Span(h, n)
    BY ReclaimRing, RingFields
  <1>0. \A k \in 0 .. q.HwCnt : /\ k + n \in 0 .. c
                                /\ Bd(q.HwHead, k) = Bd(h, k + n)
                                /\ k \in Ends(q) <=> k + n \in Ends(r)
    BY ReclaimPlaces
  <1>2. n <= p
    <2> SUFFICES ASSUME p < n PROVE FALSE
      BY <1>1
    <2>1. p \in Ends(r) /\ Bd(r.HwHead, p) \in r.used
      BY ReclaimCount DEF HwStandsAt
    <2>2. p \in 0 .. r.HwCnt - 1 /\ ~(p < p)
      BY <1>1
    <2> QED  BY <2>1, <2>2 DEF HwStandsAt
  <1> HIDE DEF n
  <1>3. x \in 0 .. q.HwCnt /\ x + n = p
    BY <1>1, <1>2
  <1>4. x \in Ends(q) /\ ptr = Bd(q.HwHead, x)
    BY <1>0, <1>3 DEF HwStandsAt
  <1>5. ASSUME NEW k \in 0 .. q.HwCnt - 1
        PROVE  Bd(q.HwHead, k) \in q.used <=> (k \in Ends(q) /\ k < x) \/ Bd(q.HwHead, k) \in {}
    <2>1. /\ k \in 0 .. q.HwCnt /\ k + n \in 0 .. c - 1 /\ (k < x <=> k + n < p)
          /\ k + n \in 0 .. N_TX_DESC - 1 /\ ~(k + n < n) /\ n \in 0 .. N_TX_DESC
      BY <1>1
    <2>2. Bd(h, k + n) \notin Span(h, n)
      BY <1>1, <2>1, SpanMember
    <2>3. Bd(h, k + n) \in r.used <=> k + n \in Ends(r) /\ k + n < p
      BY <2>1 DEF HwStandsAt
    <2> QED  BY <1>0, <1>1, <2>1, <2>2, <2>3
  <1>6. HwStandsAt(x, q, {}, ptr)
    BY <1>4, <1>5 DEF HwStandsAt
  <1> QED  BY <1>3, <1>6

-----------------------------------------------------------------------------

(***************************************************************************)
(* The four ways through emacps_sgsend, by what becomes of the ring.       *)
(***************************************************************************)
NothingAllocated(r, s) == s.ring = r /\ s.filled = {} /\ ~s.looped /\ ~s.ok

\* An entry in use m places on ends the loop.
HalfWay(r, n, s, m) ==
  /\ Span(r.FreeHead, m) \cap r.stored = {} /\ Bd(r.FreeHead, m) \in r.stored
  /\ s.filled = Span(r.FreeHead, m) /\ ~s.looped /\ ~s.ok
  /\ s.ring.FreeHead = Bd(r.FreeHead, n) /\ s.ring.PreCnt = r.PreCnt + n
  /\ s.ring.PreHead = r.PreHead /\ s.ring.HwHead = r.HwHead /\ s.ring.HwCnt = r.HwCnt
  /\ s.ring.stored = r.stored \cup Span(r.FreeHead, m)
  /\ s.ring.last = r.last \ Span(r.FreeHead, m)
  /\ s.ring.used = r.used /\ s.ring.notifyinfo = r.notifyinfo

Entered(r, n, block, s) ==
  /\ Span(r.FreeHead, n) \cap r.stored = {}
  /\ s.filled = Span(r.FreeHead, n) /\ s.looped
  /\ s.ring.FreeHead = Bd(r.FreeHead, n) /\ s.ring.HwHead = r.HwHead
  /\ s.ring.stored = r.stored \cup Span(r.FreeHead, n)
  /\ s.ring.last = (r.last \ Span(r.FreeHead, n)) \cup {Bd(r.FreeHead, n - 1)}
  /\ s.ring.notifyinfo = IF block THEN r.notifyinfo \cup {Bd(r.FreeHead, n - 1)}
                         ELSE r.notifyinfo
  /\ s.ring.used = r.used \ OpenAllButFirst(r, n)

Rejected(r, n, s) ==
  /\ r.PreHead # r.FreeHead /\ ~s.ok
  /\ s.ring.PreHead = r.PreHead /\ s.ring.PreCnt = r.PreCnt + n /\ s.ring.HwCnt = r.HwCnt

Submitted(r, n, s) ==
  /\ r.PreHead = r.FreeHead /\ s.ok
  /\ s.ring.PreHead = Bd(r.FreeHead, n) /\ s.ring.PreCnt = r.PreCnt
  /\ s.ring.HwCnt = r.HwCnt + n

LEMMA SendWays ==
  ASSUME NEW r, RingOK(r), NEW n \in 1 .. MaxChain, NEW block \in BOOLEAN,
         NEW s, s = emacps_sgsend(r, n, block)
  PROVE  \/ NothingAllocated(r, s)
         \/ /\ FreeCnt(r) >= n /\ s.ring \in RingType
            /\ \E m \in 0 .. n - 1 : HalfWay(r, n, s, m)
         \/ /\ FreeCnt(r) >= n /\ s.ring \in RingType
            /\ Entered(r, n, block, s)
            /\ Rejected(r, n, s) \/ Submitted(r, n, s)
  <1> DEFINE f == r.FreeHead
             all == Span(f, n)
             busy == {k \in 0 .. n - 1 : Bd(f, k) \in r.stored}
             before == Span(f, Min(busy))
             allocated == [r EXCEPT !.FreeHead = Bd(f, n), !.PreCnt = @ + n]
             entered == [allocated EXCEPT
                           !.stored = @ \cup all,
                           !.last = (@ \ all) \cup {Bd(f, n - 1)},
                           !.notifyinfo = IF block THEN @ \cup {Bd(f, n - 1)} ELSE @,
                           !.used = @ \ OpenAllButFirst(r, n)]
  <1>1. /\ f \in Bds /\ n \in 1 .. N_TX_DESC /\ n \in 0 .. N_TX_DESC /\ n - 1 \in 0 .. N_TX_DESC
        /\ r \in RingType /\ N_TX_DESC \in Nat /\ FreeCnt(r) \in Int /\ n \in Nat
    BY TxAssumption, RingFields DEF RingOK, FreeCnt
  <1>2. Bd(f, n) \in Bds /\ Bd(f, n - 1) \in Bds /\ all \subseteq Bds
    BY <1>1, BdType, SpanCard
  <1>3. CASE FreeCnt(r) < n
    <2>1. s = Outcome(r, {}, FALSE, FALSE)
      <3>1. ~(FreeCnt(r) >= n)
        BY <1>1, <1>3
      <3> QED  BY <1>3, <3>1 DEF emacps_sgsend
    <2> QED  BY <2>1 DEF Outcome, NothingAllocated
  <1>4. CASE ~(FreeCnt(r) < n)
    <2>1. FreeCnt(r) >= n /\ r.PreCnt + n \in 0 .. N_TX_DESC /\ r.HwCnt + n \in 0 .. N_TX_DESC
      BY <1>1, <1>4, RingFields DEF FreeCnt
    <2>2. allocated \in RingType
      BY <1>1, <1>2, <2>1 DEF RingType
    <2>3. /\ allocated.FreeHead = Bd(f, n) /\ allocated.PreHead = r.PreHead
          /\ allocated.HwHead = r.HwHead /\ allocated.PreCnt = r.PreCnt + n
          /\ allocated.HwCnt = r.HwCnt /\ allocated.used = r.used
          /\ allocated.last = r.last /\ allocated.stored = r.stored
          /\ allocated.notifyinfo = r.notifyinfo
      BY <1>1 DEF RingType
    <2>4. CASE busy # {}
      <3> DEFINE m == Min(busy)
      <3>1. busy \subseteq Nat
        OBVIOUS
      <3>2. m \in busy /\ \A y \in busy : m <= y
        <4> HIDE DEF busy
        <4> QED  BY <2>4, <3>1, MinOf
      <3>3. m \in 0 .. n - 1 /\ Bd(f, m) \in r.stored
        BY <3>2
      <3>4. Span(f, m) \cap r.stored = {}
        <4>1. ASSUME NEW k \in 0 .. m - 1 PROVE Bd(f, k) \notin r.stored
          <5>1. k \in 0 .. n - 1 /\ ~(m <= k)
            BY <3>3
          <5> QED  BY <3>2, <5>1
        <4> HIDE DEF m
        <4> QED  BY <4>1 DEF Span
      <3>5. s = Outcome([allocated EXCEPT !.stored = @ \cup before, !.last = @ \ before],
                        before, FALSE, FALSE)
        <4>1. before = {Bd(f, k) : k \in 0 .. Min(busy) - 1}
          BY DEF Span
        <4> QED  BY <1>4, <2>1, <2>4, <4>1 DEF emacps_sgsend
      <3>6. before = Span(f, m) /\ before \subseteq Bds
        <4>1. m \in 0 .. N_TX_DESC
          BY <1>1, <3>3
        <4> QED  BY <1>1, <4>1, SpanCard
      <3> HIDE DEF m, before, allocated, busy
      <3>7. s.ring = [allocated EXCEPT !.stored = @ \cup before, !.last = @ \ before]
            /\ s.filled = before /\ ~s.looped /\ ~s.ok
        BY <3>5 DEF Outcome
      <3>8. s.ring \in RingType
        BY <2>2, <3>6, <3>7 DEF RingType
      <3>9. /\ s.ring.FreeHead = allocated.FreeHead /\ s.ring.PreHead = allocated.PreHead
            /\ s.ring.HwHead = allocated.HwHead /\ s.ring.PreCnt = allocated.PreCnt
            /\ s.ring.HwCnt = allocated.HwCnt /\ s.ring.used = allocated.used
            /\ s.ring.last = allocated.last \ before
            /\ s.ring.stored = allocated.stored \cup before
            /\ s.ring.notifyinfo = allocated.notifyinfo
        BY <2>2, <3>7 DEF RingType
      <3>10. HalfWay(r, n, s, m)
        BY <2>3, <3>3, <3>4, <3>6, <3>7, <3>9 DEF HalfWay
      <3> QED  BY <2>1, <3>3, <3>8, <3>10
    <2>5. CASE busy = {}
      <3>1. all \cap r.stored = {}
        BY <2>5 DEF Span
      <3>2. OpenAllButFirst(r, n) \subseteq Bds
        <4>1. \A k \in 1 .. n - 1 : k \in 0 .. N_TX_DESC
          BY <1>1
        <4> QED  BY <1>1, <4>1, BdType DEF OpenAllButFirst
      <3>3. all = {Bd(f, k) : k \in 0 .. n - 1}
        BY DEF Span
      <3>4. /\ r.PreHead # r.FreeHead => s = Outcome(entered, all, TRUE, FALSE)
            /\ r.PreHead = r.FreeHead =>
                 s = Outcome([entered EXCEPT !.PreHead = Bd(f, n), !.PreCnt = @ - n,
                                             !.HwCnt = @ + n], all, TRUE, TRUE)
        BY <1>4, <2>1, <2>5, <3>3 DEF emacps_sgsend
      <3> HIDE DEF allocated, busy, all
      <3>5. entered \in RingType
        BY <1>2, <2>2, <3>2 DEF RingType
      <3>6. /\ entered.FreeHead = allocated.FreeHead /\ entered.PreHead = allocated.PreHead
            /\ entered.HwHead = allocated.HwHead /\ entered.PreCnt = allocated.PreCnt
            /\ entered.HwCnt = allocated.HwCnt
            /\ entered.used = allocated.used \ OpenAllButFirst(r, n)
            /\ entered.last = (allocated.last \ all) \cup {Bd(f, n - 1)}
            /\ entered.stored = allocated.stored \cup all
            /\ entered.notifyinfo = IF block THEN allocated.notifyinfo \cup {Bd(f, n - 1)}
                                    ELSE allocated.notifyinfo
        BY <2>2 DEF RingType
      <3> HIDE DEF entered
      <3>7. CASE r.PreHead # r.FreeHead
        <4>1. s.ring = entered /\ s.filled = all /\ s.looped /\ ~s.ok
          BY <3>4, <3>7 DEF Outcome
        <4>2. Entered(r, n, block, s) /\ Rejected(r, n, s)
          BY <2>3, <3>1, <3>6, <3>7, <4>1 DEF Entered, Rejected, all
        <4> QED  BY <2>1, <3>5, <4>1, <4>2
      <3>8. CASE r.PreHead = r.FreeHead
        <4>1. /\ s.ring = [entered EXCEPT !.PreHead = Bd(f, n), !.PreCnt = @ - n,
                                          !.HwCnt = @ + n]
              /\ s.filled = all /\ s.looped /\ s.ok
          BY <3>4, <3>8 DEF Outcome
        <4>2. /\ s.ring.FreeHead = entered.FreeHead /\ s.ring.PreHead = Bd(f, n)
              /\ s.ring.HwHead = entered.HwHead /\ s.ring.PreCnt = entered.PreCnt - n
              /\ s.ring.HwCnt = entered.HwCnt + n
              /\ s.ring.used = entered.used /\ s.ring.last = entered.last
              /\ s.ring.stored = entered.stored /\ s.ring.notifyinfo = entered.notifyinfo
          BY <3>5, <4>1 DEF RingType
        <4>3. entered.PreCnt - n = r.PreCnt /\ entered.HwCnt + n = r.HwCnt + n
          BY <1>1, <2>3, <3>6, RingFields
        <4>4. s.ring \in RingType
          <5>1. entered.PreCnt - n \in 0 .. N_TX_DESC /\ entered.HwCnt + n \in 0 .. N_TX_DESC
            BY <2>1, <4>3, RingFields
          <5> QED  BY <1>2, <3>5, <4>1, <5>1 DEF RingType
        <4>5. Entered(r, n, block, s)
          BY <2>3, <3>1, <3>6, <4>1, <4>2 DEF Entered, all
        <4>6. Submitted(r, n, s)
          BY <3>8, <4>1, <4>2, <4>3 DEF Submitted
        <4> QED  BY <2>1, <4>4, <4>5, <4>6
      <3> QED  BY <3>7, <3>8
    <2> QED  BY <2>4, <2>5
  <1> QED  BY <1>3, <1>4

LEMMA OpenedInSpan ==
  ASSUME NEW r, RingOK(r), NEW n \in 1 .. N_TX_DESC
  PROVE  /\ OpenAllButFirst(r, n) \subseteq Span(r.FreeHead, n)
         /\ r.FreeHead \in Span(r.FreeHead, n) /\ r.FreeHead \notin OpenAllButFirst(r, n)
         /\ Bd(r.FreeHead, n - 1) \in Span(r.FreeHead, n)
  <1>1. r.FreeHead \in Bds /\ N_TX_DESC \in Nat
    BY RingFields
  <1>2. 0 \in 0 .. n - 1 /\ n - 1 \in 0 .. n - 1
    OBVIOUS
  <1>3. \A k \in 1 .. n - 1 : /\ k \in 0 .. n - 1 /\ k # 0
                              /\ k \in 0 .. N_TX_DESC - 1 /\ 0 \in 0 .. N_TX_DESC - 1
    BY <1>1
  <1>4. OpenAllButFirst(r, n) \subseteq Span(r.FreeHead, n)
    BY <1>3 DEF OpenAllButFirst, Span
  <1>5. Bd(r.FreeHead, 0) = r.FreeHead
    BY <1>1, BdZero
  <1>6. r.FreeHead \in Span(r.FreeHead, n) /\ Bd(r.FreeHead, n - 1) \in Span(r.FreeHead, n)
    BY <1>2, <1>5 DEF Span
  <1>7. r.FreeHead \notin OpenAllButFirst(r, n)
    <2> SUFFICES ASSUME NEW k \in 1 .. n - 1, r.FreeHead = Bd(r.FreeHead, k) PROVE FALSE
      BY DEF OpenAllButFirst
    <2>1. Bd(r.FreeHead, k) = Bd(r.FreeHead, 0)
      BY <1>5
    <2>2. k = 0
      BY <1>1, <1>3, <2>1, BdInjective
    <2> QED  BY <1>3, <2>2
  <1> QED  BY <1>4, <1>6, <1>7

LEMMA SendRing ==
  ASSUME NEW r, RingOK(r), Held(r), NEW n \in 1 .. MaxChain, NEW block \in BOOLEAN,
         NEW s, s = emacps_sgsend(r, n, block)
  PROVE  /\ RingOK(s.ring) /\ Held(s.ring)
         /\ s.looped \in BOOLEAN /\ s.ok \in BOOLEAN
         /\ s.looped => r.FreeHead \in s.ring.stored
         /\ s.ok => s.looped
         /\ s.ok /\ block => Bd(r.FreeHead, n - 1) \in s.ring.notifyinfo
         /\ s.filled \cap r.stored = {}
  <1>1. n \in 1 .. N_TX_DESC /\ n \in Nat /\ N_TX_DESC \in Nat
    BY TxAssumption
  <1>2. /\ OpenAllButFirst(r, n) \subseteq Span(r.FreeHead, n)
        /\ r.FreeHead \in Span(r.FreeHead, n)
    BY <1>1, OpenedInSpan
  <1>0. s.looped \in BOOLEAN /\ s.ok \in BOOLEAN
    BY DEF emacps_sgsend, Outcome
  <1>3. CASE NothingAllocated(r, s)
    <2>1. s.ring = r /\ s.filled = {} /\ s.looped = FALSE /\ s.ok = FALSE
      BY <1>0, <1>3 DEF NothingAllocated
    <2> QED  BY <2>1
  <1>4. CASE /\ FreeCnt(r) >= n /\ s.ring \in RingType
             /\ \E m \in 0 .. n - 1 : HalfWay(r, n, s, m)
    <2>1. PICK m \in 0 .. n - 1 : HalfWay(r, n, s, m)
      BY <1>4
    <2>2. FreeCnt(s.ring) >= 0
      BY <1>1, <1>4, <2>1, RingFields DEF HalfWay, FreeCnt
    <2>3. Held(s.ring)
      BY <2>1 DEF HalfWay, Held
    <2>4. s.looped = FALSE /\ s.ok = FALSE /\ s.filled \cap r.stored = {}
      BY <1>0, <2>1 DEF HalfWay
    <2> QED  BY <1>4, <2>2, <2>3, <2>4 DEF RingOK
  <1>5. CASE /\ FreeCnt(r) >= n /\ s.ring \in RingType
             /\ Entered(r, n, block, s)
             /\ Rejected(r, n, s) \/ Submitted(r, n, s)
    <2>1. FreeCnt(s.ring) >= 0
      <3>1. \/ s.ring.PreCnt = r.PreCnt + n /\ s.ring.HwCnt = r.HwCnt
            \/ s.ring.PreCnt = r.PreCnt /\ s.ring.HwCnt = r.HwCnt + n
        BY <1>5 DEF Rejected, Submitted
      <3> QED  BY <1>1, <1>5, <3>1, RingFields DEF FreeCnt
    <2>2. Held(s.ring) /\ r.FreeHead \in s.ring.stored
      BY <1>2, <1>5 DEF Entered, Held
    <2>3. block => Bd(r.FreeHead, n - 1) \in s.ring.notifyinfo
      BY <1>5 DEF Entered
    <2> QED  BY <1>0, <1>5, <2>1, <2>2, <2>3 DEF Entered, RingOK
  <1> QED  BY <1>3, <1>4, <1>5, SendWays

(***************************************************************************)
(* With the table and the ring in step, no send ends half-way.             *)
(***************************************************************************)
LEMMA SendSlots ==
  ASSUME NEW r, RingOK(r), NEW n \in 1 .. MaxChain, NEW block \in BOOLEAN,
         NEW s, s = emacps_sgsend(r, n, block), Slots(r)
  PROVE  /\ Slots(s.ring)
         /\ \/ NothingAllocated(r, s)
            \/ FreeCnt(r) >= n /\ Entered(r, n, block, s) /\ Submitted(r, n, s)
  <1> DEFINE h == r.HwHead
             c == r.HwCnt
  <1>1. /\ n \in Nat /\ N_TX_DESC \in Nat /\ h \in Bds /\ c \in Nat /\ c \in 0 .. N_TX_DESC
        /\ r.FreeHead = Bd(h, c) /\ r.PreHead = r.FreeHead
        /\ r.stored = Span(h, c) /\ r.PreCnt = 0
    BY TxAssumption, RingFields DEF Slots
  <1>2. ASSUME FreeCnt(r) >= n PROVE c + n <= N_TX_DESC
    BY <1>1, <1>2 DEF FreeCnt
  <1>3. CASE NothingAllocated(r, s)
    BY <1>3 DEF NothingAllocated
  <1>4. CASE /\ FreeCnt(r) >= n /\ s.ring \in RingType
             /\ \E m \in 0 .. n - 1 : HalfWay(r, n, s, m)
    <2>1. PICK m \in 0 .. n - 1 : HalfWay(r, n, s, m)
      BY <1>4
    <2>2. /\ m \in Nat /\ c + m <= N_TX_DESC /\ c + m \in 0 .. N_TX_DESC - 1
          /\ ~(c + m < c)
      BY <1>1, <1>2, <1>4
    <2>3. Bd(r.FreeHead, m) = Bd(h, c + m)
      BY <1>1, <2>2, BdShift
    <2>4. Bd(h, c + m) \notin Span(h, c)
      BY <1>1, <2>2, SpanMember
    <2> QED  BY <1>1, <2>1, <2>3, <2>4 DEF HalfWay
  <1>5. CASE /\ FreeCnt(r) >= n /\ s.ring \in RingType
             /\ Entered(r, n, block, s)
             /\ Rejected(r, n, s) \/ Submitted(r, n, s)
    <2>1. Submitted(r, n, s)
      BY <1>1, <1>5 DEF Rejected
    <2>2. Span(h, c + n) = Span(h, c) \cup Span(Bd(h, c), n) /\ Bd(Bd(h, c), n) = Bd(h, c + n)
      BY <1>1, <1>2, <1>5, SpanJoin, BdShift
    <2>3. Slots(s.ring)
      BY <1>1, <1>5, <2>1, <2>2 DEF Slots, Entered, Submitted
    <2> QED  BY <1>5, <2>1, <2>3
  <1> QED  BY <1>3, <1>4, <1>5, SendWays

(***************************************************************************)
(* A change of BDs outside the hardware's group leaves its frames alone.   *)
(***************************************************************************)
LEMMA FramesLocal ==
  ASSUME NEW r, RingOK(r), NEW q, RingOK(q), NEW X,
         X \cap Span(r.HwHead, r.HwCnt) = {},
         q.HwHead = r.HwHead, q.HwCnt >= r.HwCnt, q.last \ X = r.last \ X,
         NEW k \in 0 .. r.HwCnt
  PROVE  k \in Ends(q) <=> k \in Ends(r)
  <1>1. r.HwCnt \in 0 .. N_TX_DESC /\ q.HwCnt \in 0 .. N_TX_DESC /\ N_TX_DESC \in Nat
    BY RingFields
  <1>2. CASE k = 0
    BY <1>2, EndsType
  <1>3. CASE k # 0
    <2>1. k \in 1 .. r.HwCnt /\ k \in 1 .. q.HwCnt /\ k - 1 \in 0 .. r.HwCnt - 1
      BY <1>1, <1>3
    <2>2. Bd(r.HwHead, k - 1) \notin X
      BY <2>1 DEF Span
    <2>3. k \in Ends(r) <=> Bd(r.HwHead, k - 1) \in r.last
      BY <2>1, EndsMember
    <2>4. k \in Ends(q) <=> Bd(r.HwHead, k - 1) \in q.last
      BY <2>1, EndsMember
    <2> QED  BY <2>2, <2>3, <2>4
  <1> QED  BY <1>2, <1>3

LEMMA RowLocal ==
  ASSUME NEW r, RingOK(r), NEW q, RingOK(q), NEW X,
         X \cap Span(r.HwHead, r.HwCnt) = {},
         q.HwHead = r.HwHead, q.HwCnt = r.HwCnt, q.PreHead = r.PreHead,
         q.last \ X = r.last \ X, q.used \ X = r.used \ X, r.stored \subseteq q.stored,
         NEW done, NEW closed, RowOfFrames(r, {}, done)
  PROVE  RowOfFrames(q, closed, done \ X)
  <1>1. r.HwCnt \in 0 .. N_TX_DESC /\ N_TX_DESC \in Nat
    BY RingFields
  <1>2. Ends(q) = Ends(r)
    <2>1. Ends(q) \subseteq 0 .. r.HwCnt /\ Ends(r) \subseteq 0 .. r.HwCnt
      BY EndsType
    <2>2. q.HwCnt >= r.HwCnt
      BY <1>1
    <2>3. \A k \in 0 .. r.HwCnt : k \in Ends(q) <=> k \in Ends(r)
      BY <2>2, FramesLocal
    <2> QED  BY <2>1, <2>3
  <1>3. ASSUME NEW k \in Ends(q), NEW j \in 0 .. q.HwCnt - 1, SameFrame(q, k, j),
               Bd(q.HwHead, k) \in q.used \ closed
        PROVE  Bd(q.HwHead, j) \in done \ X
    <2>1. SameFrame(r, k, j) /\ k \in 0 .. r.HwCnt - 1
      BY <1>1, <1>2, <1>3, EndsType DEF SameFrame
    <2>2. Bd(r.HwHead, k) \notin X /\ Bd(r.HwHead, j) \notin X
      BY <2>1 DEF Span
    <2>3. Bd(r.HwHead, k) \in r.used \ {}
      BY <1>3, <2>2
    <2> QED  BY <1>2, <1>3, <2>1, <2>2, <2>3 DEF RowOfFrames, MarkedIsSent
  <1> QED  BY <1>2, <1>3 DEF RowOfFrames, MarkedIsSent

(***************************************************************************)
(* The row after a frame was submitted: one frame more, at its end.        *)
(***************************************************************************)
LEMMA SubmittedPlaces ==
  ASSUME NEW r, RingOK(r), NEW n \in 1 .. MaxChain, NEW block \in BOOLEAN,
         NEW s, RingOK(s.ring), FreeCnt(r) >= n,
         Entered(r, n, block, s), Submitted(r, n, s),
         r.PreHead = Bd(r.HwHead, r.HwCnt), Span(r.HwHead, r.HwCnt) \subseteq r.stored
  PROVE  /\ r.HwCnt + n <= N_TX_DESC
         /\ s.filled \cap Span(r.HwHead, r.HwCnt) = {}
         /\ \A k \in 0 .. r.HwCnt : k \in Ends(s.ring) <=> k \in Ends(r)
         /\ \A k \in 0 .. n - 1 : Bd(r.FreeHead, k) = Bd(r.HwHead, r.HwCnt + k)
         /\ \A k \in r.HwCnt + 1 .. r.HwCnt + n - 1 : k \notin Ends(s.ring)
         /\ r.HwCnt + n \in Ends(s.ring)
  <1> DEFINE h == r.HwHead
             c == r.HwCnt
             f == r.FreeHead
             q == s.ring
  <1>1. /\ n \in Nat /\ N_TX_DESC \in Nat /\ h \in Bds /\ c \in Nat /\ c \in 0 .. N_TX_DESC
        /\ f = Bd(h, c) /\ r.PreCnt \in Nat /\ n >= 1
        /\ q.HwHead = h /\ q.HwCnt = c + n /\ s.filled = Span(f, n)
    BY TxAssumption, RingFields DEF Submitted, Entered
  <1>2. c + n <= N_TX_DESC
    BY <1>1 DEF FreeCnt
  <1>3. s.filled \cap Span(h, c) = {}
    BY <1>1 DEF Entered
  <1>4. \A k \in 0 .. c : k \in Ends(q) <=> k \in Ends(r)
    <2>1. q.last \ s.filled = r.last \ s.filled
      <3>1. n \in 1 .. N_TX_DESC
        BY TxAssumption
      <3>2. Bd(f, n - 1) \in Span(f, n)
        BY <3>1, OpenedInSpan
      <3> QED  BY <3>2 DEF Entered
    <2>2. q.HwCnt >= c
      BY <1>1
    <2> QED  BY <1>1, <1>3, <2>1, <2>2, FramesLocal
  <1>5. \A k \in 0 .. n - 1 : Bd(f, k) = Bd(h, c + k)
    <2> TAKE k \in 0 .. n - 1
    <2>1. k \in Nat /\ c + k <= N_TX_DESC
      BY <1>1, <1>2
    <2> QED  BY <1>1, <2>1, BdShift
  <1>6. ASSUME NEW k \in c + 1 .. c + n PROVE k \in Ends(q) <=> k = c + n
    <2>1. /\ k \in 1 .. q.HwCnt /\ k - 1 - c \in 0 .. n - 1 /\ c + (k - 1 - c) = k - 1
          /\ k - 1 - c \in 0 .. N_TX_DESC - 1 /\ n - 1 \in 0 .. N_TX_DESC - 1
      BY <1>1, <1>2
    <2>2. k \in Ends(q) <=> Bd(h, k - 1) \in q.last
      BY <1>1, <2>1, EndsMember
    <2>3. Bd(h, k - 1) = Bd(f, k - 1 - c)
      BY <1>5, <2>1
    <2>4. Bd(f, k - 1 - c) \in Span(f, n)
      BY <2>1 DEF Span
    <2>5. Bd(h, k - 1) \in q.last <=> Bd(f, k - 1 - c) = Bd(f, n - 1)
      BY <2>3, <2>4 DEF Entered
    <2>6. f \in Bds
      BY RingFields
    <2>7. Bd(f, k - 1 - c) = Bd(f, n - 1) <=> k - 1 - c = n - 1
      BY <2>1, <2>6, BdInjective
    <2>8. k - 1 - c = n - 1 <=> k = c + n
      BY <1>1
    <2> QED  BY <2>2, <2>5, <2>7, <2>8
  <1>7. /\ \A k \in c + 1 .. c + n - 1 : k \in c + 1 .. c + n /\ k # c + n
        /\ c + n \in c + 1 .. c + n
    BY <1>1
  <1> QED  BY <1>2, <1>3, <1>4, <1>5, <1>6, <1>7

LEMMA SendRow ==
  ASSUME NEW r, RingOK(r), Held(r), NEW n \in 1 .. MaxChain, NEW block \in BOOLEAN,
         NEW s, s = emacps_sgsend(r, n, block), NEW done, RowOfFrames(r, {}, done)
  PROVE  RowOfFrames(s.ring, IF s.looped THEN {r.FreeHead} ELSE {}, done \ s.filled)
  <1> DEFINE h == r.HwHead
             c == r.HwCnt
             f == r.FreeHead
             q == s.ring
             closed == IF s.looped THEN {f} ELSE {}
  <1>1. /\ n \in Nat /\ n \in 1 .. N_TX_DESC /\ N_TX_DESC \in Nat /\ h \in Bds
        /\ c \in Nat /\ c \in 0 .. N_TX_DESC /\ n >= 1
        /\ RingOK(q) /\ Span(h, c) \subseteq r.stored
    <2>1. RingOK(q)
      BY SendRing
    <2>2. Span(h, c) \subseteq r.stored
      BY DEF RowOfFrames
    <2> QED  BY TxAssumption, RingFields, <2>1, <2>2
  <1>2. /\ OpenAllButFirst(r, n) \subseteq Span(f, n) /\ Bd(f, n - 1) \in Span(f, n)
    BY <1>1, OpenedInSpan
  <1>3. CASE NothingAllocated(r, s)
    <2>1. q = r /\ closed = {} /\ done \ s.filled = done
      BY <1>3 DEF NothingAllocated
    <2> QED  BY <2>1
  <1>4. CASE \E m \in 0 .. n - 1 : HalfWay(r, n, s, m)
    <2>1. PICK m \in 0 .. n - 1 : HalfWay(r, n, s, m)
      BY <1>4
    <2> DEFINE X == s.filled
    <2>2. /\ X \cap Span(h, c) = {} /\ q.HwHead = h /\ q.HwCnt = c /\ q.PreHead = r.PreHead
          /\ q.last \ X = r.last \ X /\ q.used \ X = r.used \ X /\ r.stored \subseteq q.stored
      BY <1>1, <2>1 DEF HalfWay
    <2> HIDE DEF X, q, closed
    <2>3. RowOfFrames(q, closed, done \ X)
      BY <1>1, <2>2, RowLocal
    <2> QED  BY <2>3 DEF X, q, closed
  <1>5. CASE Entered(r, n, block, s) /\ Rejected(r, n, s)
    <2> DEFINE X == s.filled
    <2>2. /\ X \cap Span(h, c) = {} /\ q.HwHead = h /\ q.HwCnt = c /\ q.PreHead = r.PreHead
          /\ q.last \ X = r.last \ X /\ q.used \ X = r.used \ X /\ r.stored \subseteq q.stored
      BY <1>1, <1>2, <1>5 DEF Entered, Rejected
    <2> HIDE DEF X, q, closed
    <2>3. RowOfFrames(q, closed, done \ X)
      BY <1>1, <2>2, RowLocal
    <2> QED  BY <2>3 DEF X, q, closed
  <1>6. CASE FreeCnt(r) >= n /\ Entered(r, n, block, s) /\ Submitted(r, n, s)
    <2>1. /\ c + n <= N_TX_DESC
          /\ s.filled \cap Span(h, c) = {}
          /\ \A k \in 0 .. c : k \in Ends(q) <=> k \in Ends(r)
          /\ \A k \in 0 .. n - 1 : Bd(f, k) = Bd(h, c + k)
          /\ \A k \in c + 1 .. c + n - 1 : k \notin Ends(q)
          /\ c + n \in Ends(q)
      BY <1>1, <1>6, SubmittedPlaces DEF RowOfFrames
    <2>2. /\ q.HwHead = h /\ q.HwCnt = c + n /\ closed = {f} /\ f = Bd(h, c)
          /\ q.PreHead = Bd(f, n) /\ s.filled = Span(f, n)
          /\ q.stored = r.stored \cup Span(f, n)
          /\ q.used = r.used \ OpenAllButFirst(r, n) /\ c \in Ends(r)
      BY <1>6 DEF Entered, Submitted, RowOfFrames
    <2>3. q.PreHead = Bd(q.HwHead, q.HwCnt)
      BY <1>1, <2>1, <2>2, BdShift
    <2>4. Span(q.HwHead, q.HwCnt) \subseteq q.stored
      BY <1>1, <2>1, <2>2, SpanJoin
    <2>5. ASSUME NEW k \in Ends(q), NEW j \in 0 .. q.HwCnt - 1, SameFrame(q, k, j),
                 Bd(q.HwHead, k) \in q.used \ closed
          PROVE  Bd(q.HwHead, j) \in done \ s.filled
      <3>1. k \in 0 .. c + n - 1 /\ k <= j /\ j \in 0 .. c + n - 1
        BY <1>1, <2>2, <2>5, EndsType DEF SameFrame
      <3>2. k # c
        BY <2>2, <2>5
      <3>3. k \in 0 .. c - 1
        <4>1. k \notin c + 1 .. c + n - 1
          BY <2>1, <2>5
        <4> QED  BY <1>1, <3>1, <3>2, <4>1
      <3>4. j \in 0 .. c - 1
        <4>1. c \in Ends(q)
          BY <1>1, <2>1, <2>2
        <4>2. ~(k < c /\ c <= j)
          BY <2>5, <4>1 DEF SameFrame
        <4> QED  BY <1>1, <3>1, <3>3, <4>2
      <3>5. k \in Ends(r) /\ SameFrame(r, k, j)
        <4>1. k \in Ends(r)
          BY <1>1, <2>1, <2>5, <3>3
        <4>2. \A e \in Ends(r) : e \in Ends(q)
          BY <2>1, EndsType
        <4> QED  BY <2>5, <4>1, <4>2 DEF SameFrame
      <3>6. Bd(h, j) \in Span(h, c)
        BY <3>4 DEF Span
      <3>7. Bd(h, k) \in r.used \ {}
        BY <2>2, <2>5
      <3>8. Bd(h, j) \in done
        BY <3>4, <3>5, <3>7 DEF RowOfFrames, MarkedIsSent
      <3> QED  BY <2>1, <2>2, <3>6, <3>8
    <2>6. MarkedIsSent(q, closed, done \ s.filled)
      BY <2>5 DEF MarkedIsSent
    <2> QED  BY <2>1, <2>2, <2>3, <2>4, <2>6 DEF RowOfFrames
  <1> QED  BY <1>3, <1>4, <1>5, <1>6, SendWays

LEMMA SendStands ==
  ASSUME NEW r, RingOK(r), Held(r), NEW n \in 1 .. MaxChain, NEW block \in BOOLEAN,
         NEW s, s = emacps_sgsend(r, n, block), Slots(r),
         NEW done, RowOfFrames(r, {}, done), NEW p \in 0 .. r.HwCnt, NEW ptr,
         HwStandsAt(p, r, {}, ptr)
  PROVE  /\ p \in 0 .. s.ring.HwCnt
         /\ HwStandsAt(p, s.ring, IF s.looped THEN {r.FreeHead} ELSE {}, ptr)
  <1> DEFINE h == r.HwHead
             c == r.HwCnt
             f == r.FreeHead
             q == s.ring
             closed == IF s.looped THEN {f} ELSE {}
  <1>1. /\ n \in Nat /\ n \in 1 .. N_TX_DESC /\ N_TX_DESC \in Nat /\ h \in Bds /\ f \in Bds
        /\ c \in Nat /\ c \in 0 .. N_TX_DESC /\ n >= 1
        /\ RingOK(q) /\ r.stored = Span(h, c)
    <2>1. RingOK(q)
      BY SendRing
    <2> QED  BY TxAssumption, RingFields, <2>1 DEF Slots
  <1>2. CASE NothingAllocated(r, s)
    <2>1. q = r /\ closed = {}
      BY <1>2 DEF NothingAllocated
    <2> QED  BY <2>1
  <1>3. CASE FreeCnt(r) >= n /\ Entered(r, n, block, s) /\ Submitted(r, n, s)
    <2>1. /\ c + n <= N_TX_DESC
          /\ \A k \in 0 .. c : k \in Ends(q) <=> k \in Ends(r)
          /\ \A k \in 0 .. n - 1 : Bd(f, k) = Bd(h, c + k)
          /\ \A k \in c + 1 .. c + n - 1 : k \notin Ends(q)
      BY <1>1, <1>3, SubmittedPlaces DEF RowOfFrames
    <2>2. /\ q.HwHead = h /\ q.HwCnt = c + n /\ closed = {f} /\ f = Bd(h, c)
          /\ q.used = r.used \ OpenAllButFirst(r, n) /\ c \in Ends(r)
          /\ Span(f, n) \cap r.stored = {}
      BY <1>3 DEF Entered, Submitted, RowOfFrames
    <2>3. /\ OpenAllButFirst(r, n) \subseteq Span(f, n) /\ f \in Span(f, n)
          /\ f \notin OpenAllButFirst(r, n)
      BY <1>1, OpenedInSpan
    <2>4. f \in q.used
      BY <1>1, <2>2, <2>3 DEF Held
    <2>5. ASSUME NEW k \in 0 .. q.HwCnt - 1
          PROVE  Bd(h, k) \in q.used <=> (k \in Ends(q) /\ k < p) \/ Bd(h, k) \in closed
      <3>1. CASE k \in 0 .. c - 1
        <4>1. k \in 0 .. c
          BY <1>1, <3>1
        <4>2. Bd(h, k) \in Span(h, c)
          BY <3>1 DEF Span
        <4>3. Bd(h, k) \notin Span(f, n)
          BY <1>1, <2>2, <4>2
        <4>4. Bd(h, k) # f /\ Bd(h, k) \notin OpenAllButFirst(r, n)
          BY <2>3, <4>3
        <4>5. Bd(h, k) \in r.used <=> k \in Ends(r) /\ k < p
          BY <3>1 DEF HwStandsAt
        <4> QED  BY <2>1, <2>2, <4>1, <4>4, <4>5
      <3>2. CASE k = c
        BY <2>2, <2>4, <3>2
      <3>3. CASE k \in c + 1 .. c + n - 1
        <4>1. k - c \in 1 .. n - 1 /\ k - c \in 0 .. n - 1 /\ c + (k - c) = k
          BY <1>1, <3>3
        <4>2. Bd(h, k) = Bd(f, k - c)
          BY <2>1, <4>1
        <4>3. Bd(h, k) \in OpenAllButFirst(r, n)
          BY <4>1, <4>2 DEF OpenAllButFirst
        <4> QED  BY <2>1, <2>2, <2>3, <3>3, <4>3
      <3> QED  BY <1>1, <2>2, <3>1, <3>2, <3>3
    <2>6. c \in Ends(q) /\ c \in p .. q.HwCnt - 1 /\ p \in 0 .. q.HwCnt /\ p \in Ends(q)
      BY <1>1, <2>1, <2>2 DEF HwStandsAt
    <2>7. ptr = Bd(h, p)
      BY DEF HwStandsAt
    <2>8. \A b \in closed : \E o \in Ends(q) : o \in p .. q.HwCnt - 1 /\ b = Bd(h, o)
      BY <2>2, <2>6
    <2>9. HwStandsAt(p, q, closed, ptr)
      BY <2>2, <2>5, <2>6, <2>7, <2>8 DEF HwStandsAt
    <2> QED  BY <2>6, <2>9
  <1> QED  BY <1>2, <1>3, SendSlots

-----------------------------------------------------------------------------

(***************************************************************************)
(* The frame the hardware finds at a place of the row goes up to the next  *)
(* end.                                                                    *)
(***************************************************************************)
LEMMA FrameInRow ==
  ASSUME NEW r, RingOK(r), r.HwCnt \in Ends(r), NEW p \in 0 .. r.HwCnt - 1,
         NEW b, b = Bd(r.HwHead, p)
  PROVE  \E e \in p + 1 .. r.HwCnt :
           /\ e \in Ends(r)
           /\ \A x \in p + 1 .. e - 1 : x \notin Ends(r)
           /\ FrameEnds(r, b) # {} /\ Min(FrameEnds(r, b)) = e - p
           /\ FrameAt(r, b) = {Bd(r.HwHead, j) : j \in p .. e - 1}
           /\ b \in FrameAt(r, b)
           /\ Bd(b, Min(FrameEnds(r, b))) = Bd(r.HwHead, e)
  <1> DEFINE h == r.HwHead
             c == r.HwCnt
             m == Min(FrameEnds(r, b))
  <1>1. h \in Bds /\ c \in Nat /\ c <= N_TX_DESC /\ N_TX_DESC \in Nat /\ p \in Nat
    BY RingFields
  <1>2. ASSUME NEW k \in 1 .. c - p PROVE k \in FrameEnds(r, b) <=> p + k \in Ends(r)
    <2>1. /\ k - 1 \in Nat /\ p + (k - 1) <= N_TX_DESC /\ p + k \in 1 .. c
          /\ p + (k - 1) = (p + k) - 1 /\ k \in 1 .. N_TX_DESC
      BY <1>1
    <2>2. Bd(b, k - 1) = Bd(h, p + (k - 1))
      BY <1>1, <2>1, BdShift
    <2>3. p + k \in Ends(r) <=> Bd(h, (p + k) - 1) \in r.last
      BY <2>1, EndsMember
    <2> QED  BY <2>1, <2>2, <2>3 DEF FrameEnds
  <1>3. c - p \in 1 .. c - p /\ p + (c - p) = c
    BY <1>1
  <1>4. c - p \in FrameEnds(r, b) /\ FrameEnds(r, b) \subseteq Nat
    BY <1>2, <1>3 DEF FrameEnds
  <1>5. m \in FrameEnds(r, b) /\ \A y \in FrameEnds(r, b) : m <= y
    BY <1>4, MinOf
  <1>6. m \in 1 .. c - p
    <2>1. m \in 1 .. N_TX_DESC
      BY <1>5 DEF FrameEnds
    <2> HIDE DEF m
    <2> QED  BY <1>1, <1>4, <1>5, <2>1
  <1> HIDE DEF m
  <1> DEFINE e == p + m
  <1>7. e \in p + 1 .. c /\ e - p = m
    BY <1>1, <1>6
  <1>8. e \in Ends(r)
    BY <1>2, <1>5, <1>6
  <1>9. ASSUME NEW x \in p + 1 .. e - 1 PROVE x \notin Ends(r)
    <2>1. x - p \in 1 .. c - p /\ ~(m <= x - p) /\ p + (x - p) = x
      BY <1>1, <1>6
    <2> QED  BY <1>2, <1>5, <2>1
  <1>10. FrameAt(r, b) = {Bd(h, j) : j \in p .. e - 1}
    <2>1. FrameAt(r, b) = Span(b, m)
      BY DEF FrameAt, Span, m
    <2>2. m \in Nat /\ p + m <= N_TX_DESC
      BY <1>1, <1>6
    <2> QED  BY <1>1, <2>1, <2>2, SpanShift
  <1>11. p \in p .. e - 1
    BY <1>1, <1>6
  <1>12. b \in FrameAt(r, b)
    BY <1>10, <1>11
  <1>13. Bd(b, m) = Bd(h, e)
    <2>1. m \in Nat /\ p + m <= N_TX_DESC
      BY <1>1, <1>6
    <2> QED  BY <1>1, <2>1, BdShift
  <1> QED  BY <1>4, <1>7, <1>8, <1>9, <1>10, <1>12, <1>13 DEF m

LEMMA TransmitRow ==
  ASSUME NEW r, RingOK(r), NEW b \in Bds, NEW q, q = [r EXCEPT !.used = @ \cup {b}],
         NEW closed, NEW done, RowOfFrames(r, closed, done)
  PROVE  RowOfFrames(q, closed, done \cup FrameAt(r, b))
  <1>1. /\ q.HwHead = r.HwHead /\ q.HwCnt = r.HwCnt /\ q.PreHead = r.PreHead
        /\ q.last = r.last /\ q.stored = r.stored /\ q.used = r.used \cup {b}
    BY DEF RingOK, RingType
  <1>2. Ends(q) = Ends(r)
    BY <1>1 DEF Ends
  <1>3. ASSUME NEW k \in Ends(q), NEW j \in 0 .. q.HwCnt - 1, SameFrame(q, k, j),
               Bd(q.HwHead, k) \in q.used \ closed
        PROVE  Bd(q.HwHead, j) \in done \cup FrameAt(r, b)
    <2>0. k \in Ends(r) /\ SameFrame(r, k, j) /\ k <= j /\ j \in 0 .. r.HwCnt - 1
      BY <1>1, <1>2, <1>3 DEF SameFrame
    <2>1. CASE Bd(r.HwHead, k) \in r.used \ closed
      BY <1>1, <2>0, <2>1 DEF RowOfFrames, MarkedIsSent
    <2>2. CASE Bd(r.HwHead, k) = b
      <3>1. r.HwCnt \in Nat /\ k \in 0 .. r.HwCnt - 1
        BY <2>0, EndsType, RingFields
      <3>2. PICK e \in k + 1 .. r.HwCnt :
              e \in Ends(r) /\ FrameAt(r, b) = {Bd(r.HwHead, x) : x \in k .. e - 1}
        BY <2>2, <3>1, FrameInRow DEF RowOfFrames
      <3>3. ~(k < e /\ e <= j)
        BY <2>0, <3>2 DEF SameFrame
      <3>4. j \in k .. e - 1
        BY <2>0, <3>1, <3>3
      <3> QED  BY <1>1, <3>2, <3>4
    <2> QED  BY <1>1, <1>3, <2>1, <2>2
  <1> QED  BY <1>1, <1>2, <1>3 DEF RowOfFrames, MarkedIsSent

(***************************************************************************)
(* At the end of the row the hardware meets a mark.                        *)
(***************************************************************************)
LEMMA EndIsMarked ==
  ASSUME NEW r, RingOK(r), Held(r), Slots(r), NEW closed, NEW ptr,
         HwStandsAt(r.HwCnt, r, closed, ptr)
  PROVE  ptr \in r.used
  <1> DEFINE h == r.HwHead
             c == r.HwCnt
  <1>1. h \in Bds /\ c \in 0 .. N_TX_DESC /\ N_TX_DESC \in Nat \ {0} /\ ptr = Bd(h, c)
    BY RingFields DEF HwStandsAt
  <1>2. CASE c < N_TX_DESC
    <2>1. c \in 0 .. N_TX_DESC - 1 /\ ~(c < c)
      BY <1>1, <1>2
    <2>2. Bd(h, c) \notin Span(h, c) /\ Bd(h, c) \in Bds
      BY <1>1, <2>1, SpanMember, BdType
    <2> QED  BY <1>1, <2>2 DEF Held, Slots
  <1>3. CASE c = N_TX_DESC
    <2>1. 0 \in 0 .. c - 1 /\ 0 < c /\ 0 \in Ends(r)
      BY <1>1, <1>3, EndsType
    <2>2. Bd(h, 0) = Bd(h, c)
      BY <1>1, <1>3, BdZero
    <2> QED  BY <1>1, <2>1, <2>2 DEF HwStandsAt
  <1> QED  BY <1>1, <1>2, <1>3

(***************************************************************************)
(* Where the hardware stands it meets a mark or a frame without marks.     *)
(***************************************************************************)
LEMMA MarkOrFrame ==
  ASSUME NEW r, RingOK(r), Held(r), Slots(r), NEW closed, NEW done,
         RowOfFrames(r, closed, done), NEW ptr, NEW p \in 0 .. r.HwCnt,
         HwStandsAt(p, r, closed, ptr)
  PROVE  IsOpen(r, ptr) \/ ptr \in r.used
  <1> SUFFICES ASSUME ptr \notin r.used PROVE IsOpen(r, ptr)
    OBVIOUS
  <1> DEFINE h == r.HwHead
             c == r.HwCnt
  <1>1. h \in Bds /\ c \in Nat /\ c <= N_TX_DESC /\ N_TX_DESC \in Nat /\ ptr = Bd(h, p)
    BY RingFields DEF HwStandsAt
  <1>2. p # c
    BY EndIsMarked
  <1>3. p \in 0 .. c - 1
    BY <1>1, <1>2
  <1>4. PICK e \in p + 1 .. c :
          /\ \A x \in p + 1 .. e - 1 : x \notin Ends(r)
          /\ FrameEnds(r, ptr) # {} /\ FrameAt(r, ptr) = {Bd(h, j) : j \in p .. e - 1}
    BY <1>1, <1>3, FrameInRow DEF RowOfFrames
  <1>5. ASSUME NEW j \in p .. e - 1, Bd(h, j) \in r.used PROVE FALSE
    <2>1. j \in 0 .. c - 1 /\ ~(j < p) /\ j \in 0 .. N_TX_DESC - 1
      BY <1>1
    <2>2. Bd(h, j) \in closed
      BY <1>5, <2>1 DEF HwStandsAt
    <2>3. PICK o \in Ends(r) : o \in p .. c - 1 /\ Bd(h, j) = Bd(h, o)
      BY <2>2 DEF HwStandsAt
    <2>4. o \in 0 .. N_TX_DESC - 1
      BY <1>1, <2>3
    <2>5. j = o
      BY <1>1, <2>1, <2>3, <2>4, BdInjective
    <2>6. j = p
      <3>1. j \notin p + 1 .. e - 1
        BY <1>4, <2>5
      <3> QED  BY <1>1, <3>1
    <2> QED  BY <1>1, <1>5, <2>6
  <1>6. FrameAt(r, ptr) \cap r.used = {}
    BY <1>4, <1>5
  <1> QED  BY <1>4, <1>6 DEF IsOpen

LEMMA TransmitStands ==
  ASSUME NEW r, RingOK(r), Held(r), Slots(r), NEW closed, NEW done,
         RowOfFrames(r, closed, done), NEW ptr, NEW p \in 0 .. r.HwCnt,
         HwStandsAt(p, r, closed, ptr), IsOpen(r, ptr),
         NEW q, q = [r EXCEPT !.used = @ \cup {ptr}]
  PROVE  \E x \in 0 .. q.HwCnt : HwStandsAt(x, q, closed, Bd(ptr, Min(FrameEnds(r, ptr))))
  <1> DEFINE h == r.HwHead
             c == r.HwCnt
  <1>1. /\ h \in Bds /\ c \in Nat /\ c <= N_TX_DESC /\ N_TX_DESC \in Nat /\ ptr = Bd(h, p)
        /\ q.HwHead = h /\ q.HwCnt = c /\ q.last = r.last /\ q.used = r.used \cup {ptr}
    BY RingFields DEF HwStandsAt, RingOK, RingType
  <1>2. Ends(q) = Ends(r)
    BY <1>1 DEF Ends
  <1>3. p \in 0 .. c - 1 /\ p \in 0 .. N_TX_DESC - 1
    <2>1. CASE p = c
      <3>1. ptr \in r.used
        BY <2>1, EndIsMarked
      <3>2. ptr \in FrameAt(r, ptr)
        <4>1. FrameEnds(r, ptr) \subseteq Nat \ {0} /\ FrameEnds(r, ptr) # {}
          BY <1>1 DEF FrameEnds, IsOpen
        <4>2. Min(FrameEnds(r, ptr)) \in Nat \ {0}
          BY <4>1, MinOf
        <4>3. 0 \in 0 .. Min(FrameEnds(r, ptr)) - 1
          BY <4>2
        <4>4. ptr \in Bds
          BY <1>1, BdType
        <4>5. Bd(ptr, 0) = ptr
          BY <4>4, BdZero
        <4> QED  BY <4>3, <4>5 DEF FrameAt
      <3> QED  BY <3>1, <3>2 DEF IsOpen
    <2>2. CASE p # c
      BY <1>1, <2>2
    <2> QED  BY <2>1, <2>2
  <1>4. PICK e \in p + 1 .. c :
          /\ e \in Ends(r) /\ \A x \in p + 1 .. e - 1 : x \notin Ends(r)
          /\ ptr \in FrameAt(r, ptr)
          /\ Bd(ptr, Min(FrameEnds(r, ptr))) = Bd(h, e)
    BY <1>1, <1>3, FrameInRow DEF RowOfFrames
  <1>5. ptr \notin r.used
    BY <1>4 DEF IsOpen
  <1>6. ASSUME NEW k \in 0 .. c - 1
        PROVE  Bd(h, k) \in q.used <=> (k \in Ends(q) /\ k < e) \/ Bd(h, k) \in closed
    <2>1. k \in 0 .. N_TX_DESC - 1
      BY <1>1
    <2>2. Bd(h, k) = ptr <=> k = p
      BY <1>1, <1>3, <2>1, BdInjective
    <2>3. k \in Ends(r) /\ k < e <=> (k \in Ends(r) /\ k < p) \/ k = p
      <3>1. p \in Ends(r)
        BY DEF HwStandsAt
      <3>2. k \in Ends(r) => k \notin p + 1 .. e - 1
        BY <1>4
      <3> QED  BY <1>1, <3>1, <3>2
    <2>4. Bd(h, k) \in r.used <=> (k \in Ends(r) /\ k < p) \/ Bd(h, k) \in closed
      BY DEF HwStandsAt
    <2> QED  BY <1>1, <1>2, <2>2, <2>3, <2>4
  <1>7. ASSUME NEW b \in closed
        PROVE  \E o \in Ends(q) : o \in e .. c - 1 /\ b = Bd(h, o)
    <2>1. PICK o \in Ends(r) : o \in p .. c - 1 /\ b = Bd(h, o)
      BY DEF HwStandsAt
    <2>2. b \in r.used
      <3>1. o \in 0 .. c - 1
        BY <1>1, <2>1
      <3> QED  BY <2>1, <3>1 DEF HwStandsAt
    <2>3. o # p
      BY <1>1, <1>5, <2>1, <2>2
    <2>4. o \notin p + 1 .. e - 1
      BY <1>4
    <2>5. o \in e .. c - 1
      BY <1>1, <2>1, <2>3, <2>4
    <2> QED  BY <1>2, <2>1, <2>5
  <1>8. e \in 0 .. q.HwCnt
    BY <1>1
  <1>9. HwStandsAt(e, q, closed, Bd(h, e))
    BY <1>1, <1>2, <1>4, <1>6, <1>7 DEF HwStandsAt
  <1> QED  BY <1>4, <1>8, <1>9

-----------------------------------------------------------------------------

(***************************************************************************)
(* The parts of the invariant in terms of the ring.                        *)
(***************************************************************************)
LEMMA InvParts ==
  /\ TypeOK <=> /\ RingOK(tx) /\ hw_ptr \in Bds /\ active \in BOOLEAN
                /\ pc \in {"idle", "send", "wait", "block"}
                /\ opening \in Bds /\ to_block_index \in Bds \cup {NoIndex}
                /\ err \in {"ERR_OK", "ERR_MEM", "ERR_BUF", "ERR_TIMEOUT"}
                /\ attached \in BOOLEAN /\ intr_on \in BOOLEAN
                /\ gptp_up \in BOOLEAN /\ sent \subseteq Bds /\ untimely \in BOOLEAN
  /\ SlotsMatchRing <=> (~untimely => Slots(tx))
  /\ OpenBdsAreHeld <=> Held(tx)
  BY DEF TypeOK, RingOK, RingType, SlotsMatchRing, Slots, OpenBdsAreHeld, Held, WithHw, Span

LEMMA InvPartsNext ==
  /\ TypeOK' <=> /\ RingOK(tx') /\ hw_ptr' \in Bds /\ active' \in BOOLEAN
                 /\ pc' \in {"idle", "send", "wait", "block"}
                 /\ opening' \in Bds /\ to_block_index' \in Bds \cup {NoIndex}
                 /\ err' \in {"ERR_OK", "ERR_MEM", "ERR_BUF", "ERR_TIMEOUT"}
                 /\ attached' \in BOOLEAN /\ intr_on' \in BOOLEAN
                 /\ gptp_up' \in BOOLEAN /\ sent' \subseteq Bds /\ untimely' \in BOOLEAN
  /\ SlotsMatchRing' <=> (~untimely' => Slots(tx'))
  /\ OpenBdsAreHeld' <=> Held(tx')
  BY DEF TypeOK, RingOK, RingType, SlotsMatchRing, Slots, OpenBdsAreHeld, Held, WithHw, Span

(***************************************************************************)
(* An empty ring with its heads together is in order.                      *)
(***************************************************************************)
LEMMA EmptyRing ==
  ASSUME NEW r, RingOK(r), r.HwCnt = 0, r.PreHead = r.HwHead, NEW done
  PROVE  /\ RowOfFrames(r, {}, done)
         /\ 0 \in 0 .. r.HwCnt /\ HwStandsAt(0, r, {}, r.HwHead)
  <1>1. r.HwHead \in Bds /\ Bd(r.HwHead, 0) = r.HwHead /\ 0 .. r.HwCnt - 1 = {}
    BY RingFields, BdZero
  <1>2. Span(r.HwHead, r.HwCnt) = {}
    BY <1>1 DEF Span
  <1>3. 0 \in Ends(r)
    BY EndsType
  <1>4. RowOfFrames(r, {}, done)
    BY <1>1, <1>2, <1>3 DEF RowOfFrames, MarkedIsSent
  <1>5. HwStandsAt(0, r, {}, r.HwHead)
    BY <1>1, <1>3 DEF HwStandsAt
  <1> QED  BY <1>4, <1>5

LEMMA NewRingSafe ==
  ASSUME NEW entries \in SUBSET Bds, NEW notify \in SUBSET Bds,
         NEW r, r = NewRing(entries, notify)
  PROVE  /\ RingOK(r) /\ Held(r) /\ r.HwCnt = 0 /\ r.HwHead = 0 /\ r.PreHead = 0
         /\ r.stored = entries /\ r.notifyinfo = notify
         /\ entries = {} => Slots(r)
  <1>1. 0 \in Bds /\ 0 \in 0 .. N_TX_DESC /\ N_TX_DESC - 0 - 0 >= 0
    BY TxAssumption DEF Bds
  <1>2. RingOK(r)
    BY <1>1 DEF NewRing, RingOK, RingType, FreeCnt
  <1>3. Span(0, 0) = {} /\ Bd(0, 0) = 0
    BY <1>1, BdZero DEF Span
  <1> QED  BY <1>2, <1>3 DEF NewRing, Held, Slots

LEMMA IInvInit == Init => IInv
  <1> SUFFICES ASSUME Init PROVE IInv
    OBVIOUS
  <1> USE DEF Init
  <1>1. /\ RingOK(tx) /\ Held(tx) /\ tx.HwCnt = 0 /\ tx.HwHead = 0 /\ tx.PreHead = 0 /\ Slots(tx)
    BY NewRingSafe
  <1>2. Closed = {}
    BY DEF Closed
  <1>3. 0 \in Bds
    BY TxAssumption DEF Bds
  <1>4. TypeOK /\ SlotsMatchRing /\ OpenBdsAreHeld
    BY <1>1, <1>3, InvParts
  <1>5. Framed /\ HwBetweenFrames
    BY <1>1, <1>2, EmptyRing DEF Framed, HwBetweenFrames
  <1> QED  BY <1>2, <1>4, <1>5 DEF IInv, BlockedIsNoted

(***************************************************************************)
(* The ring that low_level_output works on, reclaimed or not.              *)
(***************************************************************************)
LEMMA ReclaimFirst ==
  ASSUME IInv, pc = "idle",
         NEW r, r = IF FreeCnt(tx) <= TX_LOW THEN process_sent_bds(tx) ELSE tx
  PROVE  /\ RingOK(r) /\ Held(r)
         /\ ~untimely => /\ RowOfFrames(r, {}, sent) /\ Slots(r)
                         /\ \E p \in 0 .. r.HwCnt : HwStandsAt(p, r, {}, hw_ptr)
  <1>1. Closed = {}
    BY DEF Closed
  <1>2. /\ RingOK(tx) /\ Held(tx)
        /\ ~untimely => /\ RowOfFrames(tx, {}, sent) /\ Slots(tx)
                        /\ \E p \in 0 .. tx.HwCnt : HwStandsAt(p, tx, {}, hw_ptr)
    BY <1>1, InvParts DEF IInv, Framed, HwBetweenFrames
  <1>3. CASE r = tx
    BY <1>2, <1>3
  <1>4. CASE r = process_sent_bds(tx)
    <2>1. RingOK(r)
      BY <1>2, <1>4, ReclaimRing
    <2>2. Held(r) /\ (~untimely => Slots(r))
      BY <1>2, <1>4, ReclaimSlots
    <2>3. ~untimely => RowOfFrames(r, {}, sent)
      BY <1>2, <1>4, ReclaimRow
    <2>4. ~untimely => \E p \in 0 .. r.HwCnt : HwStandsAt(p, r, {}, hw_ptr)
      BY <1>2, <1>4, ReclaimStands
    <2> QED  BY <2>1, <2>2, <2>3, <2>4
  <1> QED  BY <1>3, <1>4

LEMMA OutputSafe ==
  ASSUME IInv, NEW n \in 1 .. MaxChain, NEW block \in BOOLEAN, low_level_output(n, block)
  PROVE  IInv'
  <1> DEFINE r == IF FreeCnt(tx) <= TX_LOW THEN process_sent_bds(tx) ELSE tx
             s == emacps_sgsend(r, n, block)
  <1>1. /\ pc = "idle" /\ UNCHANGED <<hardware, attached, intr_on, gptp_up, untimely>>
        /\ \/ /\ tx' = r /\ err' = "ERR_MEM"
              /\ UNCHANGED <<sent, pc, opening, to_block_index>>
           \/ /\ tx' = s.ring /\ sent' = sent \ s.filled /\ err' = UnbufferedErr(s)
              /\ \/ /\ s.looped
                    /\ pc' = "send" /\ opening' = r.FreeHead
                    /\ to_block_index' = IF block THEN Bd(r.FreeHead, n - 1) ELSE NoIndex
                 \/ /\ ~s.looped
                    /\ pc' = AfterSend(block)
                    /\ to_block_index' \in IF block THEN Bds ELSE {NoIndex}
                    /\ UNCHANGED opening
    BY DEF low_level_output, dma
  <1>2. /\ RingOK(r) /\ Held(r)
        /\ ~untimely => /\ RowOfFrames(r, {}, sent) /\ Slots(r)
                        /\ \E p \in 0 .. r.HwCnt : HwStandsAt(p, r, {}, hw_ptr)
    BY <1>1, ReclaimFirst
  <1>3. /\ RingOK(s.ring) /\ Held(s.ring)
        /\ s.looped \in BOOLEAN /\ s.ok \in BOOLEAN
        /\ s.looped => r.FreeHead \in s.ring.stored
        /\ s.ok => s.looped
        /\ s.ok /\ block => Bd(r.FreeHead, n - 1) \in s.ring.notifyinfo
    BY <1>2, SendRing
  <1>4. ~untimely => RowOfFrames(s.ring, IF s.looped THEN {r.FreeHead} ELSE {}, sent \ s.filled)
    BY <1>2, SendRow
  <1>5. ~untimely =>
          /\ Slots(s.ring)
          /\ \E p \in 0 .. s.ring.HwCnt :
               HwStandsAt(p, s.ring, IF s.looped THEN {r.FreeHead} ELSE {}, hw_ptr)
    BY <1>2, SendSlots, SendStands
  <1> HIDE DEF r, s
  <1>6. r.FreeHead \in Bds /\ Bd(r.FreeHead, n - 1) \in Bds
    <2>1. n - 1 \in 0 .. N_TX_DESC
      BY TxAssumption
    <2> QED  BY <1>2, <2>1, RingFields, BdType
  <1>7. CASE tx' = r /\ err' = "ERR_MEM" /\ UNCHANGED <<sent, pc, opening, to_block_index>>
    <2>1. Closed' = {}
      BY <1>1, <1>7 DEF Closed
    <2>2. /\ RingOK(tx') /\ Held(tx')
          /\ ~untimely' => /\ RowOfFrames(tx', {}, sent') /\ Slots(tx')
                           /\ \E p \in 0 .. tx'.HwCnt : HwStandsAt(p, tx', {}, hw_ptr')
      BY <1>1, <1>2, <1>7 DEF hardware
    <2>3. TypeOK' /\ SlotsMatchRing' /\ OpenBdsAreHeld'
      BY <1>1, <1>7, <2>2, InvParts, InvPartsNext DEF IInv, hardware
    <2>4. Framed' /\ HwBetweenFrames'
      BY <2>1, <2>2 DEF Framed, HwBetweenFrames
    <2>5. BlockedIsNoted'
      BY <1>7 DEF BlockedIsNoted
    <2> QED  BY <1>1, <2>1, <2>3, <2>4, <2>5 DEF IInv
  <1>8. CASE /\ tx' = s.ring /\ sent' = sent \ s.filled /\ err' = UnbufferedErr(s)
             /\ s.looped
             /\ pc' = "send" /\ opening' = r.FreeHead
             /\ to_block_index' = IF block THEN Bd(r.FreeHead, n - 1) ELSE NoIndex
    <2>1. Closed' = {r.FreeHead}
      BY <1>8 DEF Closed
    <2>2. /\ RingOK(tx') /\ Held(tx')
          /\ ~untimely' => /\ RowOfFrames(tx', Closed', sent') /\ Slots(tx')
                           /\ \E p \in 0 .. tx'.HwCnt : HwStandsAt(p, tx', Closed', hw_ptr')
      BY <1>1, <1>3, <1>4, <1>5, <1>8, <2>1 DEF hardware
    <2>3. TypeOK' /\ SlotsMatchRing' /\ OpenBdsAreHeld'
      <3>1. sent' \subseteq Bds
        BY <1>8, InvParts DEF IInv
      <3>2. err' \in {"ERR_OK", "ERR_MEM", "ERR_BUF", "ERR_TIMEOUT"}
        BY <1>8 DEF UnbufferedErr
      <3>3. to_block_index' \in Bds \cup {NoIndex} /\ opening' \in Bds
        BY <1>6, <1>8
      <3> QED  BY <1>1, <1>8, <2>2, <3>1, <3>2, <3>3, InvParts, InvPartsNext DEF IInv, hardware
    <2>4. Framed' /\ HwBetweenFrames'
      BY <2>2 DEF Framed, HwBetweenFrames
    <2>5. BlockedIsNoted'
      <3>1. err' = "ERR_OK" => s.ok
        BY <1>3, <1>8 DEF UnbufferedErr
      <3> QED  BY <1>3, <1>8, <3>1 DEF BlockedIsNoted
    <2>6. Closed' \subseteq tx'.stored
      BY <1>3, <1>8, <2>1
    <2> QED  BY <1>1, <2>3, <2>4, <2>5, <2>6 DEF IInv
  <1>9. CASE /\ tx' = s.ring /\ sent' = sent \ s.filled /\ err' = UnbufferedErr(s)
             /\ ~s.looped
             /\ pc' = AfterSend(block)
             /\ to_block_index' \in IF block THEN Bds ELSE {NoIndex}
             /\ UNCHANGED opening
    <2>1. pc' \in {"idle", "block"} /\ err' = "ERR_MEM" /\ Closed' = {}
      BY <1>3, <1>9 DEF Closed, AfterSend, UnbufferedErr
    <2>2. /\ RingOK(tx') /\ Held(tx')
          /\ ~untimely' => /\ RowOfFrames(tx', Closed', sent') /\ Slots(tx')
                           /\ \E p \in 0 .. tx'.HwCnt : HwStandsAt(p, tx', Closed', hw_ptr')
      BY <1>1, <1>3, <1>4, <1>5, <1>9, <2>1 DEF hardware
    <2>3. TypeOK' /\ SlotsMatchRing' /\ OpenBdsAreHeld'
      <3>1. sent' \subseteq Bds
        BY <1>9, InvParts DEF IInv
      <3>2. to_block_index' \in Bds \cup {NoIndex}
        BY <1>9
      <3> QED  BY <1>1, <1>9, <2>1, <2>2, <3>1, <3>2, InvParts, InvPartsNext DEF IInv, hardware
    <2>4. Framed' /\ HwBetweenFrames'
      BY <2>2 DEF Framed, HwBetweenFrames
    <2>5. BlockedIsNoted'
      BY <2>1 DEF BlockedIsNoted
    <2> QED  BY <1>1, <2>1, <2>3, <2>4, <2>5 DEF IInv
  <1> QED  BY <1>1, <1>7, <1>8, <1>9

(***************************************************************************)
(* The first BD's mark is cleared, and the frame is one like the others.   *)
(***************************************************************************)
LEMMA SubmitSafe ==
  ASSUME IInv, SubmitFirst
  PROVE  IInv'
  <1> USE DEF IInv
  <1> DEFINE h == tx.HwHead
  <1>1. /\ RingOK(tx) /\ Held(tx) /\ Closed = {opening} /\ opening \in tx.stored
        /\ ~untimely => RowOfFrames(tx, {opening}, sent)
    BY InvParts DEF SubmitFirst, Closed, Framed
  <1>2. /\ pc' \in {"idle", "block"} /\ Closed' = {} /\ opening' \in Bds
        /\ active' \in BOOLEAN
        /\ UNCHANGED <<hw_ptr, to_block_index, err, attached, intr_on, gptp_up, sent, untimely>>
    BY TxAssumption DEF SubmitFirst, AfterSend, Closed, Bds, dma
  <1>3. /\ tx' \in RingType /\ tx'.used = tx.used \ {opening}
        /\ tx'.HwHead = h /\ tx'.HwCnt = tx.HwCnt /\ tx'.PreHead = tx.PreHead
        /\ tx'.PreCnt = tx.PreCnt /\ tx'.FreeHead = tx.FreeHead
        /\ tx'.last = tx.last /\ tx'.stored = tx.stored /\ tx'.notifyinfo = tx.notifyinfo
    BY <1>1 DEF SubmitFirst, RingOK, RingType
  <1>4. Ends(tx') = Ends(tx)
    BY <1>3 DEF Ends
  <1>5. RingOK(tx') /\ Held(tx') /\ (~untimely' => Slots(tx'))
    BY <1>1, <1>2, <1>3, InvParts DEF RingOK, FreeCnt, Held, Slots
  <1>6. TypeOK' /\ SlotsMatchRing' /\ OpenBdsAreHeld'
    BY <1>2, <1>5, InvParts, InvPartsNext
  <1>7. ~untimely => RowOfFrames(tx', {}, sent')
    BY <1>1, <1>2, <1>3, <1>4 DEF RowOfFrames, MarkedIsSent, SameFrame
  <1>8. ASSUME ~untimely PROVE \E p \in 0 .. tx'.HwCnt : HwStandsAt(p, tx', {}, hw_ptr')
    <2>1. PICK p \in 0 .. tx.HwCnt : HwStandsAt(p, tx, {opening}, hw_ptr)
      BY <1>1, <1>8 DEF HwBetweenFrames
    <2>2. PICK o \in Ends(tx) : o \in p .. tx.HwCnt - 1 /\ opening = Bd(h, o)
      BY <2>1 DEF HwStandsAt
    <2>3. h \in Bds /\ tx.HwCnt \in 0 .. N_TX_DESC /\ N_TX_DESC \in Nat
      BY <1>1, RingFields
    <2>4. ASSUME NEW k \in 0 .. tx.HwCnt - 1
          PROVE  Bd(h, k) \in tx'.used <=> (k \in Ends(tx) /\ k < p)
      <3>1. k \in 0 .. N_TX_DESC - 1 /\ o \in 0 .. N_TX_DESC - 1
        BY <2>2, <2>3
      <3>2. Bd(h, k) = opening => k = o
        BY <2>2, <2>3, <3>1, BdInjective
      <3>3. Bd(h, k) = opening => ~(k < p)
        BY <2>2, <2>3, <3>2
      <3>4. Bd(h, k) \in tx.used <=> (k \in Ends(tx) /\ k < p) \/ Bd(h, k) = opening
        BY <2>1 DEF HwStandsAt
      <3> QED  BY <1>3, <3>3, <3>4
    <2>5. HwStandsAt(p, tx', {}, hw_ptr')
      BY <1>2, <1>3, <1>4, <2>1, <2>4 DEF HwStandsAt
    <2> QED  BY <1>3, <2>5
  <1>9. Framed' /\ HwBetweenFrames'
    BY <1>2, <1>7, <1>8 DEF Framed, HwBetweenFrames
  <1>10. BlockedIsNoted'
    <2>1. pc = "send" /\ (pc' = "block" => to_block_index # NoIndex)
      BY DEF SubmitFirst, AfterSend
    <2> QED  BY <1>2, <1>3, <2>1 DEF BlockedIsNoted
  <1> QED  BY <1>2, <1>6, <1>9, <1>10

(***************************************************************************)
(* A step that changes pc, but neither from nor to a send, leaves the ring *)
(* as it is.                                                               *)
(***************************************************************************)
LEMMA MainLoopSafe ==
  ASSUME IInv, pc # "send", pc' # "send", pc' \in {"idle", "wait"},
         UNCHANGED <<tx, hardware, opening, dma, gptp_up, sent, untimely>>,
         to_block_index' \in {to_block_index, NoIndex},
         err' \in {"ERR_OK", "ERR_MEM", "ERR_BUF", "ERR_TIMEOUT"}
  PROVE  IInv'
  <1> USE DEF IInv, hardware, dma
  <1>1. Closed = {} /\ Closed' = {}
    BY DEF Closed
  <1>2. TypeOK' /\ SlotsMatchRing' /\ OpenBdsAreHeld'
    BY InvParts, InvPartsNext
  <1>3. Framed' /\ HwBetweenFrames'
    BY <1>1 DEF Framed, HwBetweenFrames
  <1>4. BlockedIsNoted'
    BY DEF BlockedIsNoted
  <1> QED  BY <1>1, <1>2, <1>3, <1>4

LEMMA HandlerSafe ==
  ASSUME IInv, emacps_send_handler
  PROVE  IInv'
  <1> USE DEF IInv
  <1>1. /\ pc # "send" /\ tx' = process_sent_bds(tx) /\ Closed = {} /\ Closed' = {}
        /\ UNCHANGED <<hw_ptr, active, pc, opening, to_block_index, err, attached, intr_on,
                       gptp_up, sent, untimely>>
    BY DEF emacps_send_handler, Closed, hardware, call, dma
  <1>2. RingOK(tx) /\ Held(tx) /\ (~untimely => Slots(tx))
    BY InvParts
  <1>3. /\ RingOK(tx') /\ tx'.stored = tx.stored \ Complete(tx)
        /\ tx'.notifyinfo = tx.notifyinfo \ Complete(tx)
    <2> DEFINE n == BdRingFromHwTx(tx)
    <2>1. /\ RingOK(tx') /\ Complete(tx) = Span(tx.HwHead, n)
          /\ tx'.stored = tx.stored \ Span(tx.HwHead, n)
          /\ tx'.notifyinfo = tx.notifyinfo \ Span(tx.HwHead, n)
      BY <1>1, <1>2, ReclaimRing
    <2> QED  BY <2>1
  <1>4. Held(tx') /\ (~untimely' => Slots(tx'))
    BY <1>1, <1>2, ReclaimSlots
  <1>5. TypeOK' /\ SlotsMatchRing' /\ OpenBdsAreHeld'
    BY <1>1, <1>3, <1>4, InvParts, InvPartsNext
  <1>6. Framed'
    BY <1>1, <1>2, ReclaimRow DEF Framed
  <1>7. HwBetweenFrames'
    BY <1>1, <1>2, ReclaimStands DEF HwBetweenFrames
  <1>8. BlockedIsNoted'
    <2> SUFFICES ASSUME ~untimely, pc = "block", err = "ERR_OK"
                 PROVE  to_block_index \in tx'.notifyinfo \cup (sent \ tx'.stored)
      BY <1>1 DEF BlockedIsNoted
    <2>1. Complete(tx) \subseteq sent
      BY <1>1, <1>2, CompleteSent DEF Framed
    <2>2. to_block_index \in tx.notifyinfo \cup (sent \ tx.stored)
      BY DEF BlockedIsNoted
    <2> QED  BY <1>3, <2>1, <2>2
  <1> QED  BY <1>1, <1>5, <1>6, <1>7, <1>8

LEMMA TransmitSafe ==
  ASSUME IInv, HwTransmit
  PROVE  IInv'
  <1> USE DEF IInv
  <1>1. /\ UNCHANGED <<pc, opening, to_block_index, err, attached, intr_on, gptp_up, untimely>>
        /\ Closed' = Closed
    BY DEF HwTransmit, call, dma, Closed
  <1>2. RingOK(tx) /\ Held(tx) /\ (~untimely => Slots(tx)) /\ hw_ptr \in Bds
    BY InvParts
  <1>3. CASE /\ IsOpen(tx, hw_ptr)
             /\ tx' = [tx EXCEPT !.used = @ \cup {hw_ptr}]
             /\ hw_ptr' = Bd(hw_ptr, Min(FrameEnds(tx, hw_ptr)))
             /\ sent' = sent \cup FrameAt(tx, hw_ptr)
             /\ UNCHANGED active
    <2>1. /\ tx' \in RingType /\ tx'.used = tx.used \cup {hw_ptr}
          /\ tx'.HwHead = tx.HwHead /\ tx'.HwCnt = tx.HwCnt /\ tx'.PreHead = tx.PreHead
          /\ tx'.PreCnt = tx.PreCnt /\ tx'.FreeHead = tx.FreeHead
          /\ tx'.last = tx.last /\ tx'.stored = tx.stored /\ tx'.notifyinfo = tx.notifyinfo
      BY <1>2, <1>3 DEF RingOK, RingType
    <2>2. RingOK(tx') /\ Held(tx') /\ (~untimely' => Slots(tx'))
      BY <1>1, <1>2, <2>1 DEF RingOK, FreeCnt, Held, Slots
    <2>3. hw_ptr' \in Bds /\ FrameAt(tx, hw_ptr) \subseteq Bds
      <3> DEFINE m == Min(FrameEnds(tx, hw_ptr))
      <3>1. FrameEnds(tx, hw_ptr) \subseteq Nat /\ FrameEnds(tx, hw_ptr) # {}
        BY <1>3 DEF FrameEnds, IsOpen
      <3>2. m \in FrameEnds(tx, hw_ptr)
        BY <3>1, MinOf
      <3>3. m \in 0 .. N_TX_DESC
        BY <3>2, TxAssumption DEF FrameEnds
      <3>4. FrameAt(tx, hw_ptr) = Span(hw_ptr, m)
        BY DEF FrameAt, Span
      <3> QED  BY <1>2, <1>3, <3>3, <3>4, BdType, SpanCard
    <2>4. TypeOK' /\ SlotsMatchRing' /\ OpenBdsAreHeld'
      <3>1. sent' \subseteq Bds
        BY <1>3, <2>3, InvParts
      <3> QED  BY <1>1, <1>3, <2>2, <2>3, <3>1, InvParts, InvPartsNext
    <2>5. Framed'
      BY <1>1, <1>2, <1>3, TransmitRow DEF Framed
    <2>6. HwBetweenFrames'
      <3> SUFFICES ASSUME ~untimely
                   PROVE  \E x \in 0 .. tx'.HwCnt : HwStandsAt(x, tx', Closed, hw_ptr')
        BY <1>1 DEF HwBetweenFrames
      <3>1. PICK p \in 0 .. tx.HwCnt : HwStandsAt(p, tx, Closed, hw_ptr)
        BY DEF HwBetweenFrames
      <3>2. RowOfFrames(tx, Closed, sent)
        BY DEF Framed
      <3> QED  BY <1>2, <1>3, <3>1, <3>2, TransmitStands
    <2>7. BlockedIsNoted'
      BY <1>1, <1>3, <2>1 DEF BlockedIsNoted
    <2> QED  BY <1>1, <2>1, <2>4, <2>5, <2>6, <2>7
  <1>4. CASE active' = FALSE /\ UNCHANGED <<tx, hw_ptr, sent>>
    <2>1. TypeOK' /\ SlotsMatchRing' /\ OpenBdsAreHeld'
      BY <1>1, <1>4, InvParts, InvPartsNext
    <2>2. Framed' /\ HwBetweenFrames' /\ BlockedIsNoted'
      BY <1>1, <1>4 DEF Framed, HwBetweenFrames, BlockedIsNoted
    <2> QED  BY <1>1, <1>4, <2>1, <2>2
  <1> QED  BY <1>3, <1>4 DEF HwTransmit

LEMMA ErrorSafe ==
  ASSUME IInv, RenewRing, attached' \in BOOLEAN
  PROVE  IInv'
  <1> USE DEF IInv
  <1>1. /\ pc # "send" /\ Closed' = {}
        /\ UNCHANGED <<pc, opening, to_block_index, err, intr_on, gptp_up>>
        /\ hw_ptr' = 0 /\ active' = FALSE /\ sent' = sent \ tx.stored
    BY DEF RenewRing, call, Closed
  <1>2. tx' = NewRing({}, tx.notifyinfo) /\ tx.notifyinfo \in SUBSET Bds
    BY InvParts, RingFields
       DEF RenewRing, clean_dma_txdescs, free_onlytx_pbufs, RingOK, RingType
  <1>3. /\ RingOK(tx') /\ Held(tx') /\ tx'.HwCnt = 0 /\ tx'.HwHead = 0 /\ tx'.PreHead = 0
        /\ tx'.stored = {} /\ tx'.notifyinfo = tx.notifyinfo /\ Slots(tx')
    BY <1>2, NewRingSafe
  <1>4. 0 \in Bds
    BY TxAssumption DEF Bds
  <1>5. untimely' \in BOOLEAN /\ (untimely' => untimely) /\ (pc = "block" /\ ~untimely' => ~untimely)
    BY InvParts DEF RenewRing
  <1>6. TypeOK' /\ SlotsMatchRing' /\ OpenBdsAreHeld'
    <2>1. sent' \subseteq Bds
      BY <1>1, InvParts
    <2> QED  BY <1>1, <1>3, <1>4, <1>5, <2>1, InvParts, InvPartsNext
  <1>7. Framed' /\ HwBetweenFrames'
    BY <1>1, <1>3, EmptyRing DEF Framed, HwBetweenFrames
  <1>8. BlockedIsNoted'
    BY <1>1, <1>3, <1>5 DEF BlockedIsNoted
  <1> QED  BY <1>1, <1>5, <1>6, <1>7, <1>8

(***************************************************************************)
(* A reset of an empty ring leaves it in order; one with frames in it is   *)
(* untimely.                                                               *)
(***************************************************************************)
LEMMA ResetSafe ==
  ASSUME IInv, reset_dma, pc \in {"idle", "wait"}, pc' \in {"idle", "wait"},
         tx.HwCnt > 0 => untimely',
         tx.HwCnt = 0 => untimely' = untimely,
         untimely' \in BOOLEAN, gptp_up' \in BOOLEAN, untimely' => gptp_up',
         UNCHANGED <<call, intr_on, sent>>
  PROVE  IInv'
  <1> USE DEF IInv
  <1>1. /\ Closed' = {} /\ UNCHANGED <<opening, to_block_index, err, intr_on, sent>>
        /\ hw_ptr' = 0 /\ active' = FALSE /\ attached' \in BOOLEAN
    BY DEF reset_dma, call, Closed
  <1>2. 0 \in Bds
    BY TxAssumption DEF Bds
  <1>3. /\ tx' \in RingType /\ tx'.used = tx.used
        /\ tx'.HwHead = 0 /\ tx'.HwCnt = tx.HwCnt /\ tx'.PreHead = 0
        /\ tx'.PreCnt = tx.PreCnt /\ tx'.FreeHead = 0
        /\ tx'.last = tx.last /\ tx'.stored = tx.stored /\ tx'.notifyinfo = tx.notifyinfo
    BY <1>2, InvParts DEF reset_dma, RingOK, RingType
  <1>4. RingOK(tx') /\ Held(tx')
    BY <1>3, InvParts DEF RingOK, FreeCnt, Held
  <1>5. CASE tx.HwCnt = 0
    <2>1. ~untimely' => Slots(tx')
      <3> SUFFICES ASSUME ~untimely PROVE Slots(tx')
        BY <1>5
      <3>1. Slots(tx) /\ RingOK(tx)
        BY InvParts
      <3>2. \A b : Span(b, 0) = {}
        BY DEF Span
      <3>3. Bd(0, 0) = 0
        BY <1>2, BdZero
      <3> QED  BY <1>3, <1>5, <3>1, <3>2, <3>3 DEF Slots
    <2>2. TypeOK' /\ SlotsMatchRing' /\ OpenBdsAreHeld'
      BY <1>1, <1>2, <1>4, <2>1, InvParts, InvPartsNext
    <2>3. Framed' /\ HwBetweenFrames'
      BY <1>1, <1>3, <1>4, <1>5, EmptyRing DEF Framed, HwBetweenFrames
    <2> QED  BY <1>1, <2>2, <2>3 DEF BlockedIsNoted
  <1>6. CASE tx.HwCnt > 0
    <2>1. TypeOK' /\ SlotsMatchRing' /\ OpenBdsAreHeld'
      BY <1>1, <1>2, <1>4, <1>6, InvParts, InvPartsNext
    <2>2. Framed' /\ HwBetweenFrames'
      BY <1>6 DEF Framed, HwBetweenFrames
    <2> QED  BY <1>1, <2>1, <2>2 DEF BlockedIsNoted
  <1>7. tx.HwCnt = 0 \/ tx.HwCnt > 0
    BY InvParts, RingFields
  <1> QED  BY <1>5, <1>6, <1>7

-----------------------------------------------------------------------------

LEMMA IInvStep == IInv /\ [Next]_vars => IInv'
  <1> SUFFICES ASSUME IInv, [Next]_vars PROVE IInv'
    OBVIOUS
  <1>1. ASSUME NEW n \in 1 .. MaxChain, NEW block \in BOOLEAN, ethernet_output(n, block)
        PROVE  IInv'
    <2>1. CASE low_level_output(n, block)
      BY <2>1, OutputSafe
    <2>2. CASE /\ pc = "idle" /\ err' = "ERR_BUF"
               /\ UNCHANGED <<tx, hardware, pc, opening, to_block_index, dma, gptp_up, sent,
                              untimely>>
      BY <2>2, MainLoopSafe
    <2> QED  BY <1>1, <2>1, <2>2 DEF ethernet_output
  <1>2. CASE SubmitFirst
    BY <1>2, SubmitSafe
  <1>3. CASE BlockEnds \/ BlockTimesOut
    <2>1. err \in {"ERR_OK", "ERR_MEM", "ERR_BUF", "ERR_TIMEOUT"}
      BY InvParts DEF IInv
    <2> QED  BY <1>3, <2>1, MainLoopSafe DEF BlockEnds, BlockTimesOut
  <1>4. CASE emacps_send_handler
    BY <1>4, HandlerSafe
  <1>5. CASE HwTransmit
    BY <1>5, TransmitSafe
  <1>6. CASE HandleTxErrors \/ HandleEmacPsError
    <2>1. attached \in BOOLEAN
      BY InvParts DEF IInv
    <2> QED  BY <1>6, <2>1, ErrorSafe DEF HandleTxErrors, HandleEmacPsError
  <1>7. CASE BeginHashUpdate
    <2>1. err \in {"ERR_OK", "ERR_MEM", "ERR_BUF", "ERR_TIMEOUT"}
      BY InvParts DEF IInv
    <2> QED  BY <1>7, <2>1, MainLoopSafe DEF BeginHashUpdate, call
  <1>8. CASE HashUpdate
    <2>1. untimely \in BOOLEAN /\ gptp_up \in BOOLEAN /\ (untimely => gptp_up)
      BY InvParts DEF IInv
    <2>2. ~(tx.HwCnt > 0)
      BY <1>8 DEF HashUpdate
    <2> QED  BY <1>8, <2>1, <2>2, ResetSafe DEF HashUpdate
  <1>9. CASE enable_mac_multicast
    <2>1. untimely = FALSE
      BY <1>9, InvParts DEF IInv, enable_mac_multicast
    <2>2. /\ tx.HwCnt > 0 => untimely' = TRUE
          /\ tx.HwCnt = 0 => untimely' = FALSE
          /\ untimely' \in BOOLEAN /\ gptp_up' = TRUE
      <3> DEFINE full == tx.HwCnt > 0
      <3>1. untimely' = full /\ gptp_up' = TRUE
        BY <1>9 DEF enable_mac_multicast
      <3>2. full \in BOOLEAN /\ (tx.HwCnt = 0 => ~full)
        OBVIOUS
      <3> HIDE DEF full
      <3>3. full => untimely' = TRUE
        BY <3>1, <3>2
      <3>4. /\ tx.HwCnt = 0 => untimely' = FALSE
            /\ untimely' \in BOOLEAN /\ gptp_up' = TRUE
        BY <3>1, <3>2
      <3> QED  BY <3>3, <3>4 DEF full
    <2> QED  BY <1>9, <2>1, <2>2, ResetSafe DEF enable_mac_multicast
  <1>10. CASE UNCHANGED vars \/ WaitOn
    <2>1. UNCHANGED <<tx, hw_ptr, active, pc, opening, to_block_index, err, attached, intr_on,
                      gptp_up, sent, untimely>>
      BY <1>10 DEF vars, hardware, call, dma, WaitOn
    <2>2. Closed' = Closed
      BY <2>1 DEF Closed
    <2>3. TypeOK' /\ SlotsMatchRing' /\ OpenBdsAreHeld'
      BY <2>1, InvParts, InvPartsNext DEF IInv
    <2> QED  BY <2>1, <2>2, <2>3 DEF IInv, Framed, HwBetweenFrames, BlockedIsNoted
  <1> QED  BY <1>1, <1>2, <1>3, <1>4, <1>5, <1>6, <1>7, <1>8, <1>9, <1>10 DEF Next

(***************************************************************************)
(* The inductive invariant of the transmit side.                           *)
(***************************************************************************)
THEOREM RingInvariant == Spec => []IInv
  BY IInvInit, IInvStep, PTL DEF Spec

(***************************************************************************)
(* The heads and counts of the ring stay on it, for a ring of any size.    *)
(***************************************************************************)
THEOREM RingTypeCorrect == Spec => []TypeOK
  <1>1. IInv => TypeOK
    BY DEF IInv
  <1> QED  BY <1>1, RingInvariant, PTL

(***************************************************************************)
(* tx_pbufs_storage and the ring stay in step through every mix of sends,  *)
(* reclaims, errors and updates of the hash, so that no send of            *)
(* emacps_sgsend ends half-way.                                            *)
(***************************************************************************)
THEOREM SlotsAlwaysMatch == Spec => []SlotsMatchRing
  <1>1. IInv => SlotsMatchRing
    BY DEF IInv
  <1> QED  BY <1>1, RingInvariant, PTL

(***************************************************************************)
(* The hardware is never free to read a BD whose pbuf has been given back, *)
(* whatever resets and errors have done to the ring.                       *)
(***************************************************************************)
THEOREM OpenBdsAlwaysHeld == Spec => []OpenBdsAreHeld
  <1>1. IInv => OpenBdsAreHeld
    BY DEF IInv
  <1> QED  BY <1>1, RingInvariant, PTL

(***************************************************************************)
(* A running transmitter never meets a used BD in the middle of a frame:   *)
(* clearing the first BD's mark last is enough, for frames of any length.  *)
(***************************************************************************)
THEOREM FramesNeverHalfOpen == Spec => []NoFrameHalfOpen
  <1>1. IInv => NoFrameHalfOpen
    <2> SUFFICES ASSUME IInv, ~untimely PROVE IsOpen(tx, hw_ptr) \/ hw_ptr \in tx.used
      BY DEF NoFrameHalfOpen
    <2>1. RingOK(tx) /\ Held(tx) /\ Slots(tx) /\ RowOfFrames(tx, Closed, sent)
      BY InvParts DEF IInv, Framed
    <2>2. PICK p \in 0 .. tx.HwCnt : HwStandsAt(p, tx, Closed, hw_ptr)
      BY DEF IInv, HwBetweenFrames
    <2> QED  BY <2>1, <2>2, MarkOrFrame
  <1> QED  BY <1>1, RingInvariant, PTL

(***************************************************************************)
(* What process_sent_bds takes for sent has been sent, for frames of any   *)
(* number of pbufs.                                                        *)
(***************************************************************************)
THEOREM ReclaimedIsSent == Spec => []CompleteIsSent
  <1>1. IInv => CompleteIsSent
    <2> SUFFICES ASSUME IInv, ~untimely, pc # "send" PROVE Complete(tx) \subseteq sent
      BY DEF CompleteIsSent
    <2>1. RingOK(tx) /\ RowOfFrames(tx, {}, sent)
      BY InvParts DEF IInv, Framed, Closed
    <2> QED  BY <2>1, CompleteSent
  <1> QED  BY <1>1, RingInvariant, PTL

(***************************************************************************)
(* A blocking send that returns ERR_OK has waited until its frame was sent *)
(* and its pbuf given back, whatever errors and resets came in between.    *)
(***************************************************************************)
THEOREM BlockingOkIsSent == Spec => BlockingOkMeansSent
  <1> DEFINE A == pc = "block" /\ pc' = "idle" /\ err' = "ERR_OK" /\ ~untimely =>
                    to_block_index \in sent \ tx.stored
  <1>1. IInv /\ [Next]_vars => [A]_vars
    <2> SUFFICES ASSUME IInv, Next, ~untimely, pc = "block", pc' = "idle", err' = "ERR_OK"
                 PROVE  to_block_index \in sent \ tx.stored
      OBVIOUS
    <2>1. BlockEnds
      BY DEF Next, ethernet_output, low_level_output, SubmitFirst, BlockTimesOut,
             emacps_send_handler, HwTransmit, HandleTxErrors, HandleEmacPsError, RenewRing,
             BeginHashUpdate, WaitOn, HashUpdate, enable_mac_multicast
    <2>2. err = "ERR_OK" /\ to_block_index \notin tx.notifyinfo
      BY <2>1 DEF BlockEnds
    <2> QED  BY <2>2 DEF IInv, BlockedIsNoted
  <1> QED  BY <1>1, RingInvariant, PTL DEF Spec, BlockingOkMeansSent

=============================================================================
