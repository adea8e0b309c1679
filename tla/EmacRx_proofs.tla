--------------------------- MODULE EmacRx_proofs ---------------------------
(***************************************************************************)
(* Proofs about the receive side of the Ethernet driver, for a ring, a     *)
(* pool and a queue of any size and any number of errors and resets.       *)
(***************************************************************************)
EXTENDS EmacRx, FiniteSetTheorems, SequenceTheorems, TLAPS

\* The c BDs from h on.
Span(h, c) == {Bd(h, k) : k \in 0 .. c - 1}

\* The pbufs of these BDs.
Loaded(sto, h, c) == {sto[b] : b \in Span(h, c)}

(***************************************************************************)
(* Every BD of the group has a pbuf of its own, none of them is among the  *)
(* others in use, and the pbufs in use are those with a reference.         *)
(***************************************************************************)
Sound(sto, h, c, refs, others) ==
  /\ \A b \in Span(h, c) : sto[b] \in Pbufs
  /\ \A a, b \in Span(h, c) : sto[a] = sto[b] => a = b
  /\ Loaded(sto, h, c) \cap others = {}
  /\ \A p \in Pbufs : refs[p] = 0 <=> p \notin Loaded(sto, h, c) \cup others

OwnersApart ==
  ~corrupt => /\ Sound(rx_pbufs_storage, hw_head, hw_cnt, ref, Queued \cup held)
              /\ IsInjective(recv_q) /\ Queued \cap held = {}

(***************************************************************************)
(* The hardware stands q places from the head.  It is ahead of the handler *)
(* when all BDs up to there are filled.  After a reset that found frames   *)
(* in the ring the handler may pass it; then the BDs from there to the end *)
(* of the group are clear.                                                 *)
(***************************************************************************)
Ahead(q, h, c, new) == q <= c /\ \A k \in 0 .. q - 1 : Bd(h, k) \in new
Clear(q, h, c, new) == \A k \in q .. c - 1 : Bd(h, k) \notin new

HwStandsAt(q, h, c, ptr, new) ==
  /\ ptr = Bd(h, q)
  /\ Ahead(q, h, c, new) \/ (q < N_RX_DESC /\ Clear(q, h, c, new))
  /\ ~shuffled => Ahead(q, h, c, new) /\ Clear(q, h, c, new)

(***************************************************************************)
(* A BD that has no pbuf keeps the mark of its last frame, so that the     *)
(* hardware does not use it; a ring never made known to the hardware is    *)
(* as init_dma left it.                                                    *)
(***************************************************************************)
HwInRing ==
  ~corrupt =>
    IF dma_ready
    THEN /\ \A k \in hw_cnt .. N_RX_DESC - 1 : Bd(hw_head, k) \in filled
         /\ \E q \in 0 .. N_RX_DESC : HwStandsAt(q, hw_head, hw_cnt, hw_ptr, filled)
    ELSE hw_head = 0 /\ hw_ptr = 0 /\ filled = {} /\ hw_cnt < N_RX_DESC

SpaceUsed ==
  /\ bd_space_index \in Nat
  /\ (bd_space_index = 0) => ~corrupt /\ ~dry /\ ~dma_ready /\ hw_cnt = 0
  /\ errors \in Nat

IInv ==
  /\ TypeOK
  /\ SpaceUsed
  /\ OwnersApart
  /\ HwInRing
  /\ SafeUntilDry

-----------------------------------------------------------------------------

LEMMA BdCalc ==
  ASSUME NEW h \in Bds, NEW k \in 0 .. N_RX_DESC
  PROVE  Bd(h, k) = IF h + k < N_RX_DESC THEN h + k ELSE h + k - N_RX_DESC
  BY RxAssumption, SMT DEF Bd, Bds

LEMMA BdType ==
  ASSUME NEW h \in Bds, NEW k \in 0 .. N_RX_DESC
  PROVE  Bd(h, k) \in Bds
  BY RxAssumption, BdCalc, SMT DEF Bds

LEMMA BdZero ==
  ASSUME NEW h \in Bds
  PROVE  Bd(h, 0) = h /\ Bd(h, N_RX_DESC) = h
  BY RxAssumption, SMT DEF Bd, Bds

(***************************************************************************)
(* Fewer than a whole turn from h on, no BD is met twice.                  *)
(***************************************************************************)
LEMMA BdInjective ==
  ASSUME NEW h \in Bds, NEW j \in 0 .. N_RX_DESC - 1, NEW k \in 0 .. N_RX_DESC - 1,
         Bd(h, j) = Bd(h, k)
  PROVE  j = k
  <1>1. j \in 0 .. N_RX_DESC /\ k \in 0 .. N_RX_DESC
    BY RxAssumption
  <1>2. /\ Bd(h, j) = IF h + j < N_RX_DESC THEN h + j ELSE h + j - N_RX_DESC
        /\ Bd(h, k) = IF h + k < N_RX_DESC THEN h + k ELSE h + k - N_RX_DESC
    BY <1>1, BdCalc
  <1>3. h \in 0 .. N_RX_DESC - 1 /\ N_RX_DESC \in Nat
    BY RxAssumption DEF Bds
  <1>4. CASE h + j < N_RX_DESC /\ h + k < N_RX_DESC
    <2>1. h + j = h + k
      BY <1>2, <1>4
    <2> QED  BY <1>3, <2>1
  <1>5. CASE ~(h + j < N_RX_DESC) /\ ~(h + k < N_RX_DESC)
    <2>1. h + j - N_RX_DESC = h + k - N_RX_DESC
      BY <1>2, <1>5
    <2> QED  BY <1>3, <2>1
  <1>6. CASE h + j < N_RX_DESC /\ ~(h + k < N_RX_DESC)
    <2>1. h + j = h + k - N_RX_DESC
      BY <1>2, <1>6
    <2> QED  BY <1>3, <2>1
  <1>7. CASE ~(h + j < N_RX_DESC) /\ h + k < N_RX_DESC
    <2>1. h + j - N_RX_DESC = h + k
      BY <1>2, <1>7
    <2> QED  BY <1>3, <2>1
  <1> QED  BY <1>4, <1>5, <1>6, <1>7

LEMMA BdShift ==
  ASSUME NEW h \in Bds, NEW a \in Nat, NEW b \in Nat, a + b <= N_RX_DESC
  PROVE  Bd(Bd(h, a), b) = Bd(h, a + b)
  <1>1. a \in 0 .. N_RX_DESC /\ b \in 0 .. N_RX_DESC /\ a + b \in 0 .. N_RX_DESC
    BY RxAssumption
  <1>2. /\ Bd(h, a) \in Bds
        /\ Bd(h, a) = IF h + a < N_RX_DESC THEN h + a ELSE h + a - N_RX_DESC
        /\ Bd(h, a + b) = IF h + (a + b) < N_RX_DESC THEN h + (a + b)
                          ELSE h + (a + b) - N_RX_DESC
    BY <1>1, BdCalc, BdType
  <1> DEFINE g == Bd(h, a)
  <1> HIDE DEF g
  <1>3. Bd(g, b) = IF g + b < N_RX_DESC THEN g + b ELSE g + b - N_RX_DESC
    BY <1>1, <1>2, BdCalc DEF g
  <1>4. Bd(g, b) = Bd(h, a + b)
    BY RxAssumption, <1>1, <1>2, <1>3, SMT DEF Bds, g
  <1> QED  BY <1>4 DEF g

LEMMA MinOf ==
  ASSUME NEW S, S \subseteq Nat, S # {}
  PROVE  Min(S) \in S /\ \A y \in S : Min(S) <= y
  <1> DEFINE R == OpToRel(<, Nat)
  <1>1. IsWellFoundedOn(R, Nat)
    BY NatLessThanWellFounded
  <1>2. \A x, y \in Nat : <<y, x>> \in R <=> y < x
    BY DEF OpToRel
  <1> HIDE DEF R
  <1>3. PICK x \in S : \A y \in S : ~ (<<y, x>> \in R)
    BY <1>1, WFMin
  <1>4. \A y \in S : ~(y < x)
    BY <1>2, <1>3
  <1>5. \A y \in S : x <= y
    BY <1>4, SMT
  <1> QED  BY <1>5 DEF Min

LEMMA MaxOf ==
  ASSUME NEW n \in Nat, NEW S, S \subseteq 0 .. n, S # {}
  PROVE  Max(S) \in S /\ \A y \in S : y <= Max(S)
  <1> DEFINE T == {n - x : x \in S}
  <1>1. T \subseteq Nat /\ T # {}
    <2>1. \A x \in S : n - x \in Nat
      OBVIOUS
    <2>2. T # {}
      OBVIOUS
    <2> QED  BY <2>1, <2>2
  <1>2. Min(T) \in T /\ \A y \in T : Min(T) <= y
    <2> HIDE DEF T
    <2> QED  BY <1>1, MinOf
  <1>3. PICK x \in S : Min(T) = n - x
    BY <1>2
  <1>4. \A y \in S : n - x <= n - y
    <2>1. \A y \in S : n - y \in T
      OBVIOUS
    <2> QED  BY <1>2, <1>3, <2>1
  <1> HIDE DEF T
  <1>5. \A y \in S : x >= y
    BY <1>4, SMT
  <1>6. Max(S) \in S /\ \A y \in S : Max(S) >= y
    BY <1>5 DEF Max
  <1> QED  BY <1>6, SMT

LEMMA SpanCard ==
  ASSUME NEW h \in Bds, NEW c \in 0 .. N_RX_DESC
  PROVE  /\ Span(h, c) \subseteq Bds
         /\ IsFiniteSet(Span(h, c)) /\ Cardinality(Span(h, c)) = c
  <1>0. \A k \in 0 .. c - 1 : k \in 0 .. N_RX_DESC - 1 /\ k \in 0 .. N_RX_DESC
    BY RxAssumption
  <1>1. Span(h, c) \subseteq Bds
    BY <1>0, BdType DEF Span
  <1> DEFINE I == 0 .. c - 1
             f == [k \in I |-> Bd(h, k)]
  <1>2. IsFiniteSet(I) /\ Cardinality(I) = c
    <2>1. CASE c = 0
      <3>1. I = {}
        BY <2>1
      <3> QED  BY <2>1, <3>1, FS_EmptySet
    <2>2. CASE c # 0
      <3> DEFINE m == c - 1
      <3>1. m \in Nat /\ c = m + 1
        BY <2>2, RxAssumption
      <3> HIDE DEF m
      <3>2. IsFiniteSet(0 .. m) /\ Cardinality(0 .. m) = IF 0 > m THEN 0 ELSE m - 0 + 1
        BY <3>1, FS_Interval
      <3> QED  BY <3>1, <3>2 DEF m
    <2> QED  BY <2>1, <2>2
  <1>3. f \in Bijection(I, Span(h, c))
    <2>1. f \in Injection(I, Span(h, c))
      <3>1. f \in [I -> Span(h, c)]
        BY DEF Span
      <3>2. \A j, k \in I : f[j] = f[k] => j = k
        BY <1>0, BdInjective
      <3> QED  BY <3>1, <3>2 DEF Injection, IsInjective
    <2>2. \A b \in Span(h, c) : \E k \in I : f[k] = b
      BY DEF Span
    <2> QED  BY <2>1, <2>2 DEF Bijection, Surjection, Injection
  <1>4. ExistsBijection(I, Span(h, c))
    BY <1>3 DEF ExistsBijection
  <1> HIDE DEF I, f
  <1>5. IsFiniteSet(Span(h, c)) /\ Cardinality(Span(h, c)) = Cardinality(I)
    BY <1>2, <1>4, FS_Bijection
  <1> QED  BY <1>1, <1>2, <1>5

LEMMA SpanMember ==
  ASSUME NEW h \in Bds, NEW c \in 0 .. N_RX_DESC, NEW k \in 0 .. N_RX_DESC - 1
  PROVE  Bd(h, k) \in Span(h, c) <=> k < c
  <1>1. ASSUME k < c PROVE Bd(h, k) \in Span(h, c)
    <2>1. k \in 0 .. c - 1
      BY <1>1
    <2> QED  BY <2>1 DEF Span
  <1>2. ASSUME Bd(h, k) \in Span(h, c) PROVE k < c
    <2>1. PICK j \in 0 .. c - 1 : Bd(h, k) = Bd(h, j)
      BY <1>2 DEF Span
    <2>2. j \in 0 .. N_RX_DESC - 1
      BY RxAssumption
    <2>3. k = j
      BY <2>1, <2>2, BdInjective
    <2> QED  BY <2>3
  <1> QED  BY <1>1, <1>2

(***************************************************************************)
(* The c BDs from a places after h on are those at the places a .. a+c-1.  *)
(***************************************************************************)
LEMMA SpanShift ==
  ASSUME NEW h \in Bds, NEW a \in Nat, NEW c \in Nat, a + c <= N_RX_DESC
  PROVE  Span(Bd(h, a), c) = {Bd(h, k) : k \in a .. a + c - 1}
  <1>1. \A k \in 0 .. c - 1 : Bd(Bd(h, a), k) = Bd(h, a + k)
    <2> TAKE k \in 0 .. c - 1
    <2>1. k \in Nat /\ a + k <= N_RX_DESC
      BY RxAssumption
    <2> QED  BY <2>1, BdShift
  <1>2. \A k \in 0 .. c - 1 : a + k \in a .. a + c - 1
    OBVIOUS
  <1>3. \A k \in a .. a + c - 1 : k - a \in 0 .. c - 1 /\ a + (k - a) = k
    OBVIOUS
  <1> QED  BY <1>1, <1>2, <1>3 DEF Span

(***************************************************************************)
(* Two stretches that fit on the ring one after the other share no BD.     *)
(***************************************************************************)
LEMMA SpansDisjoint ==
  ASSUME NEW h \in Bds, NEW a \in Nat, NEW c \in Nat, a + c <= N_RX_DESC
  PROVE  Span(h, a) \cap Span(Bd(h, a), c) = {}
  <1> SUFFICES ASSUME NEW b \in Span(h, a), b \in Span(Bd(h, a), c) PROVE FALSE
    OBVIOUS
  <1>1. PICK k \in a .. a + c - 1 : b = Bd(h, k)
    BY SpanShift
  <1>2. k \in 0 .. N_RX_DESC - 1 /\ a \in 0 .. N_RX_DESC /\ ~(k < a)
    BY RxAssumption
  <1> QED  BY <1>1, <1>2, SpanMember

LEMMA SpanJoin ==
  ASSUME NEW h \in Bds, NEW a \in Nat, NEW c \in Nat, a + c <= N_RX_DESC
  PROVE  Span(h, a + c) = Span(h, a) \cup Span(Bd(h, a), c)
  <1>1. 0 .. a + c - 1 = (0 .. a - 1) \cup (a .. a + c - 1)
    OBVIOUS
  <1>2. Span(Bd(h, a), c) = {Bd(h, k) : k \in a .. a + c - 1}
    BY SpanShift
  <1>3. /\ Span(h, a) = {Bd(h, k) : k \in 0 .. a - 1}
        /\ Span(h, a + c) = {Bd(h, k) : k \in 0 .. a + c - 1}
    BY DEF Span
  <1> QED  BY <1>1, <1>2, <1>3

(***************************************************************************)
(* Every BD is at one place from h on.                                     *)
(***************************************************************************)
LEMMA BdOnto ==
  ASSUME NEW h \in Bds, NEW b \in Bds
  PROVE  \E k \in 0 .. N_RX_DESC - 1 : b = Bd(h, k)
  <1>1. b \in Int /\ h \in Int /\ N_RX_DESC \in Nat /\ b < N_RX_DESC /\ h < N_RX_DESC
        /\ b >= 0 /\ h >= 0
    BY RxAssumption DEF Bds
  <1>2. CASE b >= h
    <2>1. b - h \in 0 .. N_RX_DESC - 1 /\ b - h \in 0 .. N_RX_DESC /\ h + (b - h) = b
      BY <1>1, <1>2
    <2>2. Bd(h, b - h) = IF h + (b - h) < N_RX_DESC THEN h + (b - h)
                         ELSE h + (b - h) - N_RX_DESC
      BY <2>1, BdCalc
    <2> QED  BY <1>1, <2>1, <2>2
  <1>3. CASE b < h
    <2> DEFINE k == b - h + N_RX_DESC
    <2>1. k \in 0 .. N_RX_DESC - 1 /\ k \in 0 .. N_RX_DESC /\ h + k = b + N_RX_DESC
      BY <1>1, <1>3
    <2> HIDE DEF k
    <2>2. Bd(h, k) = IF h + k < N_RX_DESC THEN h + k ELSE h + k - N_RX_DESC
      BY <2>1, BdCalc
    <2>3. Bd(h, k) = b
      BY <1>1, <2>1, <2>2
    <2> QED  BY <2>1, <2>3
  <1> QED  BY <1>1, <1>2, <1>3

(***************************************************************************)
(* The place of a BD behind the c ones from h on, as Refill counts it.     *)
(***************************************************************************)
LEMMA PlaceBehind ==
  ASSUME NEW h \in Bds, NEW c \in 0 .. N_RX_DESC, NEW k \in 0 .. N_RX_DESC - 1
  PROVE  (Bd(h, k) - h - c) % N_RX_DESC = IF k >= c THEN k - c ELSE k - c + N_RX_DESC
  <1>1. /\ N_RX_DESC \in Nat \ {0} /\ h \in Int /\ c \in Int /\ k \in Int
        /\ 0 <= c /\ c <= N_RX_DESC /\ 0 <= k /\ k < N_RX_DESC
    BY RxAssumption DEF Bds
  <1>2. Bd(h, k) = h + k \/ Bd(h, k) = h + k - N_RX_DESC
    <2>1. k \in 0 .. N_RX_DESC
      BY <1>1
    <2> QED  BY <2>1, BdCalc
  <1>3. \A x \in Int : /\ 0 <= x /\ x < N_RX_DESC => x % N_RX_DESC = x
                       /\ -N_RX_DESC <= x /\ x < 0 => x % N_RX_DESC = x + N_RX_DESC
                       /\ -(2 * N_RX_DESC) <= x /\ x < -N_RX_DESC =>
                            x % N_RX_DESC = x + 2 * N_RX_DESC
    BY <1>1, SMT
  <1> DEFINE y == k - c
  <1>4. /\ y \in Int /\ -N_RX_DESC <= y /\ y < N_RX_DESC /\ (y < 0 <=> ~(k >= c))
        /\ y - N_RX_DESC \in Int /\ y - N_RX_DESC + N_RX_DESC = y
        /\ y - N_RX_DESC + 2 * N_RX_DESC = y + N_RX_DESC
    BY <1>1
  <1>5. Bd(h, k) - h - c = y \/ Bd(h, k) - h - c = y - N_RX_DESC
    BY <1>1, <1>2
  <1> HIDE DEF y
  <1>6. CASE Bd(h, k) - h - c = y
    <2>1. y % N_RX_DESC = IF y >= 0 THEN y ELSE y + N_RX_DESC
      BY <1>1, <1>3, <1>4
    <2>2. y >= 0 <=> k >= c
      BY <1>4
    <2> QED  BY <1>6, <2>1, <2>2 DEF y
  <1>7. CASE Bd(h, k) - h - c = y - N_RX_DESC
    <2>1. (y - N_RX_DESC) % N_RX_DESC = IF y >= 0 THEN y ELSE y + N_RX_DESC
      BY <1>1, <1>3, <1>4
    <2>2. y >= 0 <=> k >= c
      BY <1>4
    <2> QED  BY <1>7, <2>1, <2>2 DEF y
  <1> QED  BY <1>5, <1>6, <1>7

-----------------------------------------------------------------------------

LEMMA PoolFinite ==
  ASSUME NEW refs
  PROVE  /\ Pool(refs) \subseteq Pbufs /\ IsFiniteSet(Pool(refs))
         /\ Cardinality(Pool(refs)) \in Nat
  <1>1. Pool(refs) \in SUBSET Pbufs
    BY DEF Pool
  <1> QED  BY <1>1, RxAssumption, FS_Subset, FS_CardinalityType

(***************************************************************************)
(* An injection has a range as large as its domain.                        *)
(***************************************************************************)
LEMMA RangeCard ==
  ASSUME NEW S, IsFiniteSet(S), NEW T, NEW f \in [S -> T], IsInjective(f)
  PROVE  IsFiniteSet(Range(f)) /\ Cardinality(Range(f)) = Cardinality(S)
  <1>1. f \in Bijection(S, Range(f))
    BY DEF Bijection, Injection, Surjection, IsInjective, Range
  <1>2. ExistsBijection(S, Range(f))
    BY <1>1 DEF ExistsBijection
  <1> QED  BY <1>2, FS_Bijection

LEMMA IntervalCard ==
  ASSUME NEW c \in Nat
  PROVE  IsFiniteSet(0 .. c - 1) /\ Cardinality(0 .. c - 1) = c
  <1>1. CASE c = 0
    <2>1. 0 .. c - 1 = {}
      BY <1>1
    <2> QED  BY <1>1, <2>1, FS_EmptySet
  <1>2. CASE c # 0
    <2> DEFINE m == c - 1
    <2>1. m \in Nat /\ c = m + 1
      BY <1>2
    <2> HIDE DEF m
    <2>2. IsFiniteSet(0 .. m) /\ Cardinality(0 .. m) = IF 0 > m THEN 0 ELSE m - 0 + 1
      BY <2>1, FS_Interval
    <2> QED  BY <2>1, <2>2 DEF m
  <1> QED  BY <1>1, <1>2

(***************************************************************************)
(* What a refill does, place by place.                                     *)
(***************************************************************************)
RefillDoes(h, c, refs, new, got, fresh) ==
  /\ IsInjective(fresh)
  /\ c + got <= N_RX_DESC /\ hw_cnt' = c + got /\ hw_head' = h
  /\ hw_cnt' < N_RX_DESC => got = Cardinality(Pool(refs))
  /\ dry' = (dry \/ hw_cnt' < N_RX_DESC)
  /\ rx_pbufs_storage' \in [Bds -> Pbufs \cup {NULL}]
  /\ \A k \in 0 .. N_RX_DESC - 1 :
       rx_pbufs_storage'[Bd(h, k)] = IF c <= k /\ k < c + got THEN fresh[k - c]
                                     ELSE rx_pbufs_storage[Bd(h, k)]
  /\ filled' \subseteq Bds
  /\ \A k \in 0 .. N_RX_DESC - 1 :
       Bd(h, k) \in filled' <=> Bd(h, k) \in new /\ ~(c <= k /\ k < c + got)
  /\ ref' = [p \in Pbufs |-> IF p \in Range(fresh) THEN 1 ELSE refs[p]]

LEMMA RefillPlaces ==
  ASSUME NEW h \in Bds, NEW c \in 0 .. N_RX_DESC, NEW refs \in [Pbufs -> 0 .. 1],
         NEW new \in SUBSET Bds, rx_pbufs_storage \in [Bds -> Pbufs \cup {NULL}],
         Refill(h, c, refs, new)
  PROVE  \E got \in Nat : \E fresh \in [0 .. got - 1 -> Pool(refs)] :
           RefillDoes(h, c, refs, new, got, fresh)
  <1> DEFINE stock == Cardinality(Pool(refs))
             got == IF stock < FreeCnt(c) THEN stock ELSE FreeCnt(c)
             place(b) == (b - h - c) % N_RX_DESC
  <1>1. PICK fresh \in [0 .. got - 1 -> Pool(refs)] :
          /\ IsInjective(fresh)
          /\ rx_pbufs_storage' =
               [b \in Bds |-> IF place(b) < got THEN fresh[place(b)] ELSE rx_pbufs_storage[b]]
          /\ filled' = {b \in new : place(b) >= got}
          /\ ref' = [p \in Pbufs |-> IF p \in Range(fresh) THEN 1 ELSE refs[p]]
          /\ hw_head' = h /\ hw_cnt' = c + got
          /\ dry' = (dry \/ stock < N_RX_DESC - c)
    BY DEF Refill
  <1>2. stock \in Nat /\ Pool(refs) \subseteq Pbufs
    BY PoolFinite
  <1>3. /\ N_RX_DESC \in Nat /\ c \in Nat /\ c <= N_RX_DESC
        /\ FreeCnt(c) = N_RX_DESC - c /\ FreeCnt(c) \in Nat
    BY RxAssumption DEF FreeCnt
  <1>4. /\ got \in Nat /\ c + got <= N_RX_DESC
        /\ (c + got < N_RX_DESC <=> stock < N_RX_DESC - c)
        /\ (c + got < N_RX_DESC => got = stock)
    <2> HIDE DEF stock
    <2> QED  BY <1>2, <1>3
  <1>5. dry' = (dry \/ hw_cnt' < N_RX_DESC)
    BY <1>1, <1>4
  <1> HIDE DEF got, stock
  <1>6. ASSUME NEW k \in 0 .. N_RX_DESC - 1
        PROVE  /\ place(Bd(h, k)) \in Nat /\ Bd(h, k) \in Bds
               /\ place(Bd(h, k)) < got <=> c <= k /\ k < c + got
               /\ c <= k => place(Bd(h, k)) = k - c
    <2>1. place(Bd(h, k)) = IF k >= c THEN k - c ELSE k - c + N_RX_DESC
      BY PlaceBehind
    <2>2. Bd(h, k) \in Bds
      <3>1. k \in 0 .. N_RX_DESC
        BY <1>3
      <3> QED  BY <3>1, BdType
    <2> HIDE DEF place
    <2>3. k \in Nat /\ (k >= c <=> c <= k)
      BY <1>3
    <2>4. CASE c <= k
      <3>1. place(Bd(h, k)) = k - c
        BY <2>1, <2>3, <2>4
      <3> QED  BY <1>3, <1>4, <2>2, <2>3, <2>4, <3>1
    <2>5. CASE ~(c <= k)
      <3>1. place(Bd(h, k)) = k - c + N_RX_DESC
        BY <2>1, <2>3, <2>5
      <3> QED  BY <1>3, <1>4, <2>2, <2>3, <2>5, <3>1
    <2> QED  BY <2>4, <2>5
  <1>7. rx_pbufs_storage' \in [Bds -> Pbufs \cup {NULL}]
    <2>1. ASSUME NEW b \in Bds
          PROVE  (IF place(b) < got THEN fresh[place(b)] ELSE rx_pbufs_storage[b])
                   \in Pbufs \cup {NULL}
      <3>1. PICK k \in 0 .. N_RX_DESC - 1 : b = Bd(h, k)
        BY BdOnto
      <3>2. place(b) \in Nat
        BY <1>6, <3>1
      <3>3. CASE place(b) < got
        <4>1. place(b) \in 0 .. got - 1
          BY <1>4, <3>2, <3>3
        <4>2. fresh[place(b)] \in Pool(refs)
          BY <1>1, <4>1
        <4> QED  BY <1>2, <3>3, <4>2
      <3>4. CASE ~(place(b) < got)
        BY <3>4
      <3> QED  BY <3>3, <3>4
    <2> HIDE DEF place
    <2> QED  BY <1>1, <2>1
  <1>8. ASSUME NEW k \in 0 .. N_RX_DESC - 1
        PROVE  /\ rx_pbufs_storage'[Bd(h, k)] = IF c <= k /\ k < c + got THEN fresh[k - c]
                                                ELSE rx_pbufs_storage[Bd(h, k)]
               /\ Bd(h, k) \in filled' <=> Bd(h, k) \in new /\ ~(c <= k /\ k < c + got)
    <2>1. /\ place(Bd(h, k)) \in Nat /\ Bd(h, k) \in Bds
          /\ place(Bd(h, k)) < got <=> c <= k /\ k < c + got
          /\ c <= k => place(Bd(h, k)) = k - c
      BY <1>6
    <2>2. rx_pbufs_storage'[Bd(h, k)] =
            IF place(Bd(h, k)) < got THEN fresh[place(Bd(h, k))] ELSE rx_pbufs_storage[Bd(h, k)]
      BY <1>1, <2>1
    <2>3. Bd(h, k) \in filled' <=> Bd(h, k) \in new /\ place(Bd(h, k)) >= got
      BY <1>1
    <2> HIDE DEF place
    <2>4. place(Bd(h, k)) >= got <=> ~(place(Bd(h, k)) < got)
      BY <1>4, <2>1
    <2> QED  BY <2>1, <2>2, <2>3, <2>4
  <1>9. filled' \subseteq Bds
    BY <1>1
  <1> HIDE DEF place
  <1>10. fresh \in [0 .. got - 1 -> Pool(refs)] /\ got \in Nat
    BY <1>4
  <1>11. hw_cnt' = c + got /\ (hw_cnt' < N_RX_DESC => got = Cardinality(Pool(refs)))
    BY <1>1, <1>4 DEF stock
  <1>12. RefillDoes(h, c, refs, new, got, fresh)
    BY <1>1, <1>4, <1>5, <1>7, <1>8, <1>9, <1>11 DEF RefillDoes
  <1> QED  BY <1>10, <1>12

LEMMA SpanPlace ==
  ASSUME NEW h \in Bds, NEW c \in 0 .. N_RX_DESC, NEW b \in Span(h, c)
  PROVE  \E k \in 0 .. N_RX_DESC - 1 : k < c /\ k \in 0 .. c - 1 /\ b = Bd(h, k)
  <1>1. PICK k \in 0 .. c - 1 : b = Bd(h, k)
    BY DEF Span
  <1>2. k \in 0 .. N_RX_DESC - 1 /\ k < c
    BY RxAssumption
  <1> QED  BY <1>1, <1>2

(***************************************************************************)
(* A refill takes pbufs out of the pool, each for one BD, and leaves none  *)
(* there when it leaves a BD without.                                      *)
(***************************************************************************)
LEMMA RefillSound ==
  ASSUME NEW h \in Bds, NEW c \in 0 .. N_RX_DESC, NEW refs \in [Pbufs -> 0 .. 1],
         NEW new \in SUBSET Bds, rx_pbufs_storage \in [Bds -> Pbufs \cup {NULL}],
         NEW X, Sound(rx_pbufs_storage, h, c, refs, X),
         Refill(h, c, refs, new)
  PROVE  /\ hw_head' = h /\ hw_cnt' \in 0 .. N_RX_DESC /\ c <= hw_cnt'
         /\ rx_pbufs_storage' \in [Bds -> Pbufs \cup {NULL}] /\ ref' \in [Pbufs -> 0 .. 1]
         /\ Sound(rx_pbufs_storage', h, hw_cnt', ref', X)
         /\ \A k \in 0 .. c - 1 : rx_pbufs_storage'[Bd(h, k)] = rx_pbufs_storage[Bd(h, k)]
         /\ \A k \in c .. hw_cnt' - 1 : rx_pbufs_storage'[Bd(h, k)] \in Pool(refs)
         /\ filled' \subseteq Bds
         /\ \A k \in 0 .. N_RX_DESC - 1 :
              Bd(h, k) \in filled' <=> Bd(h, k) \in new /\ ~(c <= k /\ k < hw_cnt')
         /\ dry' = (dry \/ hw_cnt' < N_RX_DESC)
         /\ hw_cnt' < N_RX_DESC => Pool(ref') = {}
  <1> DEFINE sto == rx_pbufs_storage
  <1>0. PICK d : d = hw_cnt'
    OBVIOUS
  <1>1. PICK got \in Nat : \E fresh \in [0 .. got - 1 -> Pool(refs)] :
          RefillDoes(h, c, refs, new, got, fresh)
    BY RefillPlaces
  <1>2. PICK fresh \in [0 .. got - 1 -> Pool(refs)] : RefillDoes(h, c, refs, new, got, fresh)
    BY <1>1
  <1> USE DEF RefillDoes
  <1>3. N_RX_DESC \in Nat /\ c \in Nat /\ d \in Nat /\ d \in 0 .. N_RX_DESC /\ c <= d
    BY RxAssumption, <1>0, <1>2
  <1>4. ref' \in [Pbufs -> 0 .. 1]
    BY <1>2
  <1>5. Range(fresh) \subseteq Pool(refs) /\ Pool(refs) \subseteq Pbufs
    BY PoolFinite DEF Range
  <1>6. ASSUME NEW k \in 0 .. N_RX_DESC - 1, k < c
        PROVE  sto'[Bd(h, k)] = sto[Bd(h, k)] /\ Bd(h, k) \in Span(h, c)
    <2>1. ~(c <= k) /\ k \in 0 .. c - 1
      BY <1>3, <1>6
    <2> QED  BY <1>2, <2>1 DEF Span
  <1>7. ASSUME NEW k \in 0 .. N_RX_DESC - 1, c <= k, k < d
        PROVE  k - c \in 0 .. got - 1 /\ sto'[Bd(h, k)] = fresh[k - c]
    BY <1>0, <1>2, <1>3, <1>7
  <1>8. ASSUME NEW k \in 0 .. N_RX_DESC - 1, k < d
        PROVE  sto'[Bd(h, k)] \in Pbufs
    <2>1. CASE k < c
      BY <1>6, <2>1 DEF Sound
    <2>2. CASE ~(k < c)
      <3>1. c <= k
        BY <1>3, <2>2
      <3>2. fresh[k - c] \in Pool(refs)
        BY <1>7, <1>8, <3>1
      <3> QED  BY <1>5, <1>7, <1>8, <3>1, <3>2
    <2> QED  BY <2>1, <2>2
  <1>9. ASSUME NEW j \in 0 .. N_RX_DESC - 1, j < d, NEW k \in 0 .. N_RX_DESC - 1, k < d,
               sto'[Bd(h, j)] = sto'[Bd(h, k)]
        PROVE  j = k
    <2>0. ASSUME NEW x \in 0 .. N_RX_DESC - 1, x < c, NEW y \in 0 .. N_RX_DESC - 1, c <= y, y < d
          PROVE  sto'[Bd(h, x)] # sto'[Bd(h, y)]
      <3>1. sto'[Bd(h, x)] \in Loaded(sto, h, c) /\ sto'[Bd(h, x)] \in Pbufs
        BY <1>6, <2>0 DEF Loaded, Sound
      <3>2. refs[sto'[Bd(h, x)]] # 0
        BY <3>1 DEF Sound
      <3>3. sto'[Bd(h, y)] \in Pool(refs)
        BY <1>7, <2>0
      <3> QED  BY <3>2, <3>3 DEF Pool
    <2>1. CASE j < c /\ k < c
      <3>1. Bd(h, j) = Bd(h, k)
        BY <1>6, <1>9, <2>1 DEF Sound
      <3> QED  BY <3>1, BdInjective
    <2>2. CASE c <= j /\ c <= k
      <3>1. fresh[j - c] = fresh[k - c] /\ j - c \in 0 .. got - 1 /\ k - c \in 0 .. got - 1
        BY <1>7, <1>9, <2>2
      <3>2. j - c = k - c
        BY <1>2, <3>1 DEF IsInjective
      <3> QED  BY <1>3, <3>2
    <2>3. (j < c \/ c <= j) /\ (k < c \/ c <= k)
      BY <1>3
    <2> QED  BY <1>9, <2>0, <2>1, <2>2, <2>3
  <1>10. Loaded(sto', h, d) = Loaded(sto, h, c) \cup Range(fresh)
    <2>1. ASSUME NEW b \in Span(h, d) PROVE sto'[b] \in Loaded(sto, h, c) \cup Range(fresh)
      <3>1. PICK k \in 0 .. N_RX_DESC - 1 : k < d /\ b = Bd(h, k)
        BY <1>3, SpanPlace
      <3>2. CASE k < c
        BY <1>6, <3>1, <3>2 DEF Loaded
      <3>3. CASE c <= k
        BY <1>7, <3>1, <3>3 DEF Range
      <3> QED  BY <1>3, <3>2, <3>3
    <2>2. ASSUME NEW b \in Span(h, c) PROVE sto[b] \in Loaded(sto', h, d)
      <3>1. PICK k \in 0 .. N_RX_DESC - 1 : k < c /\ b = Bd(h, k)
        BY SpanPlace
      <3>2. k \in 0 .. d - 1
        BY <1>3, <3>1
      <3>3. b \in Span(h, d)
        BY <3>1, <3>2 DEF Span
      <3>4. sto'[b] = sto[b]
        BY <1>6, <3>1
      <3> QED  BY <3>3, <3>4 DEF Loaded
    <2>3. ASSUME NEW x \in 0 .. got - 1 PROVE fresh[x] \in Loaded(sto', h, d)
      <3> DEFINE k == c + x
      <3>1. k \in 0 .. N_RX_DESC - 1 /\ c <= k /\ k < d /\ k - c = x /\ k \in 0 .. d - 1
        BY <1>0, <1>2, <1>3
      <3> HIDE DEF k
      <3>2. Bd(h, k) \in Span(h, d) /\ sto'[Bd(h, k)] = fresh[x]
        BY <1>7, <3>1 DEF Span
      <3> QED  BY <3>2 DEF Loaded
    <2>4. Loaded(sto', h, d) \subseteq Loaded(sto, h, c) \cup Range(fresh)
      BY <2>1 DEF Loaded
    <2>5. Loaded(sto, h, c) \subseteq Loaded(sto', h, d)
      <3>1. \A x \in Loaded(sto, h, c) : \E b \in Span(h, c) : x = sto[b]
        BY DEF Loaded
      <3> QED  BY <2>2, <3>1
    <2>6. Range(fresh) \subseteq Loaded(sto', h, d)
      BY <2>3 DEF Range
    <2> QED  BY <2>4, <2>5, <2>6
  <1>11. Sound(sto', h, d, ref', X)
    <2>1. \A b \in Span(h, d) : sto'[b] \in Pbufs
      BY <1>3, <1>8, SpanPlace
    <2>2. \A a, b \in Span(h, d) : sto'[a] = sto'[b] => a = b
      BY <1>3, <1>9, SpanPlace
    <2>3. \A p \in Pool(refs) : p \notin Loaded(sto, h, c) \cup X
      BY <1>5 DEF Pool, Sound
    <2>4. Loaded(sto', h, d) \cap X = {}
      BY <1>5, <1>10, <2>3 DEF Sound
    <2>5. ASSUME NEW p \in Pbufs
          PROVE  ref'[p] = 0 <=> p \notin Loaded(sto', h, d) \cup X
      <3>1. CASE p \in Range(fresh)
        BY <1>2, <1>10, <3>1
      <3>2. CASE p \notin Range(fresh)
        <4>1. ref'[p] = refs[p]
          BY <1>2, <3>2
        <4> QED  BY <1>10, <3>2, <4>1 DEF Sound
      <3> QED  BY <3>1, <3>2
    <2> QED  BY <2>1, <2>2, <2>4, <2>5 DEF Sound
  <1>12. ASSUME d < N_RX_DESC PROVE Pool(ref') = {}
    <2>1. IsFiniteSet(0 .. got - 1) /\ Cardinality(0 .. got - 1) = got
      BY IntervalCard
    <2>2. Cardinality(Range(fresh)) = got
      BY <1>2, <2>1, RangeCard
    <2>3. Range(fresh) = Pool(refs)
      BY <1>0, <1>2, <1>5, <1>12, <2>2, PoolFinite, FS_Subset
    <2> QED  BY <1>2, <2>3 DEF Pool
  <1>13. /\ \A k \in 0 .. c - 1 : k \in 0 .. N_RX_DESC - 1 /\ k < c
         /\ \A k \in c .. d - 1 : k \in 0 .. N_RX_DESC - 1 /\ c <= k /\ k < d
    BY <1>3
  <1>14. \A k \in 0 .. c - 1 : sto'[Bd(h, k)] = sto[Bd(h, k)]
    BY <1>6, <1>13
  <1>15. \A k \in c .. d - 1 : sto'[Bd(h, k)] \in Pool(refs)
    <2> TAKE k \in c .. d - 1
    <2>1. k - c \in 0 .. got - 1 /\ sto'[Bd(h, k)] = fresh[k - c]
      BY <1>7, <1>13
    <2> QED  BY <2>1
  <1> QED  BY <1>0, <1>2, <1>3, <1>4, <1>11, <1>12, <1>14, <1>15

-----------------------------------------------------------------------------

LEMMA BdWrap ==
  ASSUME NEW h \in Bds, NEW a \in 0 .. N_RX_DESC, NEW b \in 0 .. N_RX_DESC - 1,
         N_RX_DESC <= a + b
  PROVE  Bd(Bd(h, a), b) = Bd(h, a + b - N_RX_DESC)
  <1> DEFINE g == Bd(h, a)
             x == a + b - N_RX_DESC
  <1>1. /\ b \in 0 .. N_RX_DESC /\ x \in 0 .. N_RX_DESC /\ N_RX_DESC \in Nat
        /\ h \in Int /\ 0 <= h /\ h < N_RX_DESC
    BY RxAssumption DEF Bds
  <1>2. /\ g \in Bds /\ g = IF h + a < N_RX_DESC THEN h + a ELSE h + a - N_RX_DESC
        /\ Bd(h, x) = IF h + x < N_RX_DESC THEN h + x ELSE h + x - N_RX_DESC
    BY <1>1, BdCalc, BdType
  <1> HIDE DEF g
  <1>3. Bd(g, b) = IF g + b < N_RX_DESC THEN g + b ELSE g + b - N_RX_DESC
    BY <1>1, <1>2, BdCalc
  <1>4. Bd(g, b) = Bd(h, x)
    BY <1>1, <1>2, <1>3
  <1> QED  BY <1>4 DEF g

(***************************************************************************)
(* What XEmacPs_BdRingFromHwRx counts.                                     *)
(***************************************************************************)
LEMMA TakeCount ==
  ASSUME TypeOK, NEW n, n = BdRingFromHwRx(filled)
  PROVE  /\ n \in 0 .. hw_cnt
         /\ \A k \in 0 .. n - 1 : Bd(hw_head, k) \in filled
         /\ n < hw_cnt => Bd(hw_head, n) \notin filled
  <1> DEFINE S == {m \in 0 .. hw_cnt : \A k \in 0 .. m - 1 : Bd(hw_head, k) \in filled}
  <1>1. hw_cnt \in Nat /\ n = Max(S)
    BY RxAssumption DEF TypeOK, BdRingFromHwRx
  <1>2. S \subseteq 0 .. hw_cnt /\ 0 \in S
    BY <1>1
  <1>3. n \in S /\ \A y \in S : y <= n
    <2> HIDE DEF S
    <2> QED  BY <1>1, <1>2, MaxOf
  <1>4. ASSUME n < hw_cnt, Bd(hw_head, n) \in filled PROVE FALSE
    <2>1. n + 1 \in 0 .. hw_cnt /\ ~(n + 1 <= n) /\ n \in Nat
      BY <1>1, <1>3, <1>4
    <2>2. \A k \in 0 .. (n + 1) - 1 : k \in 0 .. n - 1 \/ k = n
      BY <2>1
    <2>3. n + 1 \in S
      BY <1>3, <1>4, <2>1, <2>2
    <2> QED  BY <1>3, <2>1, <2>3
  <1> QED  BY <1>3, <1>4

(***************************************************************************)
(* The handler takes the n BDs at the head and refills up to d BDs: where  *)
(* the hardware stands then.                                               *)
(***************************************************************************)
LEMMA HandlerPlaces ==
  ASSUME NEW h \in Bds, NEW c \in 0 .. N_RX_DESC, NEW n \in 0 .. c, NEW old, NEW new,
         \A k \in 0 .. n - 1 : Bd(h, k) \in old,
         n < c => Bd(h, n) \notin old,
         \A k \in c .. N_RX_DESC - 1 : Bd(h, k) \in old,
         NEW g, g = Bd(h, n), NEW d \in 0 .. N_RX_DESC, c - n <= d,
         \A k \in 0 .. N_RX_DESC - 1 :
           Bd(g, k) \in new <=> Bd(g, k) \in old /\ ~(c - n <= k /\ k < d),
         NEW q \in 0 .. N_RX_DESC, NEW ptr, HwStandsAt(q, h, c, ptr, old)
  PROVE  /\ \A k \in d .. N_RX_DESC - 1 : Bd(g, k) \in new
         /\ \E x \in 0 .. N_RX_DESC : HwStandsAt(x, g, d, ptr, new)
  <1>1. /\ N_RX_DESC \in Nat \ {0} /\ c \in Nat /\ n \in Nat /\ d \in Nat /\ q \in Nat
        /\ c <= N_RX_DESC /\ n <= c /\ d <= N_RX_DESC /\ q <= N_RX_DESC
        /\ n \in 0 .. N_RX_DESC /\ g \in Bds
    <2>1. n \in 0 .. N_RX_DESC
      BY RxAssumption
    <2>2. g \in Bds
      BY <2>1, BdType
    <2> QED  BY RxAssumption, <2>1, <2>2
  <1>2. ASSUME NEW k \in d .. N_RX_DESC - 1
        PROVE  Bd(g, k) \in new
    <2>0. k \in 0 .. N_RX_DESC - 1 /\ k \in Nat /\ ~(c - n <= k /\ k < d)
      BY <1>1
    <2>1. CASE n + k < N_RX_DESC
      <3>1. n + k <= N_RX_DESC /\ n + k \in c .. N_RX_DESC - 1
        BY <1>1, <2>0, <2>1
      <3>2. Bd(g, k) = Bd(h, n + k)
        BY <1>1, <2>0, <3>1, BdShift
      <3> QED  BY <2>0, <3>1, <3>2
    <2>2. CASE ~(n + k < N_RX_DESC)
      <3>1. N_RX_DESC <= n + k /\ n + k - N_RX_DESC \in 0 .. n - 1
        BY <1>1, <2>0, <2>2
      <3>2. Bd(g, k) = Bd(h, n + k - N_RX_DESC)
        BY <1>1, <2>0, <3>1, BdWrap
      <3> QED  BY <2>0, <3>1, <3>2
    <2> QED  BY <2>1, <2>2
  <1>3. \A k \in c - n .. d - 1 : Bd(g, k) \notin new
    <2> TAKE k \in c - n .. d - 1
    <2>1. k \in 0 .. N_RX_DESC - 1 /\ c - n <= k /\ k < d
      BY <1>1
    <2> QED  BY <2>1
  <1>4. ASSUME NEW k \in 0 .. c - n - 1
        PROVE  n + k \in 0 .. c - 1 /\ (Bd(g, k) \in new => Bd(h, n + k) \in old)
    <2>1. k \in Nat /\ k \in 0 .. N_RX_DESC - 1 /\ n + k <= N_RX_DESC /\ n + k \in 0 .. c - 1
      BY <1>1
    <2>2. Bd(g, k) = Bd(h, n + k)
      BY <1>1, <2>1, BdShift
    <2> QED  BY <2>1, <2>2
  <1>5. CASE Ahead(q, h, c, old) /\ n = q
    <2>1. ptr = Bd(g, 0)
      BY <1>1, <1>5, BdZero DEF HwStandsAt
    <2>2. Ahead(0, g, d, new)
      BY <1>1 DEF Ahead
    <2>3. ~shuffled => Clear(0, g, d, new)
      <3> SUFFICES ASSUME ~shuffled, NEW k \in 0 .. d - 1 PROVE Bd(g, k) \notin new
        BY DEF Clear
      <3>1. CASE k < c - n
        <4>1. k \in 0 .. c - n - 1 /\ n + k \in q .. c - 1
          BY <1>1, <1>5, <3>1
        <4>2. Bd(h, n + k) \notin old
          BY <4>1 DEF HwStandsAt, Clear
        <4> QED  BY <1>4, <4>1, <4>2
      <3>2. CASE ~(k < c - n)
        <4>1. k \in c - n .. d - 1
          BY <1>1, <3>2
        <4> QED  BY <1>3, <4>1
      <3> QED  BY <3>1, <3>2
    <2>4. HwStandsAt(0, g, d, ptr, new)
      BY <2>1, <2>2, <2>3 DEF HwStandsAt
    <2> QED  BY <1>1, <1>2, <2>4
  <1>6. CASE Ahead(q, h, c, old) /\ n # q
    <2>1. q < n
      <3> SUFFICES ASSUME n < q PROVE FALSE
        BY <1>1, <1>6
      <3>1. n \in 0 .. q - 1 /\ n < c
        BY <1>1, <1>6 DEF Ahead
      <3> QED  BY <1>6, <3>1 DEF Ahead
    <2>2. shuffled
      <3> SUFFICES ASSUME Clear(q, h, c, old) PROVE FALSE
        BY DEF HwStandsAt
      <3>1. q \in q .. c - 1 /\ q \in 0 .. n - 1
        BY <1>1, <2>1
      <3> QED  BY <3>1 DEF Clear
    <2> DEFINE x == q - n + N_RX_DESC
    <2>3. /\ x \in 0 .. N_RX_DESC - 1 /\ x \in 0 .. N_RX_DESC /\ x < N_RX_DESC
          /\ N_RX_DESC <= n + x /\ n + x - N_RX_DESC = q
          /\ \A k \in x .. d - 1 : k \in c - n .. d - 1
      BY <1>1, <2>1
    <2> HIDE DEF x
    <2>4. Bd(g, x) = Bd(h, n + x - N_RX_DESC)
      BY <1>1, <2>3, BdWrap
    <2>5. ptr = Bd(g, x)
      BY <2>3, <2>4 DEF HwStandsAt
    <2>6. Clear(x, g, d, new)
      BY <1>3, <2>3 DEF Clear
    <2>7. HwStandsAt(x, g, d, ptr, new)
      BY <2>2, <2>3, <2>5, <2>6 DEF HwStandsAt
    <2> QED  BY <1>2, <2>3, <2>7
  <1>7. CASE ~Ahead(q, h, c, old)
    <2>1. shuffled /\ q < N_RX_DESC /\ Clear(q, h, c, old) /\ ptr = Bd(h, q)
      BY <1>7 DEF HwStandsAt
    <2>2. n <= q
      <3> SUFFICES ASSUME q < n PROVE FALSE
        BY <1>1
      <3>1. q \in q .. c - 1 /\ q \in 0 .. n - 1
        BY <1>1
      <3> QED  BY <2>1, <3>1 DEF Clear
    <2> DEFINE x == q - n
    <2>3. x \in Nat /\ n + x = q /\ n + x <= N_RX_DESC /\ x \in 0 .. N_RX_DESC /\ x < N_RX_DESC
      BY <1>1, <2>1, <2>2
    <2>4. ptr = Bd(g, x)
      <3> HIDE DEF x
      <3>1. Bd(g, x) = Bd(h, n + x)
        BY <1>1, <2>3, BdShift
      <3> QED  BY <2>1, <2>3, <3>1
    <2>5. Clear(x, g, d, new)
      <3> SUFFICES ASSUME NEW k \in x .. d - 1 PROVE Bd(g, k) \notin new
        BY DEF Clear
      <3>1. CASE k < c - n
        <4>1. k \in 0 .. c - n - 1 /\ n + k \in q .. c - 1
          BY <1>1, <2>3, <3>1
        <4>2. Bd(h, n + k) \notin old
          BY <2>1, <4>1 DEF Clear
        <4> QED  BY <1>4, <4>1, <4>2
      <3>2. CASE ~(k < c - n)
        <4>1. k \in c - n .. d - 1
          BY <1>1, <2>3, <3>2
        <4> QED  BY <1>3, <4>1
      <3> QED  BY <3>1, <3>2
    <2>6. HwStandsAt(x, g, d, ptr, new)
      BY <2>1, <2>3, <2>4, <2>5 DEF HwStandsAt
    <2> QED  BY <1>2, <2>3, <2>6
  <1> QED  BY <1>5, <1>6, <1>7

-----------------------------------------------------------------------------

LEMMA QueueAppend ==
  ASSUME NEW s \in Seq(Pbufs), IsInjective(s), NEW t \in Seq(Pbufs), IsInjective(t),
         Range(s) \cap Range(t) = {}
  PROVE  /\ s \o t \in Seq(Pbufs) /\ Len(s \o t) = Len(s) + Len(t)
         /\ IsInjective(s \o t) /\ Range(s \o t) = Range(s) \cup Range(t)
  <1> DEFINE u == s \o t
  <1>1. u \in Seq(Pbufs) /\ Len(u) = Len(s) + Len(t) /\ Len(s) \in Nat /\ Len(t) \in Nat
    OBVIOUS
  <1>2. /\ DOMAIN s = 1 .. Len(s) /\ DOMAIN t = 1 .. Len(t)
        /\ DOMAIN u = 1 .. Len(s) + Len(t)
    BY <1>1
  <1>3. \A i \in 1 .. Len(s) : i \in 1 .. Len(s) + Len(t) /\ u[i] = s[i]
    BY <1>1
  <1>4. \A i \in 1 .. Len(t) : Len(s) + i \in 1 .. Len(s) + Len(t) /\ u[Len(s) + i] = t[i]
    BY <1>1
  <1>5. \A i \in 1 .. Len(s) + Len(t) :
          \/ i \in 1 .. Len(s)
          \/ i - Len(s) \in 1 .. Len(t) /\ Len(s) + (i - Len(s)) = i
    BY <1>1
  <1> HIDE DEF u
  <1>6. Range(u) = Range(s) \cup Range(t)
    <2>1. ASSUME NEW i \in DOMAIN u PROVE u[i] \in Range(s) \cup Range(t)
      <3>1. CASE i \in 1 .. Len(s)
        BY <1>2, <1>3, <3>1 DEF Range
      <3>2. CASE i - Len(s) \in 1 .. Len(t) /\ Len(s) + (i - Len(s)) = i
        <4>1. u[i] = t[i - Len(s)]
          BY <1>4, <3>2
        <4> QED  BY <1>2, <3>2, <4>1 DEF Range
      <3> QED  BY <1>2, <1>5, <3>1, <3>2
    <2>2. ASSUME NEW i \in DOMAIN s PROVE s[i] \in Range(u)
      BY <1>2, <1>3 DEF Range
    <2>3. ASSUME NEW i \in DOMAIN t PROVE t[i] \in Range(u)
      BY <1>2, <1>4 DEF Range
    <2>4. Range(u) \subseteq Range(s) \cup Range(t)
      BY <2>1 DEF Range
    <2>5. Range(s) \subseteq Range(u) /\ Range(t) \subseteq Range(u)
      <3>1. \A x \in Range(s) : \E i \in DOMAIN s : x = s[i]
        BY DEF Range
      <3>2. \A x \in Range(t) : \E i \in DOMAIN t : x = t[i]
        BY DEF Range
      <3> QED  BY <2>2, <2>3, <3>1, <3>2
    <2> QED  BY <2>4, <2>5
  <1>7. ASSUME NEW i \in DOMAIN u, NEW j \in DOMAIN u, u[i] = u[j] PROVE i = j
    <2>1. CASE i \in 1 .. Len(s) /\ j \in 1 .. Len(s)
      BY <1>2, <1>3, <1>7, <2>1 DEF IsInjective
    <2>2. ASSUME NEW x \in 1 .. Len(s), NEW y \in 1 .. Len(t) PROVE u[x] # u[Len(s) + y]
      <3>1. u[x] \in Range(s) /\ u[Len(s) + y] \in Range(t)
        BY <1>2, <1>3, <1>4 DEF Range
      <3> QED  BY <3>1
    <2>3. CASE /\ i - Len(s) \in 1 .. Len(t) /\ Len(s) + (i - Len(s)) = i
               /\ j - Len(s) \in 1 .. Len(t) /\ Len(s) + (j - Len(s)) = j
      <3>1. t[i - Len(s)] = t[j - Len(s)]
        BY <1>4, <1>7, <2>3
      <3>2. i - Len(s) = j - Len(s)
        BY <1>2, <2>3, <3>1 DEF IsInjective
      <3> QED  BY <2>3, <3>2
    <2> QED  BY <1>2, <1>5, <1>7, <2>1, <2>2, <2>3
  <1>8. IsInjective(u)
    BY <1>7 DEF IsInjective
  <1> QED  BY <1>1, <1>6, <1>8 DEF u

LEMMA QueueTake ==
  ASSUME NEW s \in Seq(Pbufs), IsInjective(s), s # <<>>
  PROVE  /\ Head(s) \in Range(s) /\ Head(s) \in Pbufs
         /\ Tail(s) \in Seq(Pbufs) /\ Len(Tail(s)) = Len(s) - 1 /\ Len(s) \in Nat
         /\ IsInjective(Tail(s)) /\ Range(Tail(s)) = Range(s) \ {Head(s)}
  <1> DEFINE u == Tail(s)
  <1>1. /\ Head(s) = s[1] /\ 1 \in DOMAIN s /\ u \in Seq(Pbufs) /\ Len(u) = Len(s) - 1
        /\ DOMAIN s = 1 .. Len(s) /\ DOMAIN u = 1 .. Len(s) - 1 /\ Len(s) \in Nat
        /\ \A i \in 1 .. Len(s) - 1 : u[i] = s[i + 1] /\ i + 1 \in 1 .. Len(s) /\ i + 1 # 1
        /\ \A i \in 1 .. Len(s) : i # 1 => i - 1 \in 1 .. Len(s) - 1 /\ (i - 1) + 1 = i
    OBVIOUS
  <1> HIDE DEF u
  <1>2. Range(u) = Range(s) \ {Head(s)}
    <2>1. ASSUME NEW i \in DOMAIN u PROVE u[i] \in Range(s) /\ u[i] # Head(s)
      BY <1>1 DEF Range, IsInjective
    <2>2. ASSUME NEW i \in DOMAIN s, s[i] # Head(s) PROVE s[i] \in Range(u)
      <3>1. i # 1 /\ i - 1 \in DOMAIN u /\ u[i - 1] = s[i]
        BY <1>1, <2>2
      <3> QED  BY <3>1 DEF Range
    <2>3. /\ \A x \in Range(s) : \E i \in DOMAIN s : x = s[i]
          /\ \A x \in Range(u) : \E i \in DOMAIN u : x = u[i]
      BY DEF Range
    <2> QED  BY <2>1, <2>2, <2>3
  <1>3. IsInjective(u)
    <2> SUFFICES ASSUME NEW i \in DOMAIN u, NEW j \in DOMAIN u, u[i] = u[j] PROVE i = j
      BY DEF IsInjective
    <2>1. i + 1 = j + 1
      BY <1>1 DEF IsInjective
    <2> QED  BY <1>1, <2>1
  <1>4. Head(s) \in Range(s) /\ Head(s) \in Pbufs
    BY <1>1 DEF Range
  <1> QED  BY <1>1, <1>2, <1>3, <1>4 DEF u

(***************************************************************************)
(* The frames at the head of the ring, of which room ones go to the queue  *)
(* and the others back to the pool: after that the rest of the ring, the   *)
(* queue and the pool share the pbufs as before.                           *)
(***************************************************************************)
Takes(sto, h, n, frames, room, t) ==
  /\ frames \in Seq(Pbufs) /\ Len(frames) = n
  /\ \A i \in 1 .. n : frames[i] = sto[Bd(h, i - 1)]
  /\ t \in Seq(Pbufs) /\ Len(t) = room /\ DOMAIN t = 1 .. room
  /\ \A i \in 1 .. room : t[i] = frames[i]

LEMMA TakesOf ==
  ASSUME NEW sto, NEW h, NEW n \in Nat, NEW room \in 0 .. n,
         \A i \in 1 .. n : sto[Bd(h, i - 1)] \in Pbufs,
         NEW frames, frames = [i \in 1 .. n |-> sto[Bd(h, i - 1)]]
  PROVE  Takes(sto, h, n, frames, room, SubSeq(frames, 1, room))
  <1> DEFINE t == SubSeq(frames, 1, room)
  <1>1. \A i \in 1 .. n : frames[i] = sto[Bd(h, i - 1)] /\ frames[i] \in Pbufs
    OBVIOUS
  <1>2. frames \in Seq(Pbufs) /\ Len(frames) = n
    BY <1>1
  <1>3. \A i \in 1 .. room : frames[i] \in Pbufs
    BY <1>1
  <1>4. /\ t \in Seq(Pbufs)
        /\ Len(t) = IF 1 <= room THEN room - 1 + 1 ELSE 0
        /\ \A i \in 1 .. room - 1 + 1 : t[i] = frames[1 + i - 1]
    <2>1. 1 \in Int /\ room \in Int
      OBVIOUS
    <2> QED  BY ONLY <1>3, <2>1, SubSeqProperties
  <1> HIDE DEF t
  <1>5. Len(t) = room /\ room - 1 + 1 = room /\ \A i \in 1 .. room : 1 + i - 1 = i
    BY <1>4
  <1>6. \A i \in 1 .. room : t[i] = frames[i]
    BY <1>4, <1>5
  <1>7. DOMAIN t = 1 .. room
    BY <1>4, <1>5
  <1> QED  BY <1>1, <1>2, <1>4, <1>5, <1>6, <1>7 DEF Takes, t

TakeLeaves(sto, h, c, n, refs, X, frames, room, t) ==
  /\ IsInjective(t) /\ Range(t) \cap X = {}
  /\ Range(t) \subseteq Loaded(sto, h, n)
  /\ DropRest(refs, frames, room) \in [Pbufs -> 0 .. 1]
  /\ Sound(sto, Bd(h, n), c - n, DropRest(refs, frames, room), X \cup Range(t))

LEMMA TakeSound ==
  ASSUME NEW sto \in [Bds -> Pbufs \cup {NULL}], NEW h \in Bds, NEW c \in 0 .. N_RX_DESC,
         NEW n \in 0 .. c, NEW refs \in [Pbufs -> 0 .. 1], NEW X, X \subseteq Pbufs,
         Sound(sto, h, c, refs, X), NEW frames, NEW room \in 0 .. n, NEW t,
         Takes(sto, h, n, frames, room, t)
  PROVE  TakeLeaves(sto, h, c, n, refs, X, frames, room, t)
  <1> DEFINE L == Loaded(sto, h, c)
             D == {frames[i] : i \in room + 1 .. n}
             g == Bd(h, n)
             R == Loaded(sto, g, c - n)
  <1>1. /\ N_RX_DESC \in Nat /\ c \in Nat /\ n \in Nat /\ room \in Nat /\ n <= c /\ room <= n
        /\ c - n \in Nat /\ n + (c - n) = c /\ n + (c - n) <= N_RX_DESC
        /\ c - n \in 0 .. N_RX_DESC /\ n \in 0 .. N_RX_DESC
    BY RxAssumption
  <1>2. /\ Span(h, c) = Span(h, n) \cup Span(g, c - n) /\ Span(h, n) \cap Span(g, c - n) = {}
    BY <1>1, SpanJoin, SpansDisjoint
  <1>3. ASSUME NEW i \in 1 .. n
        PROVE  /\ i - 1 \in 0 .. n - 1 /\ i - 1 \in 0 .. N_RX_DESC - 1
               /\ Bd(h, i - 1) \in Span(h, n) /\ frames[i] = sto[Bd(h, i - 1)]
               /\ frames[i] \in Pbufs /\ frames[i] \in Loaded(sto, h, n)
    <2>1. i - 1 \in 0 .. n - 1 /\ i - 1 \in 0 .. N_RX_DESC - 1
      BY <1>1
    <2>2. Bd(h, i - 1) \in Span(h, n)
      BY <2>1 DEF Span
    <2> QED  BY <1>2, <2>1, <2>2 DEF Sound, Loaded, Takes
  <1>4. ASSUME NEW i \in 1 .. n, NEW j \in 1 .. n, frames[i] = frames[j] PROVE i = j
    <2>1. Bd(h, i - 1) = Bd(h, j - 1)
      BY <1>2, <1>3, <1>4 DEF Sound
    <2>2. i - 1 = j - 1
      BY <1>3, <2>1, BdInjective
    <2> QED  BY <1>1, <2>2
  <1>5. ASSUME NEW x \in Loaded(sto, h, n) PROVE \E i \in 1 .. n : x = frames[i]
    <2>1. PICK k \in 0 .. n - 1 : x = sto[Bd(h, k)]
      BY DEF Loaded, Span
    <2>2. k + 1 \in 1 .. n /\ (k + 1) - 1 = k
      BY <1>1
    <2> QED  BY <1>3, <2>1, <2>2
  <1>6. Len(frames) = n
    BY DEF Takes
  <1>7. DOMAIN t = 1 .. room /\ \A i \in 1 .. room : t[i] = frames[i] /\ i \in 1 .. n
    BY <1>1 DEF Takes
  <1>8. IsInjective(t)
    BY <1>4, <1>7 DEF IsInjective
  <1>9. Range(t) \subseteq Loaded(sto, h, n)
    BY <1>3, <1>7 DEF Range
  <1>10. Loaded(sto, h, n) \subseteq L /\ R \subseteq L /\ L \subseteq Loaded(sto, h, n) \cup R
    BY <1>2 DEF Loaded
  <1>11. Loaded(sto, h, n) \cap R = {}
    <2> SUFFICES ASSUME NEW a \in Span(h, n), NEW b \in Span(g, c - n), sto[a] = sto[b]
                 PROVE  FALSE
      BY DEF Loaded
    <2> QED  BY <1>2 DEF Sound
  <1>12. \A i \in room + 1 .. n : i \in 1 .. n
    BY <1>1
  <1>13. Loaded(sto, h, n) = Range(t) \cup D /\ Range(t) \cap D = {} /\ D \subseteq Pbufs
    <2>1. D \subseteq Loaded(sto, h, n) /\ D \subseteq Pbufs
      BY <1>3, <1>12
    <2>2. ASSUME NEW i \in 1 .. n PROVE frames[i] \in Range(t) \cup D
      <3>1. i \in 1 .. room \/ i \in room + 1 .. n
        BY <1>1
      <3> QED  BY <1>7, <3>1 DEF Range
    <2>3. Range(t) \cap D = {}
      <3>1. ASSUME NEW i \in 1 .. room, NEW j \in room + 1 .. n, frames[i] = frames[j]
            PROVE  FALSE
        <4>1. i = j
          BY <1>4, <1>7, <1>12, <3>1
        <4> QED  BY <1>1, <4>1
      <3>2. \A x \in Range(t) : \E i \in 1 .. room : x = frames[i]
        BY <1>7 DEF Range
      <3>3. \A x \in D : \E j \in room + 1 .. n : x = frames[j]
        OBVIOUS
      <3> HIDE DEF D
      <3> QED  BY <3>1, <3>2, <3>3
    <2>4. Loaded(sto, h, n) \subseteq Range(t) \cup D
      <3> HIDE DEF D
      <3> QED  BY <1>5, <2>2
    <2> HIDE DEF D
    <2> QED  BY <1>9, <2>1, <2>3, <2>4
  <1> DEFINE after == DropRest(refs, frames, room)
  <1>14. after = [p \in Pbufs |-> IF p \in D THEN refs[p] - 1 ELSE refs[p]]
    BY <1>6 DEF DropRest, pbuf_free
  <1> HIDE DEF after
  <1> HIDE DEF D, R, L, g
  <1>15. \A p \in D : refs[p] = 1
    <2> TAKE p \in D
    <2>1. p \in Pbufs /\ p \in L
      BY <1>10, <1>13
    <2>2. refs[p] # 0
      BY <2>1 DEF Sound, L
    <2>3. refs[p] \in 0 .. 1
      BY <2>1
    <2> QED  BY <2>2, <2>3
  <1>16. after \in [Pbufs -> 0 .. 1] /\ \A p \in Pbufs : after[p] = IF p \in D THEN 0 ELSE refs[p]
    BY <1>14, <1>15
  <1>17. \A p \in Pbufs : after[p] = 0 <=> p \notin R \cup (X \cup Range(t))
    <2> TAKE p \in Pbufs
    <2>1. refs[p] = 0 <=> p \notin L \cup X
      BY DEF Sound, L
    <2>2. p \in D => p \notin R \cup (X \cup Range(t))
      BY <1>10, <1>11, <1>13 DEF Sound, L
    <2>3. p \notin D => (p \in L <=> p \in R \cup Range(t))
      BY <1>10, <1>13
    <2> QED  BY <1>16, <2>1, <2>2, <2>3
  <1>18. Range(t) \cap X = {} /\ R \cap (X \cup Range(t)) = {}
    BY <1>9, <1>10, <1>11 DEF Sound, L
  <1>19. Sound(sto, g, c - n, after, X \cup Range(t))
    BY <1>2, <1>17, <1>18 DEF Sound, R
  <1> QED  BY <1>8, <1>9, <1>16, <1>18, <1>19 DEF TakeLeaves, g, after

-----------------------------------------------------------------------------

(***************************************************************************)
(* The parts of the invariant in the next state.                           *)
(***************************************************************************)
LEMMA OwnersNext ==
  ASSUME Sound(rx_pbufs_storage', hw_head', hw_cnt', ref', Range(recv_q') \cup held'),
         IsInjective(recv_q'), Range(recv_q') \cap held' = {}
  PROVE  OwnersApart'
  BY Zenon DEF OwnersApart, Sound, Loaded, Span, Bd, Queued, IsInjective, Range

LEMMA HwInRingNext ==
  ASSUME dma_ready', shuffled' = shuffled,
         \A k \in hw_cnt' .. N_RX_DESC - 1 : Bd(hw_head', k) \in filled',
         \E q \in 0 .. N_RX_DESC : HwStandsAt(q, hw_head', hw_cnt', hw_ptr', filled')
  PROVE  HwInRing'
  BY DEF HwInRing, HwStandsAt, Ahead, Clear, Bd

(***************************************************************************)
(* The hardware fills a BD that has a pbuf and goes on to the next one.    *)
(***************************************************************************)
LEMMA ReceivePlaces ==
  ASSUME NEW h \in Bds, NEW c \in 0 .. N_RX_DESC, NEW ptr, NEW old,
         \A k \in c .. N_RX_DESC - 1 : Bd(h, k) \in old,
         NEW q \in 0 .. N_RX_DESC, HwStandsAt(q, h, c, ptr, old), ptr \notin old
  PROVE  /\ q < c
         /\ \E x \in 0 .. N_RX_DESC : HwStandsAt(x, h, c, Bd(ptr, 1), old \cup {ptr})
  <1> DEFINE new == old \cup {ptr}
  <1>1. /\ N_RX_DESC \in Nat \ {0} /\ c \in Nat /\ q \in Nat /\ c <= N_RX_DESC /\ q <= N_RX_DESC
    BY RxAssumption
  <1>2. q # N_RX_DESC
    <2> SUFFICES ASSUME q = N_RX_DESC PROVE FALSE
      OBVIOUS
    <2>1. Ahead(q, h, c, old) /\ ptr = Bd(h, q)
      BY <1>1 DEF HwStandsAt
    <2>2. 0 \in 0 .. q - 1
      BY <1>1
    <2> QED  BY <2>1, <2>2, BdZero DEF Ahead
  <1>3. q < c
    <2> SUFFICES ASSUME ~(q < c) PROVE FALSE
      OBVIOUS
    <2>1. q \in c .. N_RX_DESC - 1
      BY <1>1, <1>2
    <2> QED  BY <2>1 DEF HwStandsAt
  <1>4. /\ q \in 0 .. N_RX_DESC - 1 /\ q + 1 <= N_RX_DESC /\ q + 1 \in 0 .. N_RX_DESC
        /\ q + 1 <= c
        /\ \A k \in 0 .. (q + 1) - 1 : k = q \/ k \in 0 .. q - 1
        /\ \A k \in q + 1 .. c - 1 : k \in q .. c - 1 /\ k \in 0 .. N_RX_DESC - 1 /\ k # q
    BY <1>1, <1>2, <1>3
  <1>5. ptr = Bd(h, q) /\ Bd(ptr, 1) = Bd(h, q + 1)
    BY <1>1, <1>4, BdShift DEF HwStandsAt
  <1>6. Ahead(q, h, c, old) => Ahead(q + 1, h, c, new)
    BY <1>4, <1>5 DEF Ahead
  <1>7. ASSUME Clear(q, h, c, old) PROVE Clear(q + 1, h, c, new)
    <2> SUFFICES ASSUME NEW k \in q + 1 .. c - 1 PROVE Bd(h, k) \notin new
      BY DEF Clear
    <2>1. Bd(h, k) # ptr
      BY <1>4, <1>5, BdInjective
    <2> QED  BY <1>4, <1>7, <2>1 DEF Clear
  <1> HIDE DEF new
  <1>8. CASE Ahead(q, h, c, old) \/ q + 1 < N_RX_DESC
    <2>1. HwStandsAt(q + 1, h, c, Bd(ptr, 1), new)
      BY <1>5, <1>6, <1>7, <1>8 DEF HwStandsAt
    <2> QED  BY <1>3, <1>4, <2>1 DEF new
  <1>9. CASE ~Ahead(q, h, c, old) /\ ~(q + 1 < N_RX_DESC)
    <2>1. shuffled
      BY <1>9 DEF HwStandsAt
    <2>2. q + 1 = N_RX_DESC
      BY <1>1, <1>4, <1>9
    <2>3. Bd(ptr, 1) = Bd(h, 0)
      BY <1>5, <2>2, BdZero
    <2>4. Ahead(0, h, c, new)
      BY <1>1 DEF Ahead
    <2>5. HwStandsAt(0, h, c, Bd(ptr, 1), new)
      BY <2>1, <2>3, <2>4 DEF HwStandsAt
    <2> QED  BY <1>1, <1>3, <2>5 DEF new
  <1> QED  BY <1>8, <1>9

LEMMA ReceiveStep ==
  ASSUME IInv, Receive
  PROVE  IInv'
  <1> USE DEF Receive
  <1>1. /\ hw_head \in Bds /\ hw_cnt \in 0 .. N_RX_DESC /\ hw_ptr \in Bds /\ filled \subseteq Bds
        /\ ~corrupt /\ dma_ready
    BY DEF IInv, TypeOK
  <1>2. Bd(hw_ptr, 1) \in Bds
    <2>1. 1 \in 0 .. N_RX_DESC
      BY RxAssumption
    <2> QED  BY <1>1, <2>1, BdType
  <1>3. TypeOK'
    BY <1>1, <1>2 DEF IInv, TypeOK, Bds
  <1>4. SpaceUsed' /\ SafeUntilDry'
    BY DEF IInv, SpaceUsed, SafeUntilDry
  <1>5. OwnersApart'
    <2>1. /\ Sound(rx_pbufs_storage, hw_head, hw_cnt, ref, Range(recv_q) \cup held)
          /\ IsInjective(recv_q) /\ Range(recv_q) \cap held = {}
      BY DEF IInv, OwnersApart, Queued
    <2> QED  BY <2>1, OwnersNext
  <1>6. HwInRing'
    <2>1. PICK q \in 0 .. N_RX_DESC : HwStandsAt(q, hw_head, hw_cnt, hw_ptr, filled)
      BY <1>1 DEF IInv, HwInRing
    <2>2. \A k \in hw_cnt .. N_RX_DESC - 1 : Bd(hw_head, k) \in filled
      BY <1>1 DEF IInv, HwInRing
    <2>3. \E x \in 0 .. N_RX_DESC :
            HwStandsAt(x, hw_head, hw_cnt, Bd(hw_ptr, 1), filled \cup {hw_ptr})
      BY <1>1, <2>1, <2>2, ReceivePlaces
    <2> QED  BY <1>1, <2>2, <2>3, HwInRingNext
  <1> QED  BY <1>3, <1>4, <1>5, <1>6 DEF IInv

(***************************************************************************)
(* What a round of the handler finds and does.                             *)
(***************************************************************************)
HandlerDoes(n, frames, room, t) ==
  /\ n \in 0 .. hw_cnt /\ n > 0 /\ dma_ready /\ ~corrupt /\ room \in 0 .. n
  /\ \A k \in 0 .. n - 1 : Bd(hw_head, k) \in filled
  /\ n < hw_cnt => Bd(hw_head, n) \notin filled
  /\ Takes(rx_pbufs_storage, hw_head, n, frames, room, t)
  /\ room <= PQ_QUEUE_SIZE - Len(recv_q) /\ recv_q' = recv_q \o t
  /\ Refill(Bd(hw_head, n), hw_cnt - n, DropRest(ref, frames, room), filled)
  /\ UNCHANGED <<hw_ptr, held, bd_space_index, dma_ready, errors, corrupt, shuffled>>

LEMMA HandlerRound ==
  ASSUME IInv, emacps_recv_handler
  PROVE  \E n, frames, room, t : HandlerDoes(n, frames, room, t)
  <1> DEFINE n == BdRingFromHwRx(filled)
             frames == [i \in 1 .. n |-> rx_pbufs_storage[Bd(hw_head, i - 1)]]
             free == PQ_QUEUE_SIZE - Len(recv_q)
             room == IF n < free THEN n ELSE free
             t == SubSeq(frames, 1, room)
  <1>1. /\ ~corrupt /\ n > 0 /\ recv_q' = recv_q \o t
        /\ Refill(Bd(hw_head, n), hw_cnt - n, DropRest(ref, frames, room), filled)
        /\ UNCHANGED <<hw_ptr, held, bd_space_index, dma_ready, errors, corrupt, shuffled>>
    BY DEF emacps_recv_handler, SomeProcessed, setup_rx_bds
  <1>2. /\ n \in 0 .. hw_cnt
        /\ \A k \in 0 .. n - 1 : Bd(hw_head, k) \in filled
        /\ n < hw_cnt => Bd(hw_head, n) \notin filled
    BY TakeCount DEF IInv
  <1> HIDE DEF n
  <1>3. hw_cnt \in Nat /\ n \in Nat /\ hw_head \in Bds
    BY <1>2, RxAssumption DEF IInv, TypeOK
  <1>4. free \in Nat
    BY RxAssumption DEF IInv, TypeOK
  <1> HIDE DEF free
  <1>5. room \in 0 .. n /\ room <= free
    BY <1>3, <1>4
  <1> HIDE DEF room
  <1>6. dma_ready
    <2>1. 0 \in 0 .. n - 1
      BY <1>1, <1>3
    <2>2. filled # {}
      BY <1>2, <2>1
    <2> QED  BY <1>1, <2>2 DEF IInv, HwInRing
  <1>7. ASSUME NEW i \in 1 .. n PROVE rx_pbufs_storage[Bd(hw_head, i - 1)] \in Pbufs
    <2>1. i - 1 \in 0 .. hw_cnt - 1
      BY <1>2, <1>3
    <2>2. Bd(hw_head, i - 1) \in Span(hw_head, hw_cnt)
      BY <2>1 DEF Span
    <2> QED  BY <1>1, <2>2 DEF IInv, OwnersApart, Sound
  <1>8. Takes(rx_pbufs_storage, hw_head, n, frames, room, t)
    BY <1>3, <1>5, <1>7, TakesOf
  <1> HIDE DEF t, frames
  <1>9. HandlerDoes(n, frames, room, t)
    BY <1>1, <1>2, <1>5, <1>6, <1>8 DEF HandlerDoes, free
  <1> QED  BY <1>9

LEMMA HandlerRefill ==
  ASSUME IInv, NEW n, NEW frames, NEW room, NEW t, HandlerDoes(n, frames, room, t)
  PROVE  /\ hw_head' = Bd(hw_head, n) /\ hw_head' \in Bds
         /\ hw_cnt' \in 0 .. N_RX_DESC /\ hw_cnt - n <= hw_cnt'
         /\ rx_pbufs_storage' \in [Bds -> Pbufs \cup {NULL}] /\ ref' \in [Pbufs -> 0 .. 1]
         /\ filled' \subseteq Bds
         /\ recv_q' \in Seq(Pbufs) /\ Len(recv_q') <= PQ_QUEUE_SIZE /\ IsInjective(recv_q')
         /\ Range(recv_q') = Range(recv_q) \cup Range(t)
         /\ Range(t) \subseteq Loaded(rx_pbufs_storage, hw_head, n)
         /\ Range(recv_q') \cap held' = {}
         /\ Sound(rx_pbufs_storage', hw_head', hw_cnt', ref', Range(recv_q') \cup held')
         /\ \A k \in 0 .. hw_cnt - n - 1 :
              rx_pbufs_storage'[Bd(hw_head', k)] = rx_pbufs_storage[Bd(hw_head', k)]
         /\ \A k \in hw_cnt - n .. hw_cnt' - 1 :
              rx_pbufs_storage'[Bd(hw_head', k)] \in Pool(DropRest(ref, frames, room))
         /\ \A k \in 0 .. N_RX_DESC - 1 :
              Bd(hw_head', k) \in filled' <=>
                Bd(hw_head', k) \in filled /\ ~(hw_cnt - n <= k /\ k < hw_cnt')
         /\ dry' = (dry \/ hw_cnt' < N_RX_DESC)
         /\ hw_cnt' < N_RX_DESC => Pool(ref') = {}
  <1> DEFINE h == hw_head
             c == hw_cnt
             g == Bd(hw_head, n)
             X == Range(recv_q) \cup held
             after == DropRest(ref, frames, room)
             sto == rx_pbufs_storage
  <1>1. /\ h \in Bds /\ c \in 0 .. N_RX_DESC /\ n \in 0 .. c /\ room \in 0 .. n
        /\ sto \in [Bds -> Pbufs \cup {NULL}] /\ ref \in [Pbufs -> 0 .. 1]
        /\ filled \in SUBSET Bds /\ recv_q \in Seq(Pbufs) /\ held \subseteq Pbufs /\ ~corrupt
    BY DEF IInv, TypeOK, HandlerDoes
  <1>2. X \subseteq Pbufs
    BY <1>1 DEF Range
  <1>3. /\ Sound(sto, h, c, ref, X) /\ IsInjective(recv_q) /\ Range(recv_q) \cap held = {}
    BY <1>1 DEF IInv, OwnersApart, Queued
  <1>4. Takes(sto, h, n, frames, room, t)
    BY DEF HandlerDoes
  <1> HIDE DEF X
  <1>5. /\ IsInjective(t) /\ Range(t) \cap X = {} /\ Range(t) \subseteq Loaded(sto, h, n)
        /\ after \in [Pbufs -> 0 .. 1] /\ Sound(sto, g, c - n, after, X \cup Range(t))
    <2>1. TakeLeaves(sto, h, c, n, ref, X, frames, room, t)
      BY <1>1, <1>2, <1>3, <1>4, TakeSound
    <2> QED  BY <2>1 DEF TakeLeaves
  <1>6. g \in Bds /\ c - n \in 0 .. N_RX_DESC
    <2>1. n \in 0 .. N_RX_DESC /\ c - n \in 0 .. N_RX_DESC
      BY <1>1, RxAssumption
    <2> QED  BY <1>1, <2>1, BdType
  <1>7. Refill(g, c - n, after, filled)
    BY DEF HandlerDoes
  <1> HIDE DEF after, g
  <1>8. /\ hw_head' = g /\ hw_cnt' \in 0 .. N_RX_DESC /\ c - n <= hw_cnt'
        /\ sto' \in [Bds -> Pbufs \cup {NULL}] /\ ref' \in [Pbufs -> 0 .. 1]
        /\ Sound(sto', g, hw_cnt', ref', X \cup Range(t))
        /\ \A k \in 0 .. (c - n) - 1 : sto'[Bd(g, k)] = sto[Bd(g, k)]
        /\ \A k \in (c - n) .. hw_cnt' - 1 : sto'[Bd(g, k)] \in Pool(after)
        /\ filled' \subseteq Bds
        /\ \A k \in 0 .. N_RX_DESC - 1 :
             Bd(g, k) \in filled' <=> Bd(g, k) \in filled /\ ~(c - n <= k /\ k < hw_cnt')
        /\ dry' = (dry \/ hw_cnt' < N_RX_DESC)
        /\ hw_cnt' < N_RX_DESC => Pool(ref') = {}
    BY <1>1, <1>5, <1>6, <1>7, RefillSound
  <1>9. t \in Seq(Pbufs) /\ Len(t) = room /\ recv_q' = recv_q \o t /\ held' = held
    BY DEF HandlerDoes, Takes
  <1>10. Range(recv_q) \cap Range(t) = {} /\ held \cap Range(t) = {}
    BY <1>5 DEF X
  <1>11. /\ recv_q' \in Seq(Pbufs) /\ Len(recv_q') = Len(recv_q) + Len(t)
         /\ IsInjective(recv_q') /\ Range(recv_q') = Range(recv_q) \cup Range(t)
    <2>1. /\ recv_q \o t \in Seq(Pbufs) /\ Len(recv_q \o t) = Len(recv_q) + Len(t)
          /\ IsInjective(recv_q \o t) /\ Range(recv_q \o t) = Range(recv_q) \cup Range(t)
      BY <1>1, <1>3, <1>5, <1>9, <1>10, QueueAppend
    <2> QED  BY <1>9, <2>1
  <1>12. Len(recv_q') <= PQ_QUEUE_SIZE
    <2>1. /\ room <= PQ_QUEUE_SIZE - Len(recv_q) /\ room \in Int
      BY <1>1 DEF HandlerDoes
    <2>2. Len(recv_q) \in Nat /\ PQ_QUEUE_SIZE \in Nat
      BY <1>1, RxAssumption
    <2> QED  BY <1>9, <1>11, <2>1, <2>2
  <1>13. X \cup Range(t) = Range(recv_q') \cup held'
    BY <1>9, <1>11 DEF X
  <1>14. Range(recv_q') \cap held' = {}
    BY <1>3, <1>9, <1>10, <1>11
  <1>15. Sound(sto', hw_head', hw_cnt', ref', Range(recv_q') \cup held')
    BY <1>8, <1>13
  <1> QED  BY <1>5, <1>6, <1>8, <1>11, <1>12, <1>14, <1>15 DEF g, after

LEMMA HandlerStep ==
  ASSUME IInv, emacps_recv_handler
  PROVE  IInv'
  <1>1. PICK n, frames, room, t : HandlerDoes(n, frames, room, t)
    BY HandlerRound
  <1>2. /\ ~corrupt /\ dma_ready /\ n \in 0 .. hw_cnt /\ hw_head \in Bds /\ hw_cnt \in 0 .. N_RX_DESC
        /\ UNCHANGED <<hw_ptr, held, bd_space_index, dma_ready, errors, corrupt, shuffled>>
    BY <1>1 DEF HandlerDoes, IInv, TypeOK
  <1>3. PICK d : d = hw_cnt'
    OBVIOUS
  <1>4. PICK g : g = hw_head'
    OBVIOUS
  <1>5. /\ g = Bd(hw_head, n) /\ g \in Bds /\ d \in 0 .. N_RX_DESC /\ hw_cnt - n <= d
        /\ filled' \subseteq Bds /\ ref' \in [Pbufs -> 0 .. 1]
        /\ rx_pbufs_storage' \in [Bds -> Pbufs \cup {NULL}]
        /\ recv_q' \in Seq(Pbufs) /\ Len(recv_q') <= PQ_QUEUE_SIZE /\ IsInjective(recv_q')
        /\ Range(recv_q') \cap held' = {}
        /\ Sound(rx_pbufs_storage', hw_head', hw_cnt', ref', Range(recv_q') \cup held')
        /\ \A k \in 0 .. N_RX_DESC - 1 :
              Bd(g, k) \in filled' <=> Bd(g, k) \in filled /\ ~(hw_cnt - n <= k /\ k < d)
        /\ dry' = (dry \/ d < N_RX_DESC)
    BY <1>1, <1>3, <1>4, HandlerRefill
  <1>6. OwnersApart'
    BY <1>5, OwnersNext
  <1>7. TypeOK'
    <2>1. dry \in BOOLEAN
      BY DEF IInv, TypeOK
    <2>2. dry' \in BOOLEAN
      BY <1>5, <2>1
    <2> QED  BY <1>2, <1>3, <1>4, <1>5, <2>2 DEF IInv, TypeOK, Bds
  <1>8. SpaceUsed'
    BY <1>2 DEF IInv, SpaceUsed
  <1>9. SafeUntilDry'
    <2>1. ~dry' => d = N_RX_DESC
      <3>1. ~dry' => ~(d < N_RX_DESC)
        BY <1>5
      <3> QED  BY <1>5, <3>1, RxAssumption
    <2> QED  BY <1>2, <1>3, <2>1 DEF SafeUntilDry
  <1>10. HwInRing'
    <2>1. PICK q \in 0 .. N_RX_DESC : HwStandsAt(q, hw_head, hw_cnt, hw_ptr, filled)
      BY <1>2 DEF IInv, HwInRing
    <2>2. \A k \in hw_cnt .. N_RX_DESC - 1 : Bd(hw_head, k) \in filled
      BY <1>2 DEF IInv, HwInRing
    <2>3. /\ \A k \in 0 .. n - 1 : Bd(hw_head, k) \in filled
          /\ n < hw_cnt => Bd(hw_head, n) \notin filled
      BY <1>1 DEF HandlerDoes
    <2>4. /\ \A k \in d .. N_RX_DESC - 1 : Bd(g, k) \in filled'
          /\ \E x \in 0 .. N_RX_DESC : HwStandsAt(x, g, d, hw_ptr, filled')
      BY <1>2, <1>5, <2>1, <2>2, <2>3, HandlerPlaces
    <2> QED  BY <1>2, <1>3, <1>4, <2>4, HwInRingNext
  <1> QED  BY <1>6, <1>7, <1>8, <1>9, <1>10 DEF IInv

(***************************************************************************)
(* The whole ring is the same set of BDs from wherever it is counted.      *)
(***************************************************************************)
LEMMA SpanWhole ==
  ASSUME NEW h \in Bds
  PROVE  Span(h, N_RX_DESC) = Bds /\ Span(h, 0) = {}
  <1>1. N_RX_DESC \in 0 .. N_RX_DESC
    BY RxAssumption
  <1>2. Span(h, N_RX_DESC) \subseteq Bds
    BY <1>1, SpanCard
  <1>3. Bds \subseteq Span(h, N_RX_DESC)
    BY BdOnto DEF Span
  <1>4. Span(h, 0) = {}
    BY DEF Span
  <1> QED  BY <1>2, <1>3, <1>4

LEMMA SoundEmpty ==
  ASSUME NEW sto, NEW h \in Bds, NEW refs, NEW X, \A p \in Pbufs : refs[p] = 0 <=> p \notin X
  PROVE  Sound(sto, h, 0, refs, X)
  <1>1. Span(h, 0) = {}
    BY SpanWhole
  <1>2. Loaded(sto, h, 0) = {}
    BY <1>1 DEF Loaded
  <1> QED  BY <1>1, <1>2 DEF Sound

LEMMA ZeroBd == 0 \in Bds /\ 0 \in 0 .. N_RX_DESC
  BY RxAssumption DEF Bds

LEMMA InitDmaStep ==
  ASSUME IInv, NEW refs \in [Pbufs -> 0 .. 1], ~corrupt,
         \A p \in Pbufs : refs[p] = 0 <=> p \notin Range(recv_q) \cup held,
         init_dma(refs), UNCHANGED <<recv_q, held, corrupt>>, errors' \in Nat
  PROVE  /\ IInv'
         /\ Sound(rx_pbufs_storage', hw_head', hw_cnt', ref', Range(recv_q) \cup held)
         /\ hw_head' = 0 /\ hw_cnt' \in 0 .. N_RX_DESC /\ filled' = {}
         /\ \A k \in 0 .. hw_cnt' - 1 : rx_pbufs_storage'[Bd(hw_head', k)] \in Pool(refs)
         /\ dry' = (dry \/ hw_cnt' < N_RX_DESC)
         /\ hw_cnt' < N_RX_DESC => Pool(ref') = {}
  <1> DEFINE X == Range(recv_q) \cup held
  <1>1. /\ bd_space_index' = bd_space_index + CHAINS /\ Refill(0, 0, refs, {})
        /\ hw_ptr' = 0 /\ shuffled' = FALSE /\ dma_ready' = (hw_cnt' = N_RX_DESC)
    BY DEF init_dma
  <1>2. rx_pbufs_storage \in [Bds -> Pbufs \cup {NULL}] /\ {} \in SUBSET Bds
    BY DEF IInv, TypeOK
  <1>3. Sound(rx_pbufs_storage, 0, 0, refs, X)
    BY ZeroBd, SoundEmpty
  <1> HIDE DEF X
  <1>4. PICK d : d = hw_cnt'
    OBVIOUS
  <1>5. /\ hw_head' = 0 /\ d \in 0 .. N_RX_DESC
        /\ rx_pbufs_storage' \in [Bds -> Pbufs \cup {NULL}] /\ ref' \in [Pbufs -> 0 .. 1]
        /\ Sound(rx_pbufs_storage', 0, d, ref', X)
        /\ \A k \in 0 .. d - 1 : rx_pbufs_storage'[Bd(0, k)] \in Pool(refs)
        /\ filled' \subseteq Bds
        /\ \A k \in 0 .. N_RX_DESC - 1 : Bd(0, k) \notin filled'
        /\ dry' = (dry \/ d < N_RX_DESC)
        /\ d < N_RX_DESC => Pool(ref') = {}
    <2>1. /\ hw_head' = 0 /\ hw_cnt' \in 0 .. N_RX_DESC /\ 0 <= hw_cnt'
          /\ rx_pbufs_storage' \in [Bds -> Pbufs \cup {NULL}] /\ ref' \in [Pbufs -> 0 .. 1]
          /\ Sound(rx_pbufs_storage', 0, hw_cnt', ref', X)
          /\ \A k \in 0 .. 0 - 1 : rx_pbufs_storage'[Bd(0, k)] = rx_pbufs_storage[Bd(0, k)]
          /\ \A k \in 0 .. hw_cnt' - 1 : rx_pbufs_storage'[Bd(0, k)] \in Pool(refs)
          /\ filled' \subseteq Bds
          /\ \A k \in 0 .. N_RX_DESC - 1 :
               Bd(0, k) \in filled' <=> Bd(0, k) \in {} /\ ~(0 <= k /\ k < hw_cnt')
          /\ dry' = (dry \/ hw_cnt' < N_RX_DESC)
          /\ hw_cnt' < N_RX_DESC => Pool(ref') = {}
      BY <1>1, <1>2, <1>3, ZeroBd, RefillSound
    <2> QED  BY <1>4, <2>1
  <1>6. filled' = {}
    BY <1>5, ZeroBd, BdOnto
  <1>7. d < N_RX_DESC \/ d = N_RX_DESC
    BY <1>5, RxAssumption
  <1>8. OwnersApart'
    <2>1. /\ Sound(rx_pbufs_storage', hw_head', hw_cnt', ref', Range(recv_q') \cup held')
      BY <1>4, <1>5 DEF X
    <2>2. IsInjective(recv_q) /\ Range(recv_q) \cap held = {}
      BY DEF IInv, OwnersApart, Queued
    <2>3. IsInjective(recv_q') /\ Range(recv_q') \cap held' = {}
      BY <2>2
    <2> QED  BY <2>1, <2>3, OwnersNext
  <1>9. TypeOK'
    <2>1. dry' \in BOOLEAN
      BY <1>5 DEF IInv, TypeOK
    <2>2. dma_ready' \in BOOLEAN
      BY <1>1
    <2> QED  BY <1>1, <1>4, <1>5, <1>6, <2>1, <2>2, ZeroBd DEF IInv, TypeOK, Bds
  <1>10. SpaceUsed'
    <2>1. bd_space_index' \in Nat /\ bd_space_index' # 0
      BY <1>1, RxAssumption DEF IInv, SpaceUsed
    <2> QED  BY <2>1 DEF SpaceUsed
  <1>11. SafeUntilDry'
    BY <1>4, <1>5, <1>7 DEF SafeUntilDry
  <1>12. HwInRing'
    <2>1. CASE d = N_RX_DESC
      <3>1. dma_ready'
        BY <1>1, <1>4, <2>1
      <3>2. \A k \in hw_cnt' .. N_RX_DESC - 1 : Bd(hw_head', k) \in filled'
        <4>1. hw_cnt' .. N_RX_DESC - 1 = {}
          BY <1>4, <2>1, RxAssumption
        <4> QED  BY <4>1
      <3>3. HwStandsAt(0, hw_head, hw_cnt, hw_ptr, filled)'
        <4>1. Bd(0, 0) = 0
          BY ZeroBd, BdZero
        <4>2. 0 <= hw_cnt' /\ 0 .. 0 - 1 = {}
          BY <1>4, <1>5
        <4> QED  BY <1>1, <1>5, <1>6, <4>1, <4>2 DEF HwStandsAt, Ahead, Clear, Bd
      <3> QED  BY <3>1, <3>2, <3>3, ZeroBd DEF HwInRing, Bd
    <2>2. CASE d < N_RX_DESC
      <3>1. ~dma_ready'
        <4>1. d # N_RX_DESC
          BY <1>5, <2>2, RxAssumption
        <4> QED  BY <1>1, <1>4, <4>1
      <3> QED  BY <1>1, <1>4, <1>5, <1>6, <2>2, <3>1 DEF HwInRing
    <2> QED  BY <1>7, <2>1, <2>2
  <1>13. IInv'
    BY <1>8, <1>9, <1>10, <1>11, <1>12 DEF IInv
  <1> QED  BY <1>4, <1>5, <1>6, <1>13 DEF X

LEMMA LowLevelInitStep ==
  ASSUME IInv, low_level_init
  PROVE  /\ ~corrupt /\ hw_cnt = 0 /\ ref \in [Pbufs -> 0 .. 1]
         /\ \A p \in Pbufs : ref[p] = 0 <=> p \notin Range(recv_q) \cup held
         /\ init_dma(ref) /\ UNCHANGED <<recv_q, held, corrupt>> /\ errors' \in Nat
         /\ IInv'
  <1>1. /\ init_dma(ref) /\ UNCHANGED <<recv_q, held, corrupt>> /\ errors' \in Nat
        /\ ~corrupt /\ hw_cnt = 0 /\ hw_head \in Bds /\ ref \in [Pbufs -> 0 .. 1]
    BY DEF low_level_init, IInv, SpaceUsed, TypeOK
  <1>2. Sound(rx_pbufs_storage, hw_head, 0, ref, Range(recv_q) \cup held)
    BY <1>1 DEF IInv, OwnersApart, Queued
  <1>3. Loaded(rx_pbufs_storage, hw_head, 0) = {}
    BY <1>1, SpanWhole DEF Loaded
  <1>4. \A p \in Pbufs : ref[p] = 0 <=> p \notin Range(recv_q) \cup held
    BY <1>2, <1>3 DEF Sound
  <1>5. IInv'
    BY <1>1, <1>4, InitDmaStep
  <1> QED  BY <1>1, <1>4, <1>5

(***************************************************************************)
(* The table of a full ring has no stale entry.                            *)
(***************************************************************************)
LEMMA NoneStale ==
  ASSUME IInv, hw_cnt = N_RX_DESC
  PROVE  ~StaleEntry
  <1>1. Span(hw_head, hw_cnt) = Bds
    BY SpanWhole DEF IInv, TypeOK
  <1>2. WithHw = Bds
    BY <1>1 DEF WithHw, Span
  <1> QED  BY <1>2 DEF StaleEntry

(***************************************************************************)
(* Freeing the table without a stale entry frees the pbufs of the ring and *)
(* leaves those of the others in use.                                      *)
(***************************************************************************)
LEMMA FreeRing ==
  ASSUME IInv, ~corrupt, ~StaleEntry
  PROVE  \A p \in Pbufs : free_txrx_pbufs[p] = 0 <=> p \notin Range(recv_q) \cup held
  <1> DEFINE L == Loaded(rx_pbufs_storage, hw_head, hw_cnt)
             X == Range(recv_q) \cup held
  <1>1. Sound(rx_pbufs_storage, hw_head, hw_cnt, ref, X)
    BY DEF IInv, OwnersApart, Queued
  <1>2. L \cap X = {} /\ \A p \in Pbufs : ref[p] = 0 <=> p \notin L \cup X
    BY <1>1 DEF Sound
  <1>3. \A p \in Pbufs : p \in Range(rx_pbufs_storage) <=> p \in L
    <2>1. rx_pbufs_storage \in [Bds -> Pbufs \cup {NULL}] /\ hw_head \in Bds
          /\ hw_cnt \in 0 .. N_RX_DESC
      BY DEF IInv, TypeOK
    <2>2. Span(hw_head, hw_cnt) \subseteq Bds
      BY <2>1, SpanCard
    <2>3. \A b \in Bds \ Span(hw_head, hw_cnt) : rx_pbufs_storage[b] = NULL
      BY DEF StaleEntry, WithHw, Span
    <2>4. \A p : p \in Range(rx_pbufs_storage) <=> \E b \in Bds : p = rx_pbufs_storage[b]
      BY <2>1 DEF Range
    <2> QED  BY <2>2, <2>3, <2>4, RxAssumption DEF Loaded
  <1>4. \A p \in Pbufs : free_txrx_pbufs[p] = IF p \in L THEN 0 ELSE ref[p]
    BY <1>3 DEF free_txrx_pbufs
  <1> HIDE DEF L, X
  <1>5. \A p \in Pbufs : free_txrx_pbufs[p] = 0 <=> p \notin X
    BY <1>2, <1>4
  <1> QED  BY <1>5 DEF X

(***************************************************************************)
(* An error makes new rings.  Either it finds the table sound, or it finds *)
(* a stale entry, and then the pool has run dry before.                    *)
(***************************************************************************)
LEMMA ErrorCases ==
  ASSUME IInv, HandleEmacPsError
  PROVE  /\ ~corrupt /\ bd_space_index > 0 /\ errors' = errors + 1 /\ errors' \in Nat
         /\ UNCHANGED <<recv_q, held>>
         /\ free_txrx_pbufs \in [Pbufs -> 0 .. 1] /\ init_dma(free_txrx_pbufs)
         /\ \/ /\ UNCHANGED corrupt
               /\ \A p \in Pbufs : free_txrx_pbufs[p] = 0 <=> p \notin Range(recv_q) \cup held
            \/ corrupt' = TRUE /\ dry
  <1>1. /\ ~corrupt /\ bd_space_index > 0 /\ errors' = errors + 1 /\ UNCHANGED <<recv_q, held>>
        /\ init_dma(free_txrx_pbufs) /\ corrupt' = StaleEntry
    BY DEF HandleEmacPsError
  <1>2. errors' \in Nat
    BY <1>1 DEF IInv, SpaceUsed
  <1>3. free_txrx_pbufs \in [Pbufs -> 0 .. 1]
    <2>1. ref \in [Pbufs -> 0 .. 1]
      BY DEF IInv, TypeOK
    <2> QED  BY <2>1 DEF free_txrx_pbufs
  <1>4. CASE StaleEntry
    <2>1. hw_cnt # N_RX_DESC
      BY <1>4, NoneStale
    <2>2. dry
      BY <1>1, <2>1 DEF IInv, SafeUntilDry, TypeOK
    <2> QED  BY <1>1, <1>2, <1>3, <1>4, <2>2
  <1>5. CASE ~StaleEntry
    <2>1. \A p \in Pbufs : free_txrx_pbufs[p] = 0 <=> p \notin Range(recv_q) \cup held
      BY <1>1, <1>5, FreeRing
    <2>2. UNCHANGED corrupt
      <3>1. corrupt = FALSE
        BY <1>1 DEF IInv, TypeOK
      <3>2. corrupt' = FALSE
        BY <1>1, <1>5 DEF StaleEntry
      <3> QED  BY <3>1, <3>2
    <2> QED  BY <1>1, <1>2, <1>3, <2>1, <2>2
  <1> QED  BY <1>4, <1>5

(***************************************************************************)
(* Once ring and table have come apart, only the counts are followed.      *)
(***************************************************************************)
LEMMA CorruptNext ==
  ASSUME IInv, corrupt' = TRUE, dry, bd_space_index > 0, errors' \in Nat,
         UNCHANGED <<ring, ref, recv_q, held, bd_space_index, dma_ready, dry, shuffled>>
  PROVE  IInv'
  <1>1. TypeOK'
    BY DEF IInv, TypeOK, ring, Bds
  <1>2. SpaceUsed'
    BY DEF IInv, SpaceUsed
  <1>3. OwnersApart' /\ HwInRing' /\ SafeUntilDry'
    BY DEF OwnersApart, HwInRing, SafeUntilDry
  <1> QED  BY <1>1, <1>2, <1>3 DEF IInv

(***************************************************************************)
(* New rings made of a pool with pbufs that are still in use elsewhere.    *)
(***************************************************************************)
LEMMA CorruptInitDma ==
  ASSUME IInv, NEW refs \in [Pbufs -> 0 .. 1], init_dma(refs), corrupt' = TRUE, dry,
         UNCHANGED <<recv_q, held>>, errors' \in Nat
  PROVE  IInv'
  <1>1. /\ bd_space_index' = bd_space_index + CHAINS /\ Refill(0, 0, refs, {})
        /\ hw_ptr' = 0 /\ shuffled' = FALSE /\ dma_ready' = (hw_cnt' = N_RX_DESC)
    BY DEF init_dma
  <1>2. rx_pbufs_storage \in [Bds -> Pbufs \cup {NULL}] /\ {} \in SUBSET Bds
    BY DEF IInv, TypeOK
  <1>3. PICK got \in Nat : \E fresh \in [0 .. got - 1 -> Pool(refs)] :
          RefillDoes(0, 0, refs, {}, got, fresh)
    BY <1>1, <1>2, ZeroBd, RefillPlaces
  <1>4. /\ hw_head' = 0 /\ hw_cnt' = 0 + got /\ 0 + got <= N_RX_DESC
        /\ dry' = (dry \/ hw_cnt' < N_RX_DESC)
        /\ rx_pbufs_storage' \in [Bds -> Pbufs \cup {NULL}] /\ filled' \subseteq Bds
    BY <1>3 DEF RefillDoes
  <1>5. ref' \in [Pbufs -> 0 .. 1]
    <2>1. PICK fresh : ref' = [p \in Pbufs |-> IF p \in Range(fresh) THEN 1 ELSE refs[p]]
      BY <1>3 DEF RefillDoes
    <2> QED  BY <2>1
  <1>6. hw_cnt' \in 0 .. N_RX_DESC
    BY <1>4, RxAssumption
  <1>7. dry' = TRUE /\ dma_ready' \in BOOLEAN
    BY <1>1, <1>4
  <1>8. TypeOK'
    BY <1>1, <1>4, <1>5, <1>6, <1>7, ZeroBd DEF IInv, TypeOK, Bds
  <1>9. SpaceUsed'
    <2>1. bd_space_index' \in Nat /\ bd_space_index' # 0
      BY <1>1, RxAssumption DEF IInv, SpaceUsed
    <2> QED  BY <2>1 DEF SpaceUsed
  <1>10. OwnersApart' /\ HwInRing' /\ SafeUntilDry'
    BY <1>7 DEF OwnersApart, HwInRing, SafeUntilDry
  <1> QED  BY <1>8, <1>9, <1>10 DEF IInv

LEMMA ErrorStep ==
  ASSUME IInv, HandleEmacPsError
  PROVE  IInv'
  <1> DEFINE refs == free_txrx_pbufs
  <1>1. /\ ~corrupt /\ errors' \in Nat /\ UNCHANGED <<recv_q, held>>
        /\ refs \in [Pbufs -> 0 .. 1] /\ init_dma(refs)
        /\ \/ /\ UNCHANGED corrupt
              /\ \A p \in Pbufs : refs[p] = 0 <=> p \notin Range(recv_q) \cup held
           \/ corrupt' = TRUE /\ dry
    BY ErrorCases
  <1> HIDE DEF refs
  <1>2. CASE /\ UNCHANGED corrupt
             /\ \A p \in Pbufs : refs[p] = 0 <=> p \notin Range(recv_q) \cup held
    BY <1>1, <1>2, InitDmaStep
  <1>3. CASE corrupt' = TRUE /\ dry
    BY <1>1, <1>3, CorruptInitDma
  <1> QED  BY <1>1, <1>2, <1>3

(***************************************************************************)
(* A pbuf given back by one of its owners.                                 *)
(***************************************************************************)
LEMMA ReleaseSound ==
  ASSUME NEW sto, NEW h, NEW c, NEW refs \in [Pbufs -> 0 .. 1], NEW X, Sound(sto, h, c, refs, X),
         NEW p \in Pbufs, p \in X
  PROVE  /\ pbuf_free(refs, {p}) \in [Pbufs -> 0 .. 1] /\ p \notin Loaded(sto, h, c)
         /\ Sound(sto, h, c, pbuf_free(refs, {p}), X \ {p})
  <1>0. PICK after : after = pbuf_free(refs, {p})
    OBVIOUS
  <1> DEFINE L == Loaded(sto, h, c)
  <1>1. L \cap X = {} /\ \A x \in Pbufs : refs[x] = 0 <=> x \notin L \cup X
    BY DEF Sound
  <1> HIDE DEF L
  <1>2. refs[p] = 1
    <2>1. refs[p] # 0 /\ refs[p] \in 0 .. 1
      BY <1>1
    <2> QED  BY <2>1
  <1>3. \A x \in Pbufs : after[x] = IF x = p THEN 0 ELSE refs[x]
    BY <1>0, <1>2 DEF pbuf_free
  <1>4. after \in [Pbufs -> 0 .. 1]
    <2>1. \A x \in Pbufs : after[x] \in 0 .. 1
      BY <1>3
    <2> QED  BY <1>0, <2>1 DEF pbuf_free
  <1>5. \A x \in Pbufs : after[x] = 0 <=> x \notin L \cup (X \ {p})
    BY <1>1, <1>3
  <1>6. L \cap (X \ {p}) = {} /\ p \notin L
    BY <1>1
  <1> QED  BY <1>0, <1>4, <1>5, <1>6 DEF Sound, L

(***************************************************************************)
(* A step that gives pbufs from hand to hand and leaves the ring alone.    *)
(***************************************************************************)
LEMMA RingAlone ==
  ASSUME IInv, ~corrupt,
         UNCHANGED <<ring, bd_space_index, dma_ready, errors, corrupt, dry, shuffled>>,
         ref' \in [Pbufs -> 0 .. 1], recv_q' \in Seq(Pbufs), Len(recv_q') <= PQ_QUEUE_SIZE,
         held' \subseteq Pbufs,
         Sound(rx_pbufs_storage, hw_head, hw_cnt, ref', Range(recv_q') \cup held'),
         IsInjective(recv_q'), Range(recv_q') \cap held' = {}
  PROVE  IInv'
  <1> USE DEF ring
  <1>1. TypeOK'
    BY DEF IInv, TypeOK, Bds
  <1>2. SpaceUsed' /\ SafeUntilDry'
    BY DEF IInv, SpaceUsed, SafeUntilDry
  <1>3. OwnersApart'
    BY OwnersNext
  <1>4. HwInRing'
    BY DEF IInv, HwInRing, HwStandsAt, Ahead, Clear, Bd
  <1> QED  BY <1>1, <1>2, <1>3, <1>4 DEF IInv

(***************************************************************************)
(* xemacpsif_input passes the pbuf at the head of the queue to the stack   *)
(* or back to the pool.                                                    *)
(***************************************************************************)
LEMMA InputCases ==
  ASSUME IInv, NEW kind \in Kinds, NEW keep \in BOOLEAN, xemacpsif_input(kind, keep)
  PROVE  /\ ~corrupt /\ recv_q # <<>> /\ recv_q' = Tail(recv_q)
         /\ UNCHANGED <<ring, bd_space_index, dma_ready, errors, corrupt, dry, shuffled>>
         /\ \/ ref' = ref /\ held' = held \cup {Head(recv_q)}
            \/ /\ ref' = [x \in Pbufs |-> IF x = Head(recv_q) THEN ref[x] - 1 ELSE ref[x]]
               /\ held' = held
  <1> DEFINE p == Head(recv_q)
             frees == IF kind = "ip" /\ keep THEN 0 ELSE 1
             freed == CASE kind = "other" -> 1
                        [] kind # "other" /\ ethernet_input(kind, keep).err = "ERR_OK" ->
                             ethernet_input(kind, keep).frees
                        [] OTHER -> ethernet_input(kind, keep).frees + 1
  <1>1. /\ ~corrupt /\ recv_q # <<>> /\ recv_q' = Tail(recv_q)
        /\ ref' = [ref EXCEPT ![p] = @ - freed]
        /\ held' = IF freed = 0 THEN held \cup {p} ELSE held
        /\ UNCHANGED <<ring, bd_space_index, dma_ready, errors, corrupt, dry, shuffled>>
    BY DEF xemacpsif_input
  <1>2. ethernet_input(kind, keep).err = "ERR_OK" /\ ethernet_input(kind, keep).frees = frees
    BY DEF ethernet_input
  <1>3. freed = 0 \/ freed = 1
    BY <1>2
  <1> HIDE DEF freed
  <1>4. ref \in [Pbufs -> 0 .. 1]
    BY DEF IInv, TypeOK
  <1>5. CASE freed = 0
    <2>1. ref' = ref
      BY <1>1, <1>4, <1>5
    <2> QED  BY <1>1, <1>5, <2>1
  <1>6. CASE freed = 1
    <2>1. ref' = [x \in Pbufs |-> IF x = p THEN ref[x] - 1 ELSE ref[x]]
      BY <1>1, <1>4, <1>6
    <2>2. held' = held
      BY <1>1, <1>6
    <2> QED  BY <1>1, <2>1, <2>2
  <1> QED  BY <1>3, <1>5, <1>6

LEMMA InputStep ==
  ASSUME IInv, NEW kind \in Kinds, NEW keep \in BOOLEAN, xemacpsif_input(kind, keep)
  PROVE  IInv'
  <1> DEFINE p == Head(recv_q)
             X == Range(recv_q) \cup held
  <1>1. /\ ~corrupt /\ recv_q # <<>> /\ recv_q' = Tail(recv_q)
        /\ UNCHANGED <<ring, bd_space_index, dma_ready, errors, corrupt, dry, shuffled>>
        /\ \/ ref' = ref /\ held' = held \cup {p}
           \/ /\ ref' = [x \in Pbufs |-> IF x = p THEN ref[x] - 1 ELSE ref[x]]
              /\ held' = held
    BY InputCases
  <1>2. /\ ref \in [Pbufs -> 0 .. 1] /\ recv_q \in Seq(Pbufs) /\ Len(recv_q) <= PQ_QUEUE_SIZE
        /\ held \subseteq Pbufs
    BY DEF IInv, TypeOK
  <1>3. /\ Sound(rx_pbufs_storage, hw_head, hw_cnt, ref, X)
        /\ IsInjective(recv_q) /\ Range(recv_q) \cap held = {}
    BY <1>1 DEF IInv, OwnersApart, Queued
  <1>4. /\ p \in Range(recv_q) /\ p \in Pbufs
        /\ Tail(recv_q) \in Seq(Pbufs) /\ Len(Tail(recv_q)) = Len(recv_q) - 1 /\ Len(recv_q) \in Nat
        /\ IsInjective(Tail(recv_q)) /\ Range(Tail(recv_q)) = Range(recv_q) \ {p}
    BY <1>1, <1>2, <1>3, QueueTake
  <1> HIDE DEF p
  <1>5. /\ recv_q' \in Seq(Pbufs) /\ Len(recv_q') <= PQ_QUEUE_SIZE
        /\ IsInjective(recv_q') /\ Range(recv_q') = Range(recv_q) \ {p}
    <2>1. Len(Tail(recv_q)) <= PQ_QUEUE_SIZE
      BY <1>2, <1>4, RxAssumption
    <2> QED  BY <1>1, <1>4, <2>1
  <1>6. CASE ref' = ref /\ held' = held \cup {p}
    <2>1. Range(recv_q') \cup held' = X
      BY <1>4, <1>5, <1>6
    <2>2. Range(recv_q') \cap held' = {}
      BY <1>3, <1>5, <1>6
    <2>3. held' \subseteq Pbufs /\ ref' \in [Pbufs -> 0 .. 1]
      BY <1>2, <1>4, <1>6
    <2>4. Sound(rx_pbufs_storage, hw_head, hw_cnt, ref', Range(recv_q') \cup held')
      BY <1>3, <1>6, <2>1
    <2> QED  BY <1>1, <1>5, <2>2, <2>3, <2>4, RingAlone
  <1>7. CASE /\ ref' = [x \in Pbufs |-> IF x = p THEN ref[x] - 1 ELSE ref[x]]
             /\ held' = held
    <2>1. Range(recv_q') \cup held' = X \ {p}
      BY <1>3, <1>4, <1>5, <1>7
    <2>2. Range(recv_q') \cap held' = {} /\ held' \subseteq Pbufs
      BY <1>2, <1>3, <1>5, <1>7
    <2>3. p \in X
      BY <1>4
    <2> HIDE DEF X
    <2>4. ref' = pbuf_free(ref, {p})
      BY <1>7 DEF pbuf_free
    <2>5. /\ pbuf_free(ref, {p}) \in [Pbufs -> 0 .. 1]
          /\ Sound(rx_pbufs_storage, hw_head, hw_cnt, pbuf_free(ref, {p}), X \ {p})
      BY <1>2, <1>3, <1>4, <2>3, ReleaseSound
    <2>6. /\ ref' \in [Pbufs -> 0 .. 1]
          /\ Sound(rx_pbufs_storage, hw_head, hw_cnt, ref', Range(recv_q') \cup held')
      BY <1>7, <2>1, <2>4, <2>5
    <2> QED  BY <1>1, <1>5, <2>2, <2>6, RingAlone
  <1> QED  BY <1>1, <1>6, <1>7

LEMMA StackFreesStep ==
  ASSUME IInv, StackFrees
  PROVE  IInv'
  <1> DEFINE X == Range(recv_q) \cup held
  <1>1. PICK p \in held : held' = held \ {p} /\ ref' = pbuf_free(ref, {p})
    BY DEF StackFrees
  <1>2. /\ ~corrupt /\ recv_q' = recv_q
        /\ UNCHANGED <<ring, bd_space_index, dma_ready, errors, corrupt, dry, shuffled>>
    BY DEF StackFrees
  <1>3. /\ ref \in [Pbufs -> 0 .. 1] /\ recv_q \in Seq(Pbufs) /\ Len(recv_q) <= PQ_QUEUE_SIZE
        /\ held \subseteq Pbufs /\ p \in Pbufs
    BY DEF IInv, TypeOK
  <1>4. /\ Sound(rx_pbufs_storage, hw_head, hw_cnt, ref, X)
        /\ IsInjective(recv_q) /\ Range(recv_q) \cap held = {}
    BY <1>2 DEF IInv, OwnersApart, Queued
  <1>5. Range(recv_q') \cup held' = X \ {p} /\ p \in X
    BY <1>1, <1>2, <1>4
  <1> HIDE DEF X
  <1>7. /\ pbuf_free(ref, {p}) \in [Pbufs -> 0 .. 1]
        /\ Sound(rx_pbufs_storage, hw_head, hw_cnt, pbuf_free(ref, {p}), X \ {p})
    BY <1>3, <1>4, <1>5, ReleaseSound
  <1>9. /\ ref' \in [Pbufs -> 0 .. 1]
        /\ Sound(rx_pbufs_storage, hw_head, hw_cnt, ref', Range(recv_q') \cup held')
    BY <1>1, <1>5, <1>7
  <1>10. /\ recv_q' \in Seq(Pbufs) /\ Len(recv_q') <= PQ_QUEUE_SIZE /\ held' \subseteq Pbufs
         /\ IsInjective(recv_q') /\ Range(recv_q') \cap held' = {}
    BY <1>1, <1>2, <1>3, <1>4
  <1> QED  BY <1>2, <1>9, <1>10, RingAlone

(***************************************************************************)
(* A reset either finds BDs missing, or all or none with the hardware.     *)
(***************************************************************************)
LEMMA ResetStep ==
  ASSUME IInv, reset_dma
  PROVE  IInv'
  <1>1. /\ ~corrupt /\ bd_space_index > 0
        /\ UNCHANGED <<ref, recv_q, held, bd_space_index, errors, dry>>
        /\ errors \in Nat /\ hw_head \in Bds /\ hw_cnt \in 0 .. N_RX_DESC
    BY DEF reset_dma, IInv, SpaceUsed, TypeOK
  <1>2. CASE BdsMissing /\ corrupt' = TRUE /\ UNCHANGED <<ring, dma_ready, shuffled>>
    <2>1. dry
      <3>1. hw_cnt # N_RX_DESC
        BY <1>2, RxAssumption DEF BdsMissing
      <3> QED  BY <1>1, <3>1 DEF IInv, SafeUntilDry, TypeOK
    <2> QED  BY <1>1, <1>2, <2>1, CorruptNext
  <1>3. CASE /\ ~BdsMissing /\ hw_head' = 0 /\ hw_ptr' = QueuePtr /\ dma_ready' = TRUE
             /\ shuffled' = (shuffled \/ filled # {})
             /\ UNCHANGED <<hw_cnt, filled, rx_pbufs_storage, corrupt>>
    <2>1. hw_cnt = N_RX_DESC \/ (hw_cnt = 0 /\ dma_ready)
      BY <1>1, <1>3, RxAssumption DEF BdsMissing
    <2>2. Span(0, hw_cnt) = Span(hw_head, hw_cnt)
      BY <1>1, <2>1, ZeroBd, SpanWhole
    <2>3. Loaded(rx_pbufs_storage, 0, hw_cnt) = Loaded(rx_pbufs_storage, hw_head, hw_cnt)
      BY <2>2 DEF Loaded
    <2>4. /\ Sound(rx_pbufs_storage, hw_head, hw_cnt, ref, Range(recv_q) \cup held)
          /\ IsInjective(recv_q) /\ Range(recv_q) \cap held = {}
      BY <1>1 DEF IInv, OwnersApart, Queued
    <2>5. Sound(rx_pbufs_storage, 0, hw_cnt, ref, Range(recv_q) \cup held)
      BY <2>2, <2>3, <2>4 DEF Sound
    <2>6. OwnersApart'
      BY <1>1, <1>3, <2>4, <2>5, OwnersNext
    <2>7. TypeOK'
      <3>1. shuffled' \in BOOLEAN
        BY <1>3 DEF IInv, TypeOK
      <3> QED  BY <1>1, <1>3, <3>1, ZeroBd DEF IInv, TypeOK, QueuePtr, Bds
    <2>8. SpaceUsed' /\ SafeUntilDry'
      BY <1>1, <1>3 DEF IInv, SpaceUsed, SafeUntilDry
    <2>9. HwInRing'
      <3>1. \A k \in hw_cnt .. N_RX_DESC - 1 : Bd(0, k) \in filled
        <4>1. CASE hw_cnt = N_RX_DESC
          <5>1. hw_cnt .. N_RX_DESC - 1 = {}
            BY <4>1, RxAssumption
          <5> QED  BY <5>1
        <4>2. CASE hw_cnt = 0 /\ dma_ready
          <5>1. \A k \in 0 .. N_RX_DESC - 1 : Bd(hw_head, k) \in filled
            BY <1>1, <4>2 DEF IInv, HwInRing
          <5>2. \A b \in Bds : b \in filled
            BY <1>1, <5>1, BdOnto
          <5>3. \A k \in 0 .. N_RX_DESC - 1 : Bd(0, k) \in Bds
            <6>1. \A k \in 0 .. N_RX_DESC - 1 : k \in 0 .. N_RX_DESC
              BY RxAssumption
            <6> QED  BY <6>1, ZeroBd, BdType
          <5> QED  BY <4>2, <5>2, <5>3
        <4> QED  BY <2>1, <4>1, <4>2
      <3>2. HwStandsAt(0, hw_head, hw_cnt, hw_ptr, filled)'
        <4>1. Bd(0, 0) = 0 /\ hw_ptr' = 0
          BY <1>3, ZeroBd, BdZero DEF QueuePtr
        <4>2. Ahead(0, 0, hw_cnt, filled)
          BY <1>1 DEF Ahead
        <4>3. ~shuffled' => Clear(0, 0, hw_cnt, filled)
          BY <1>3 DEF Clear
        <4> QED  BY <1>3, <4>1, <4>2, <4>3 DEF HwStandsAt, Ahead, Clear, Bd
      <3> QED  BY <1>3, <3>1, <3>2, ZeroBd DEF HwInRing, Bd
    <2> QED  BY <2>6, <2>7, <2>8, <2>9 DEF IInv
  <1> QED  BY <1>2, <1>3 DEF reset_dma

LEMMA InitIInv == Init => IInv
  <1> SUFFICES ASSUME Init PROVE IInv
    OBVIOUS
  <1> USE DEF Init
  <1>1. recv_q \in Seq(Pbufs) /\ Len(recv_q) = 0 /\ IsInjective(recv_q) /\ Range(recv_q) = {}
    BY DEF IsInjective, Range
  <1>2. TypeOK
    BY <1>1, ZeroBd, RxAssumption DEF TypeOK
  <1>3. SpaceUsed /\ SafeUntilDry
    BY DEF SpaceUsed, SafeUntilDry
  <1>4. Sound(rx_pbufs_storage, 0, 0, ref, Range(recv_q) \cup held)
    BY <1>1, ZeroBd, SoundEmpty
  <1>5. OwnersApart
    BY <1>1, <1>4 DEF OwnersApart, Queued
  <1>6. HwInRing
    BY RxAssumption DEF HwInRing
  <1> QED  BY <1>2, <1>3, <1>5, <1>6 DEF IInv

LEMMA NextIInv == IInv /\ [Next]_vars => IInv'
  <1> SUFFICES ASSUME IInv, [Next]_vars PROVE IInv'
    OBVIOUS
  <1>1. CASE low_level_init
    BY <1>1, LowLevelInitStep
  <1>2. CASE Receive
    BY <1>2, ReceiveStep
  <1>3. CASE emacps_recv_handler
    BY <1>3, HandlerStep
  <1>4. CASE \E kind \in Kinds, keep \in BOOLEAN : xemacpsif_input(kind, keep)
    BY <1>4, InputStep
  <1>5. CASE StackFrees
    BY <1>5, StackFreesStep
  <1>6. CASE HandleEmacPsError
    BY <1>6, ErrorStep
  <1>7. CASE reset_dma
    BY <1>7, ResetStep
  <1>8. CASE UNCHANGED vars
    <2>1. TypeOK'
      BY <1>8 DEF vars, ring, IInv, TypeOK, Bds
    <2>2. SpaceUsed' /\ SafeUntilDry'
      BY <1>8 DEF vars, ring, IInv, SpaceUsed, SafeUntilDry
    <2>3. OwnersApart'
      <3>1. CASE corrupt
        BY <1>8, <3>1 DEF vars, OwnersApart
      <3>2. CASE ~corrupt
        <4>1. /\ Sound(rx_pbufs_storage, hw_head, hw_cnt, ref, Range(recv_q) \cup held)
              /\ IsInjective(recv_q) /\ Range(recv_q) \cap held = {}
          BY <3>2 DEF IInv, OwnersApart, Queued
        <4> QED  BY <1>8, <4>1, OwnersNext DEF vars, ring
      <3> QED  BY <3>1, <3>2
    <2>4. HwInRing'
      BY <1>8 DEF vars, ring, IInv, HwInRing, HwStandsAt, Ahead, Clear, Bd
    <2> QED  BY <2>1, <2>2, <2>3, <2>4 DEF IInv
  <1> QED  BY <1>1, <1>2, <1>3, <1>4, <1>5, <1>6, <1>7, <1>8 DEF Next

(***************************************************************************)
(* Whatever frames, interrupts, errors and resets come in whatever order,  *)
(* the ring, the table, the queue and the reference counts agree: this is  *)
(* the inductive invariant behind the theorems below.                      *)
(***************************************************************************)
THEOREM RxInvariant == Spec => []IInv
  BY InitIInv, NextIInv, PTL DEF Spec

(***************************************************************************)
(* The indices stay on the ring, no reference count leaves 0 .. 1 and      *)
(* recv_q keeps to its capacity.                                           *)
(***************************************************************************)
THEOREM RxTypeCorrect == Spec => []TypeOK
  <1>1. IInv => TypeOK
    BY DEF IInv
  <1> QED  BY <1>1, RxInvariant, PTL

(***************************************************************************)
(* As long as no refill finds the pool empty, setup_rx_bds leaves no BD    *)
(* out and neither an error nor a reset takes ring and table apart.        *)
(***************************************************************************)
THEOREM AlwaysSafeUntilDry == Spec => []SafeUntilDry
  <1>1. IInv => SafeUntilDry
    BY DEF IInv
  <1> QED  BY <1>1, RxInvariant, PTL

-----------------------------------------------------------------------------

(***************************************************************************)
(* A group of c BDs with a pbuf each has c pbufs.                          *)
(***************************************************************************)
LEMMA LoadedCard ==
  ASSUME NEW sto, NEW h \in Bds, NEW c \in 0 .. N_RX_DESC, NEW refs, NEW X,
         Sound(sto, h, c, refs, X)
  PROVE  IsFiniteSet(Loaded(sto, h, c)) /\ Cardinality(Loaded(sto, h, c)) = c
  <1> DEFINE S == Span(h, c)
             f == [b \in S |-> sto[b]]
  <1>1. IsFiniteSet(S) /\ Cardinality(S) = c
    BY SpanCard
  <1>2. f \in [S -> Pbufs] /\ IsInjective(f)
    BY DEF Sound, IsInjective
  <1>3. Range(f) = Loaded(sto, h, c)
    BY DEF Range, Loaded
  <1> HIDE DEF S, f
  <1>4. IsFiniteSet(Range(f)) /\ Cardinality(Range(f)) = Cardinality(S)
    BY <1>1, <1>2, RangeCard
  <1> QED  BY <1>1, <1>3, <1>4

LEMMA QueueCard ==
  ASSUME NEW s \in Seq(Pbufs), IsInjective(s)
  PROVE  /\ Range(s) \subseteq Pbufs /\ IsFiniteSet(Range(s))
         /\ Cardinality(Range(s)) = Len(s) /\ Len(s) \in Nat
  <1> DEFINE m == Len(s)
  <1>1. s \in [1 .. m -> Pbufs] /\ m \in Nat /\ 1 \in Int /\ m \in Int
    OBVIOUS
  <1> HIDE DEF m
  <1>2. IsFiniteSet(1 .. m) /\ Cardinality(1 .. m) = IF 1 > m THEN 0 ELSE m - 1 + 1
    BY <1>1, FS_Interval
  <1>3. Cardinality(1 .. m) = m
    BY <1>1, <1>2
  <1>4. IsFiniteSet(Range(s)) /\ Cardinality(Range(s)) = Cardinality(1 .. m)
    BY <1>1, <1>2, RangeCard
  <1>5. Range(s) \subseteq Pbufs
    BY <1>1 DEF Range
  <1> QED  BY <1>1, <1>3, <1>4, <1>5 DEF m

LEMMA InvOneOwner == IInv => OneOwner
  <1> SUFFICES ASSUME IInv, ~corrupt PROVE OneOwner
    BY DEF OneOwner
  <1> DEFINE L == Loaded(rx_pbufs_storage, hw_head, hw_cnt)
             X == Queued \cup held
  <1>1. InRing = L
    BY DEF InRing, WithHw, Loaded, Span
  <1>2. /\ Sound(rx_pbufs_storage, hw_head, hw_cnt, ref, X) /\ IsInjective(recv_q)
        /\ Queued \cap held = {} /\ hw_head \in Bds /\ hw_cnt \in 0 .. N_RX_DESC
        /\ recv_q \in Seq(Pbufs) /\ held \subseteq Pbufs
    BY DEF IInv, OwnersApart, TypeOK
  <1>3. Cardinality(L) = hw_cnt
    BY <1>2, LoadedCard
  <1>4. Cardinality(Queued) = Len(recv_q) /\ Queued \subseteq Pbufs
    BY <1>2, QueueCard DEF Queued
  <1>5. L \subseteq Pbufs /\ L \cap X = {} /\ \A p \in Pbufs : ref[p] = 0 <=> p \notin L \cup X
    <2>1. L \subseteq Pbufs
      BY <1>2 DEF Sound, Loaded
    <2> QED  BY <1>2, <2>1 DEF Sound
  <1> HIDE DEF L
  <1>6. L \cup Queued \cup held = Pbufs \ Pool(ref)
    BY <1>2, <1>4, <1>5 DEF Pool
  <1> QED  BY <1>1, <1>2, <1>3, <1>4, <1>5, <1>6 DEF OneOwner

(***************************************************************************)
(* Every pbuf has exactly one owner, for any number of BDs and pbufs: the  *)
(* handlers lose none, share none and free none twice, until an error or   *)
(* a reset meets a ring with BDs missing.                                  *)
(***************************************************************************)
THEOREM AlwaysOneOwner == Spec => []OneOwner
  BY InvOneOwner, RxInvariant, PTL

(***************************************************************************)
(* Until a reset finds frames in the ring, emacps_recv_handler takes the   *)
(* frames in the order of their arrival.                                   *)
(***************************************************************************)
THEOREM AlwaysInStep == Spec => []InStep
  <1>1. ASSUME IInv PROVE InStep
    <2> SUFFICES ASSUME ~corrupt, ~shuffled, hw_cnt > 0
                 PROVE  \E n : /\ n = BdRingFromHwRx(filled)
                               /\ filled \cap WithHw = {Bd(hw_head, k) : k \in 0 .. n - 1}
                               /\ hw_ptr = Bd(hw_head, n)
      BY DEF InStep
    <2>0. PICK n : n = BdRingFromHwRx(filled)
      OBVIOUS
    <2>1. /\ n \in 0 .. hw_cnt
          /\ \A k \in 0 .. n - 1 : Bd(hw_head, k) \in filled
          /\ n < hw_cnt => Bd(hw_head, n) \notin filled
      BY <1>1, <2>0, TakeCount DEF IInv
    <2>2. /\ hw_cnt \in Nat /\ n \in Nat /\ n <= hw_cnt /\ N_RX_DESC \in Nat \ {0}
          /\ hw_head \in Bds /\ hw_cnt <= N_RX_DESC
      BY <1>1, <2>1, RxAssumption DEF IInv, TypeOK
    <2>3. Clear(n, hw_head, hw_cnt, filled) /\ hw_ptr = Bd(hw_head, n)
      <3>1. CASE dma_ready
        <4>1. PICK q \in 0 .. N_RX_DESC : HwStandsAt(q, hw_head, hw_cnt, hw_ptr, filled)
          BY <1>1, <3>1 DEF IInv, HwInRing
        <4>2. /\ q <= hw_cnt /\ \A k \in 0 .. q - 1 : Bd(hw_head, k) \in filled
              /\ \A k \in q .. hw_cnt - 1 : Bd(hw_head, k) \notin filled
              /\ hw_ptr = Bd(hw_head, q) /\ q \in Nat
          BY <2>2, <4>1 DEF HwStandsAt, Ahead, Clear
        <4>3. ~(n < q)
          <5> SUFFICES ASSUME n < q PROVE FALSE
            OBVIOUS
          <5>1. n \in 0 .. q - 1 /\ n < hw_cnt
            BY <2>2, <4>2
          <5> QED  BY <2>1, <4>2, <5>1
        <4>4. ~(q < n)
          <5> SUFFICES ASSUME q < n PROVE FALSE
            OBVIOUS
          <5>1. q \in q .. hw_cnt - 1 /\ q \in 0 .. n - 1
            BY <2>2, <4>2
          <5> QED  BY <2>1, <4>2, <5>1
        <4>5. n = q
          BY <2>2, <4>2, <4>3, <4>4
        <4> QED  BY <4>2, <4>5 DEF Clear
      <3>2. CASE ~dma_ready
        <4>1. hw_head = 0 /\ hw_ptr = 0 /\ filled = {}
          BY <1>1, <3>2 DEF IInv, HwInRing
        <4>2. n = 0
          <5> SUFFICES ASSUME n # 0 PROVE FALSE
            OBVIOUS
          <5>1. 0 \in 0 .. n - 1
            BY <2>2
          <5> QED  BY <2>1, <4>1, <5>1
        <4> QED  BY <4>1, <4>2, ZeroBd, BdZero DEF Clear
      <3> QED  BY <3>1, <3>2
    <2>4. \A k \in 0 .. n - 1 : k \in 0 .. hw_cnt - 1
      BY <2>2
    <2>5. \A k \in 0 .. hw_cnt - 1 : k \in 0 .. n - 1 \/ k \in n .. hw_cnt - 1
      BY <2>2
    <2>6. filled \cap WithHw = {Bd(hw_head, k) : k \in 0 .. n - 1}
      BY <2>1, <2>3, <2>4, <2>5 DEF WithHw, Clear
    <2> QED  BY <2>0, <2>3, <2>6
  <1> QED  BY <1>1, RxInvariant, PTL

(***************************************************************************)
(* Also when a reset has left hardware and handler at different BDs, a     *)
(* full ring never has each of them waiting for the other.                 *)
(***************************************************************************)
THEOREM RingNeverWedged == Spec => []NeverWedged
  <1>1. ASSUME IInv PROVE NeverWedged
    <2> SUFFICES ASSUME ~corrupt, hw_cnt = N_RX_DESC, hw_ptr \in filled PROVE hw_head \in filled
      BY DEF NeverWedged
    <2>1. dma_ready
      BY <1>1 DEF IInv, HwInRing
    <2>2. PICK q \in 0 .. N_RX_DESC : HwStandsAt(q, hw_head, hw_cnt, hw_ptr, filled)
      BY <1>1, <2>1 DEF IInv, HwInRing
    <2>3. hw_ptr = Bd(hw_head, q) /\ hw_head = Bd(hw_head, 0)
      BY <1>1, <2>2, BdZero DEF IInv, TypeOK, HwStandsAt
    <2>4. CASE Ahead(q, hw_head, hw_cnt, filled)
      <3>1. q = 0 \/ 0 \in 0 .. q - 1
        BY RxAssumption
      <3> QED  BY <2>3, <2>4, <3>1 DEF Ahead
    <2>5. CASE q < N_RX_DESC /\ Clear(q, hw_head, hw_cnt, filled)
      <3>1. q \in q .. hw_cnt - 1
        BY <2>5, RxAssumption
      <3> QED  BY <2>3, <2>5, <3>1 DEF Clear
    <2> QED  BY <2>2, <2>4, <2>5 DEF HwStandsAt
  <1> QED  BY <1>1, RxInvariant, PTL

(***************************************************************************)
(* Neither an interrupt nor a freed pbuf brings back reception that has    *)
(* lost its last BD: setup_rx_bds runs only from the loop over received    *)
(* BDs and from init_dma.                                                  *)
(***************************************************************************)
THEOREM DeafStaysDeaf == Spec => DeafUntilError
  <1>1. ASSUME IInv, [Next]_vars, bd_space_index > 0, hw_cnt = 0, errors' = errors
        PROVE  hw_cnt' = 0
    <2>1. CASE low_level_init
      BY <1>1, <2>1 DEF low_level_init
    <2>2. CASE Receive
      BY <1>1, <2>2 DEF Receive
    <2>3. CASE emacps_recv_handler
      <3>1. PICK n, frames, room, t : HandlerDoes(n, frames, room, t)
        BY <1>1, <2>3, HandlerRound
      <3> QED  BY <1>1, <3>1 DEF HandlerDoes
    <2>4. CASE \E kind \in Kinds, keep \in BOOLEAN : xemacpsif_input(kind, keep)
      BY <1>1, <2>4 DEF xemacpsif_input, ring
    <2>5. CASE StackFrees
      BY <1>1, <2>5 DEF StackFrees, ring
    <2>6. CASE HandleEmacPsError
      <3>1. errors' = errors + 1 /\ errors \in Nat
        BY <1>1, <2>6 DEF HandleEmacPsError, IInv, SpaceUsed
      <3> QED  BY <1>1, <3>1
    <2>7. CASE reset_dma
      BY <1>1, <2>7 DEF reset_dma, ring
    <2>8. CASE UNCHANGED vars
      BY <1>1, <2>8 DEF vars, ring
    <2> QED  BY <1>1, <2>1, <2>2, <2>3, <2>4, <2>5, <2>6, <2>7, <2>8 DEF Next
  <1>2. IInv /\ [Next]_vars =>
          [bd_space_index > 0 /\ hw_cnt = 0 /\ errors' = errors => hw_cnt' = 0]_vars
    BY <1>1
  <1> QED  BY <1>2, RxInvariant, PTL DEF Spec, DeafUntilError

(***************************************************************************)
(* With the pool empty, the ring, the queue and the stack have them all.   *)
(***************************************************************************)
LEMMA PoolEmptyCount ==
  ASSUME NEW sto, NEW h \in Bds, NEW c \in 0 .. N_RX_DESC, c < N_RX_DESC, NEW refs,
         NEW q \in Seq(Pbufs), IsInjective(q), NEW H, H \subseteq Pbufs,
         Sound(sto, h, c, refs, Range(q) \cup H), Pool(refs) = {}
  PROVE  Cardinality(Pbufs) < N_RX_DESC + Len(q) + Cardinality(H)
  <1> DEFINE L == Loaded(sto, h, c)
             Q == Range(q)
  <1>1. IsFiniteSet(L) /\ Cardinality(L) = c
    BY LoadedCard
  <1>2. IsFiniteSet(Q) /\ Cardinality(Q) = Len(q) /\ Len(q) \in Nat /\ Q \subseteq Pbufs
    BY QueueCard
  <1>3. IsFiniteSet(H)
    BY RxAssumption, FS_Subset
  <1>4. L \subseteq Pbufs /\ \A p \in Pbufs : refs[p] = 0 <=> p \notin L \cup (Q \cup H)
    <2>1. L \subseteq Pbufs
      BY DEF Sound, Loaded
    <2> QED  BY <2>1 DEF Sound
  <1> HIDE DEF L, Q
  <1>5. Pbufs = L \cup (Q \cup H)
    BY <1>2, <1>4 DEF Pool
  <1>6. /\ IsFiniteSet(Q \cup H)
        /\ Cardinality(Q \cup H) = Cardinality(Q) + Cardinality(H) - Cardinality(Q \cap H)
    BY <1>2, <1>3, FS_Union
  <1>7. Cardinality(L \cup (Q \cup H)) =
          Cardinality(L) + Cardinality(Q \cup H) - Cardinality(L \cap (Q \cup H))
    BY <1>1, <1>6, FS_Union
  <1>8. Cardinality(H) \in Nat /\ Cardinality(Q \cap H) \in Nat
        /\ Cardinality(L \cap (Q \cup H)) \in Nat
    <2>1. IsFiniteSet(Q \cap H) /\ IsFiniteSet(L \cap (Q \cup H))
      BY <1>1, <1>2, FS_Intersection
    <2> QED  BY <1>3, <2>1, FS_CardinalityType
  <1> QED  BY <1>1, <1>2, <1>5, <1>6, <1>7, <1>8, RxAssumption

(***************************************************************************)
(* A refill finds the pool empty only when there are fewer pbufs than the  *)
(* ring, the queue and the stack ask for: nothing leaks on the way.        *)
(***************************************************************************)
THEOREM DryOnlyWhenTooFew == Spec => DryOnlyWhenShort
  <1>1. ASSUME IInv, [Next]_vars, dry', ~dry
        PROVE  Cardinality(Pbufs) < N_RX_DESC + Len(recv_q') + Cardinality(held')
    <2>0. held \subseteq Pbufs /\ recv_q \in Seq(Pbufs)
      BY <1>1 DEF IInv, TypeOK
    <2>1. ASSUME hw_head' \in Bds, hw_cnt' \in 0 .. N_RX_DESC, hw_cnt' < N_RX_DESC,
                 recv_q' \in Seq(Pbufs), IsInjective(recv_q'), held' \subseteq Pbufs,
                 Sound(rx_pbufs_storage', hw_head', hw_cnt', ref', Range(recv_q') \cup held'),
                 Pool(ref') = {}
          PROVE  Cardinality(Pbufs) < N_RX_DESC + Len(recv_q') + Cardinality(held')
      BY <2>1, PoolEmptyCount
    <2>2. ASSUME NEW refs \in [Pbufs -> 0 .. 1], ~corrupt,
                 \A p \in Pbufs : refs[p] = 0 <=> p \notin Range(recv_q) \cup held,
                 init_dma(refs), UNCHANGED <<recv_q, held, corrupt>>, errors' \in Nat
          PROVE  Cardinality(Pbufs) < N_RX_DESC + Len(recv_q') + Cardinality(held')
      <3>1. /\ Sound(rx_pbufs_storage', hw_head', hw_cnt', ref', Range(recv_q) \cup held)
            /\ hw_head' = 0 /\ hw_cnt' \in 0 .. N_RX_DESC
            /\ dry' = (dry \/ hw_cnt' < N_RX_DESC)
            /\ hw_cnt' < N_RX_DESC => Pool(ref') = {}
        BY <1>1, <2>2, InitDmaStep
      <3>2. hw_cnt' < N_RX_DESC
        BY <1>1, <3>1
      <3>3. recv_q' = recv_q /\ held' = held /\ IsInjective(recv_q)
        BY <1>1, <2>2 DEF IInv, OwnersApart
      <3> QED  BY <2>0, <2>1, <3>1, <3>2, <3>3, ZeroBd
    <2>3. CASE low_level_init
      <3>1. /\ ~corrupt /\ ref \in [Pbufs -> 0 .. 1]
            /\ \A p \in Pbufs : ref[p] = 0 <=> p \notin Range(recv_q) \cup held
            /\ init_dma(ref) /\ UNCHANGED <<recv_q, held, corrupt>> /\ errors' \in Nat
        BY <1>1, <2>3, LowLevelInitStep
      <3> QED  BY <2>2, <3>1
    <2>4. CASE emacps_recv_handler
      <3>1. PICK n, frames, room, t : HandlerDoes(n, frames, room, t)
        BY <1>1, <2>4, HandlerRound
      <3>2. /\ hw_head' \in Bds /\ hw_cnt' \in 0 .. N_RX_DESC
            /\ recv_q' \in Seq(Pbufs) /\ IsInjective(recv_q')
            /\ Sound(rx_pbufs_storage', hw_head', hw_cnt', ref', Range(recv_q') \cup held')
            /\ dry' = (dry \/ hw_cnt' < N_RX_DESC)
            /\ hw_cnt' < N_RX_DESC => Pool(ref') = {}
        BY <1>1, <3>1, HandlerRefill
      <3>3. hw_cnt' < N_RX_DESC
        BY <1>1, <3>2
      <3>4. held' \subseteq Pbufs
        BY <2>0, <3>1 DEF HandlerDoes
      <3> QED  BY <2>1, <3>2, <3>3, <3>4
    <2>5. CASE HandleEmacPsError
      <3> DEFINE refs == free_txrx_pbufs
      <3>1. /\ ~corrupt /\ errors' \in Nat /\ UNCHANGED <<recv_q, held>>
            /\ refs \in [Pbufs -> 0 .. 1] /\ init_dma(refs)
            /\ \/ /\ UNCHANGED corrupt
                  /\ \A p \in Pbufs : refs[p] = 0 <=> p \notin Range(recv_q) \cup held
               \/ dry
        BY <1>1, <2>5, ErrorCases
      <3> HIDE DEF refs
      <3> QED  BY <1>1, <2>2, <3>1
    <2>6. UNCHANGED dry \/ low_level_init \/ emacps_recv_handler \/ HandleEmacPsError
      BY <1>1 DEF Next, Receive, xemacpsif_input, StackFrees, reset_dma, vars
    <2> QED  BY <1>1, <2>3, <2>4, <2>5, <2>6
  <1>2. IInv /\ [Next]_vars =>
          [dry' /\ ~dry => Cardinality(Pbufs) < N_RX_DESC + Len(recv_q') + Cardinality(held')]_vars
    BY <1>1
  <1> QED  BY <1>2, RxInvariant, PTL DEF Spec, DryOnlyWhenShort

-----------------------------------------------------------------------------

(***************************************************************************)
(* The refinement of PbufLife: the place of each pbuf, as a function of    *)
(* the state, so that it can be compared before and after a step.          *)
(***************************************************************************)
PlaceOf(p, sto, h, c, refs, new, Q, H) ==
  CASE refs[p] = 0 -> "pool"
    [] refs[p] # 0 /\ p \in Loaded(sto, h, c) ->
         IF \E b \in Span(h, c) \ new : sto[b] = p THEN "armed" ELSE "filled"
    [] refs[p] # 0 /\ p \notin Loaded(sto, h, c) /\ p \in Q -> "queue"
    [] OTHER -> "stack"

LEMMA OwnerIs ==
  /\ Owner = [p \in Pbufs |-> PlaceOf(p, rx_pbufs_storage, hw_head, hw_cnt, ref, filled,
                                      Range(recv_q), held)]
  /\ Owner' = [p \in Pbufs |-> PlaceOf(p, rx_pbufs_storage', hw_head', hw_cnt', ref', filled',
                                       Range(recv_q'), held')]
  BY DEF Owner, Place, PlaceOf, Loaded, Span, InRing, WithHw, Queued, Bd, Range

LEMMA PlaceCases ==
  ASSUME NEW sto, NEW h, NEW c, NEW refs, NEW new, NEW Q, NEW H, Q \subseteq Pbufs, H \subseteq Pbufs,
         Sound(sto, h, c, refs, Q \cup H), Q \cap H = {}
  PROVE  /\ \A p \in H : PlaceOf(p, sto, h, c, refs, new, Q, H) = "stack"
         /\ \A p \in Q : PlaceOf(p, sto, h, c, refs, new, Q, H) = "queue"
         /\ \A b \in Span(h, c) \ new : PlaceOf(sto[b], sto, h, c, refs, new, Q, H) = "armed"
         /\ \A b \in Span(h, c) \cap new : PlaceOf(sto[b], sto, h, c, refs, new, Q, H) = "filled"
         /\ \A p \in Pbufs : p \notin Loaded(sto, h, c) \cup (Q \cup H) =>
                     PlaceOf(p, sto, h, c, refs, new, Q, H) = "pool"
         /\ \A p \in Pbufs : PlaceOf(p, sto, h, c, refs, new, Q, H) \in
                     {"pool", "armed", "filled", "queue", "stack"}
  <1> DEFINE L == Loaded(sto, h, c)
  <1>1. /\ L \cap (Q \cup H) = {} /\ L \subseteq Pbufs
        /\ \A p \in Pbufs : refs[p] = 0 <=> p \notin L \cup (Q \cup H)
        /\ \A a, b \in Span(h, c) : sto[a] = sto[b] => a = b
        /\ \A b \in Span(h, c) : sto[b] \in L
    BY DEF Sound, Loaded
  <1> HIDE DEF L
  <1>2. \A p \in H : PlaceOf(p, sto, h, c, refs, new, Q, H) = "stack"
    <2>1. \A p \in H : refs[p] # 0 /\ p \notin L /\ p \notin Q
      BY <1>1
    <2> QED  BY <2>1 DEF PlaceOf, L
  <1>3. \A p \in Q : PlaceOf(p, sto, h, c, refs, new, Q, H) = "queue"
    <2>1. \A p \in Q : refs[p] # 0 /\ p \notin L
      BY <1>1
    <2> QED  BY <2>1 DEF PlaceOf, L
  <1>4. \A b \in Span(h, c) : refs[sto[b]] # 0 /\ sto[b] \in L
    BY <1>1
  <1>5. ASSUME NEW b \in Span(h, c) \ new
        PROVE  PlaceOf(sto[b], sto, h, c, refs, new, Q, H) = "armed"
    BY <1>4 DEF PlaceOf, L
  <1>6. ASSUME NEW b \in Span(h, c) \cap new
        PROVE  PlaceOf(sto[b], sto, h, c, refs, new, Q, H) = "filled"
    <2>1. ~ \E a \in Span(h, c) \ new : sto[a] = sto[b]
      BY <1>1
    <2> QED  BY <1>4, <2>1 DEF PlaceOf, L
  <1>7. ASSUME NEW p \in Pbufs, p \notin L \cup (Q \cup H)
        PROVE  PlaceOf(p, sto, h, c, refs, new, Q, H) = "pool"
    BY <1>1, <1>7 DEF PlaceOf
  <1>8. ASSUME NEW p \in Pbufs
        PROVE  PlaceOf(p, sto, h, c, refs, new, Q, H) \in {"pool", "armed", "filled", "queue", "stack"}
    <2>1. CASE p \in L
      <3>1. PICK b \in Span(h, c) : p = sto[b]
        BY <2>1 DEF L, Loaded
      <3> QED  BY <1>5, <1>6, <3>1
    <2>2. CASE p \notin L
      BY <1>2, <1>3, <1>7, <2>2
    <2> QED  BY <2>1, <2>2
  <1> QED  BY <1>2, <1>3, <1>5, <1>6, <1>7, <1>8 DEF L

OwnerFits(o, sto, h, c, new, Q, H) ==
  /\ o \in [Pbufs -> {"pool", "armed", "filled", "queue", "stack"}]
  /\ \A p \in H : p \in Pbufs /\ o[p] = "stack"
  /\ \A p \in Q : p \in Pbufs /\ o[p] = "queue"
  /\ \A b \in Span(h, c) : /\ sto[b] \in Pbufs
                           /\ b \in new => o[sto[b]] = "filled"
                           /\ b \notin new => o[sto[b]] = "armed"
  /\ \A p \in Pbufs : p \notin Loaded(sto, h, c) \cup (Q \cup H) => o[p] = "pool"

LEMMA PlacesFit ==
  ASSUME NEW sto, NEW h, NEW c, NEW refs, NEW new, NEW Q, NEW H, Q \subseteq Pbufs, H \subseteq Pbufs,
         Sound(sto, h, c, refs, Q \cup H), Q \cap H = {},
         NEW o, o = [p \in Pbufs |-> PlaceOf(p, sto, h, c, refs, new, Q, H)]
  PROVE  OwnerFits(o, sto, h, c, new, Q, H)
  <1>1. \A p \in Pbufs : o[p] = PlaceOf(p, sto, h, c, refs, new, Q, H)
    OBVIOUS
  <1>2. /\ \A p \in H : PlaceOf(p, sto, h, c, refs, new, Q, H) = "stack"
        /\ \A p \in Q : PlaceOf(p, sto, h, c, refs, new, Q, H) = "queue"
        /\ \A b \in Span(h, c) \ new : PlaceOf(sto[b], sto, h, c, refs, new, Q, H) = "armed"
        /\ \A b \in Span(h, c) \cap new : PlaceOf(sto[b], sto, h, c, refs, new, Q, H) = "filled"
        /\ \A p \in Pbufs : p \notin Loaded(sto, h, c) \cup (Q \cup H) =>
                    PlaceOf(p, sto, h, c, refs, new, Q, H) = "pool"
        /\ \A p \in Pbufs : PlaceOf(p, sto, h, c, refs, new, Q, H) \in
                    {"pool", "armed", "filled", "queue", "stack"}
    BY PlaceCases
  <1>3. o \in [Pbufs -> {"pool", "armed", "filled", "queue", "stack"}]
    BY <1>2
  <1>4. \A b \in Span(h, c) : sto[b] \in Pbufs
    BY DEF Sound
  <1> QED  BY <1>1, <1>2, <1>3, <1>4 DEF OwnerFits

LEMMA FitsNow ==
  ASSUME IInv, ~corrupt
  PROVE  OwnerFits(Owner, rx_pbufs_storage, hw_head, hw_cnt, filled, Range(recv_q), held)
  <1>1. /\ Sound(rx_pbufs_storage, hw_head, hw_cnt, ref, Range(recv_q) \cup held)
        /\ Range(recv_q) \cap held = {} /\ held \subseteq Pbufs /\ recv_q \in Seq(Pbufs)
    BY DEF IInv, OwnersApart, Queued, TypeOK
  <1>2. Range(recv_q) \subseteq Pbufs
    BY <1>1 DEF Range
  <1> QED  BY <1>1, <1>2, OwnerIs, PlacesFit

LEMMA FitsNext ==
  ASSUME IInv', ~corrupt'
  PROVE  OwnerFits(Owner', rx_pbufs_storage', hw_head', hw_cnt', filled', Range(recv_q'), held')
  <1>1. /\ Sound(rx_pbufs_storage', hw_head', hw_cnt', ref', Range(recv_q') \cup held')
        /\ Range(recv_q') \cap held' = {}
    <2>1. OwnersApart'
      BY DEF IInv
    <2> QED  BY <2>1 DEF OwnersApart, Sound, Loaded, Span, Bd, Queued, Range
  <1>2. held' \subseteq Pbufs /\ recv_q' \in Seq(Pbufs)
    BY DEF IInv, TypeOK
  <1>3. Range(recv_q') \subseteq Pbufs
    BY <1>2 DEF Range
  <1> QED  BY <1>1, <1>2, <1>3, OwnerIs, PlacesFit

(***************************************************************************)
(* One pbuf goes from one place to another.                                *)
(***************************************************************************)
LEMMA LifeOne ==
  ASSUME NEW p \in Pbufs, NEW from, NEW to, Owner[p] = from,
         \A x \in Pbufs : Owner'[x] = IF x = p THEN to ELSE Owner[x]
  PROVE  Life!MovesOne(from, to)
  <1>1. PICK o : o = Owner
    OBVIOUS
  <1>2. PICK o2 : o2 = Owner'
    OBVIOUS
  <1>3. o = [x \in Pbufs |-> o[x]] /\ o2 = [x \in Pbufs |-> o2[x]]
    BY <1>1, <1>2, OwnerIs
  <1>4. o2 = [o EXCEPT ![p] = to]
    BY <1>1, <1>2, <1>3
  <1>5. Owner' = [Owner EXCEPT ![p] = to]
    BY <1>1, <1>2, <1>4
  <1> QED  BY <1>5 DEF Life!MovesOne, Owner

LEMMA LifeMoves ==
  ASSUME NEW allowed, Owner' \in [Pbufs -> {"pool", "armed", "filled", "queue", "stack"}],
         \A p \in Pbufs : Owner'[p] # Owner[p] => <<Owner[p], Owner'[p]>> \in allowed
  PROVE  Life!Moves(allowed)
  BY DEF Life!Moves, Life!Places, Owner

LEMMA ReceiveLife ==
  ASSUME IInv, IInv', Receive
  PROVE  Life!Next
  <1> DEFINE S == Span(hw_head, hw_cnt)
             L == Loaded(rx_pbufs_storage, hw_head, hw_cnt)
             sto == rx_pbufs_storage
             Q == Range(recv_q)
             p == sto[hw_ptr]
  <1>1. /\ ~corrupt /\ dma_ready /\ hw_ptr \notin filled /\ filled' = filled \cup {hw_ptr}
        /\ hw_head' = hw_head /\ hw_cnt' = hw_cnt /\ sto' = sto /\ recv_q' = recv_q /\ held' = held
        /\ ~corrupt'
    BY DEF Receive
  <1>2. hw_ptr \in S
    <2>1. PICK q \in 0 .. N_RX_DESC : HwStandsAt(q, hw_head, hw_cnt, hw_ptr, filled)
      BY <1>1 DEF IInv, HwInRing
    <2>2. \A k \in hw_cnt .. N_RX_DESC - 1 : Bd(hw_head, k) \in filled
      BY <1>1 DEF IInv, HwInRing
    <2>3. hw_head \in Bds /\ hw_cnt \in 0 .. N_RX_DESC
      BY DEF IInv, TypeOK
    <2>4. q < hw_cnt
      BY <1>1, <2>1, <2>2, <2>3, ReceivePlaces
    <2>5. q \in 0 .. hw_cnt - 1
      BY <2>3, <2>4
    <2> QED  BY <2>1, <2>5 DEF HwStandsAt, Span
  <1>3. OwnerFits(Owner, sto, hw_head, hw_cnt, filled, Q, held)
    BY <1>1, FitsNow
  <1>4. OwnerFits(Owner', sto, hw_head, hw_cnt, filled', Q, held)
    <2>1. OwnerFits(Owner', sto', hw_head', hw_cnt', filled', Range(recv_q'), held')
      BY <1>1, FitsNext
    <2> QED  BY <1>1, <2>1
  <1>5. p \in Pbufs /\ Owner[p] = "armed" /\ Owner'[p] = "filled"
    BY <1>1, <1>2, <1>3, <1>4 DEF OwnerFits
  <1>6. ASSUME NEW x \in Pbufs, x # p PROVE Owner'[x] = Owner[x]
    <2>1. CASE x \in Q \cup held
      BY <1>3, <1>4, <2>1 DEF OwnerFits
    <2>2. CASE x \in L
      <3>1. PICK b \in S : x = sto[b]
        BY <2>2 DEF Loaded
      <3>2. b \in filled' <=> b \in filled
        BY <1>1, <1>6, <3>1
      <3> QED  BY <1>3, <1>4, <3>1, <3>2 DEF OwnerFits
    <2>3. CASE x \notin L \cup (Q \cup held)
      BY <1>3, <1>4, <2>3 DEF OwnerFits
    <2> QED  BY <2>1, <2>2, <2>3
  <1>7. Life!MovesOne("armed", "filled")
    <2> HIDE DEF p
    <2> QED  BY <1>5, <1>6, LifeOne
  <1> QED  BY <1>7 DEF Life!Next, Life!Arrive

LEMMA HandlerLife ==
  ASSUME IInv, IInv', emacps_recv_handler
  PROVE  Life!Next
  <1> DEFINE sto == rx_pbufs_storage
             Q == Range(recv_q)
             L == Loaded(sto, hw_head, hw_cnt)
  <1>1. PICK n, frames, room, t : HandlerDoes(n, frames, room, t)
    BY HandlerRound
  <1>2. /\ n \in 0 .. hw_cnt /\ n > 0 /\ ~corrupt /\ ~corrupt' /\ held' = held
        /\ hw_head \in Bds /\ hw_cnt \in 0 .. N_RX_DESC
        /\ \A k \in 0 .. n - 1 : Bd(hw_head, k) \in filled
    BY <1>1 DEF HandlerDoes, IInv, TypeOK
  <1>3. PICK d : d = hw_cnt'
    OBVIOUS
  <1>4. PICK g : g = hw_head'
    OBVIOUS
  <1>5. PICK Q2 : Q2 = Range(recv_q')
    OBVIOUS
  <1>6. /\ g = Bd(hw_head, n) /\ g \in Bds /\ d \in 0 .. N_RX_DESC /\ hw_cnt - n <= d
        /\ Q2 = Q \cup Range(t) /\ Range(t) \subseteq Loaded(sto, hw_head, n)
        /\ \A k \in 0 .. hw_cnt - n - 1 : sto'[Bd(g, k)] = sto[Bd(g, k)]
        /\ \A k \in 0 .. N_RX_DESC - 1 :
             Bd(g, k) \in filled' <=> Bd(g, k) \in filled /\ ~(hw_cnt - n <= k /\ k < d)
    BY <1>1, <1>3, <1>4, <1>5, HandlerRefill
  <1> DEFINE Kept == Span(g, hw_cnt - n)
             Taken == Span(hw_head, n)
  <1>7. /\ N_RX_DESC \in Nat /\ hw_cnt \in Nat /\ n \in Nat /\ n <= hw_cnt /\ hw_cnt <= N_RX_DESC
        /\ hw_cnt - n \in Nat /\ n + (hw_cnt - n) = hw_cnt /\ n + (hw_cnt - n) <= N_RX_DESC
        /\ d \in Nat /\ d <= N_RX_DESC /\ hw_cnt - n \in 0 .. N_RX_DESC
    BY <1>2, <1>6, RxAssumption
  <1>8. Span(hw_head, hw_cnt) = Taken \cup Kept /\ Taken \cap Kept = {}
    BY <1>2, <1>6, <1>7, SpanJoin, SpansDisjoint
  <1>9. ASSUME NEW b \in Kept
        PROVE  b \in Span(g, d) /\ sto'[b] = sto[b] /\ (b \in filled' <=> b \in filled)
    <2>1. PICK k \in 0 .. N_RX_DESC - 1 : k < hw_cnt - n /\ k \in 0 .. hw_cnt - n - 1 /\ b = Bd(g, k)
      BY <1>6, <1>7, SpanPlace
    <2>2. k \in 0 .. d - 1 /\ ~(hw_cnt - n <= k)
      BY <1>6, <1>7, <2>1
    <2> QED  BY <1>6, <2>1, <2>2 DEF Span
  <1>10. ASSUME NEW b \in Span(g, d) PROVE b \in Kept \/ b \notin filled'
    <2>1. PICK k \in 0 .. N_RX_DESC - 1 : k < d /\ b = Bd(g, k)
      BY <1>6, SpanPlace
    <2>2. CASE k < hw_cnt - n
      <3>1. k \in 0 .. (hw_cnt - n) - 1
        BY <1>7, <2>2
      <3> QED  BY <2>1, <3>1 DEF Span
    <2>3. CASE ~(k < hw_cnt - n)
      <3>1. hw_cnt - n <= k
        BY <1>7, <2>3
      <3> QED  BY <1>6, <2>1, <3>1
    <2> QED  BY <2>2, <2>3
  <1>11. \A b \in Taken : b \in filled
    BY <1>2 DEF Span
  <1>12. OwnerFits(Owner, sto, hw_head, hw_cnt, filled, Q, held)
    BY <1>2, FitsNow
  <1>13. OwnerFits(Owner', sto', g, d, filled', Q2, held)
    <2>1. OwnerFits(Owner', sto', hw_head', hw_cnt', filled', Range(recv_q'), held')
      BY <1>2, FitsNext
    <2> QED  BY <1>2, <1>3, <1>4, <1>5, <2>1
  <1>14. /\ \A a, b \in Span(hw_head, hw_cnt) : sto[a] = sto[b] => a = b
         /\ L \cap (Q \cup held) = {}
    BY <1>2 DEF IInv, OwnersApart, Sound, Queued
  <1>15. ASSUME NEW x \in Pbufs, x \notin Q2 \cup held, \A b \in Kept : x # sto[b]
         PROVE  Owner'[x] = "pool" \/ Owner'[x] = "armed"
    <2>1. CASE x \in Loaded(sto', g, d)
      <3>1. PICK b \in Span(g, d) : x = sto'[b]
        BY <2>1 DEF Loaded
      <3>2. b \notin Kept
        BY <1>9, <1>15, <3>1
      <3>3. b \notin filled'
        BY <1>10, <3>2
      <3> QED  BY <1>13, <3>1, <3>3 DEF OwnerFits
    <2>2. CASE x \notin Loaded(sto', g, d)
      BY <1>13, <1>15, <2>2 DEF OwnerFits
    <2> QED  BY <2>1, <2>2
  <1>16. ASSUME NEW b \in Taken
         PROVE  /\ sto[b] \in Pbufs /\ Owner[sto[b]] = "filled"
                /\ Owner'[sto[b]] \in {"pool", "armed", "queue"}
    <2>1. b \in Span(hw_head, hw_cnt) /\ b \notin Kept /\ b \in filled
      BY <1>8, <1>11
    <2>2. sto[b] \in Pbufs /\ Owner[sto[b]] = "filled"
      BY <1>12, <2>1 DEF OwnerFits
    <2>3. \A a \in Kept : sto[b] # sto[a]
      BY <1>8, <1>14, <2>1
    <2>4. sto[b] \notin held
      BY <1>14, <2>1 DEF Loaded
    <2>5. CASE sto[b] \in Q2
      BY <1>13, <2>2, <2>5 DEF OwnerFits
    <2>6. CASE sto[b] \notin Q2
      BY <1>15, <2>2, <2>3, <2>4, <2>6
    <2> QED  BY <2>2, <2>5, <2>6
  <1> DEFINE allowed == {<<"filled", "queue">>, <<"filled", "pool">>, <<"filled", "armed">>,
                         <<"pool", "armed">>}
  <1>17. ASSUME NEW x \in Pbufs, Owner'[x] # Owner[x]
         PROVE  <<Owner[x], Owner'[x]>> \in allowed
    <2>1. CASE x \in Q \cup held
      <3>1. x \in Q2 \cup held /\ (x \in Q => x \in Q2)
        BY <1>6, <2>1
      <3> QED  BY <1>12, <1>13, <1>17, <2>1, <3>1 DEF OwnerFits
    <2>2. CASE \E b \in Kept : x = sto[b]
      <3>1. PICK b \in Kept : x = sto[b]
        BY <2>2
      <3>2. b \in Span(hw_head, hw_cnt) /\ b \in Span(g, d) /\ sto'[b] = x
            /\ (b \in filled' <=> b \in filled)
        BY <1>8, <1>9, <3>1
      <3> QED  BY <1>12, <1>13, <1>17, <3>1, <3>2 DEF OwnerFits
    <2>3. CASE \E b \in Taken : x = sto[b]
      BY <1>16, <2>3
    <2>4. CASE x \notin L \cup (Q \cup held)
      <3>1. Owner[x] = "pool"
        BY <1>12, <2>4 DEF OwnerFits
      <3>2. \A b \in Kept \cup Taken : x # sto[b]
        BY <1>8, <2>4 DEF Loaded
      <3>3. x \notin Range(t)
        BY <1>6, <3>2 DEF Loaded
      <3>4. x \notin Q2 \cup held
        BY <1>6, <2>4, <3>3
      <3>5. Owner'[x] = "pool" \/ Owner'[x] = "armed"
        BY <1>15, <3>2, <3>4
      <3> QED  BY <1>17, <3>1, <3>5
    <2> QED  BY <1>8, <2>1, <2>2, <2>3, <2>4 DEF Loaded
  <1>18. Owner' \in [Pbufs -> {"pool", "armed", "filled", "queue", "stack"}]
    BY <1>13 DEF OwnerFits
  <1>19. Life!Moves(allowed)
    <2> HIDE DEF allowed
    <2> QED  BY <1>17, <1>18, LifeMoves
  <1>20. PICK p \in Pbufs : Owner[p] = "filled" /\ Owner'[p] # "filled"
    <2>1. 0 \in 0 .. n - 1
      BY <1>2, <1>7
    <2>2. Bd(hw_head, 0) \in Taken
      BY <2>1 DEF Span
    <2>3. "filled" \notin {"pool", "armed", "queue"}
      OBVIOUS
    <2> QED  BY <1>16, <2>2, <2>3
  <1>21. Life!Collect
    BY <1>19, <1>20 DEF Life!Collect, Owner
  <1> QED  BY <1>21 DEF Life!Next

LEMMA InputLife ==
  ASSUME IInv, IInv', NEW kind \in Kinds, NEW keep \in BOOLEAN, xemacpsif_input(kind, keep)
  PROVE  Life!Next
  <1> DEFINE p == Head(recv_q)
             sto == rx_pbufs_storage
             Q == Range(recv_q)
             L == Loaded(sto, hw_head, hw_cnt)
  <1>1. /\ ~corrupt /\ recv_q # <<>> /\ recv_q' = Tail(recv_q)
        /\ UNCHANGED <<ring, bd_space_index, dma_ready, errors, corrupt, dry, shuffled>>
        /\ held' = held \cup {p} \/ held' = held
    BY InputCases
  <1>2. /\ recv_q \in Seq(Pbufs) /\ IsInjective(recv_q) /\ Q \cap held = {} /\ L \cap Q = {}
    BY <1>1 DEF IInv, OwnersApart, Queued, TypeOK, Sound
  <1>3. p \in Q /\ p \in Pbufs /\ Range(Tail(recv_q)) = Q \ {p}
    BY <1>1, <1>2, QueueTake
  <1>4. PICK H2 : H2 = held'
    OBVIOUS
  <1>5. OwnerFits(Owner, sto, hw_head, hw_cnt, filled, Q, held)
    BY <1>1, FitsNow
  <1>6. OwnerFits(Owner', sto, hw_head, hw_cnt, filled, Q \ {p}, H2)
    <2>1. OwnerFits(Owner', sto', hw_head', hw_cnt', filled', Range(recv_q'), held')
      BY <1>1, FitsNext
    <2>2. /\ sto' = sto /\ hw_head' = hw_head /\ hw_cnt' = hw_cnt /\ filled' = filled
          /\ Range(recv_q') = Q \ {p}
      BY <1>1, <1>3 DEF ring
    <2> QED  BY <1>4, <2>1, <2>2
  <1> HIDE DEF p
  <1>7. Owner[p] = "queue"
    BY <1>3, <1>5 DEF OwnerFits
  <1>8. ASSUME NEW x \in Pbufs, x # p PROVE Owner'[x] = Owner[x]
    <2>0. (x \in H2 <=> x \in held) /\ (x \in Q <=> x \in Q \ {p})
      BY <1>1, <1>4, <1>8
    <2>1. CASE x \in Q \cup held
      BY <1>5, <1>6, <2>0, <2>1 DEF OwnerFits
    <2>2. CASE x \in L
      <3>1. PICK b \in Span(hw_head, hw_cnt) : x = sto[b]
        BY <2>2 DEF Loaded
      <3> QED  BY <1>5, <1>6, <3>1 DEF OwnerFits
    <2>3. CASE x \notin L \cup (Q \cup held)
      BY <1>5, <1>6, <2>0, <2>3 DEF OwnerFits
    <2> QED  BY <2>1, <2>2, <2>3
  <1>9. CASE held' = held \cup {p}
    <2>1. Owner'[p] = "stack"
      BY <1>4, <1>6, <1>9 DEF OwnerFits
    <2>2. Life!MovesOne("queue", "stack")
      BY <1>3, <1>7, <1>8, <2>1, LifeOne
    <2> QED  BY <2>2 DEF Life!Next, Life!Deliver
  <1>10. CASE held' = held
    <2>1. p \notin L \cup ((Q \ {p}) \cup H2)
      BY <1>2, <1>3, <1>4, <1>10
    <2>2. Owner'[p] = "pool"
      BY <1>3, <1>6, <2>1 DEF OwnerFits
    <2>3. Life!MovesOne("queue", "pool")
      BY <1>3, <1>7, <1>8, <2>2, LifeOne
    <2> QED  BY <2>3 DEF Life!Next, Life!Deliver
  <1> QED  BY <1>1, <1>9, <1>10

LEMMA StackFreesLife ==
  ASSUME IInv, IInv', StackFrees
  PROVE  Life!Next
  <1> DEFINE sto == rx_pbufs_storage
             Q == Range(recv_q)
             L == Loaded(sto, hw_head, hw_cnt)
  <1>1. PICK p \in held : held' = held \ {p}
    BY DEF StackFrees
  <1>2. /\ ~corrupt /\ ~corrupt' /\ recv_q' = recv_q /\ sto' = sto /\ hw_head' = hw_head
        /\ hw_cnt' = hw_cnt /\ filled' = filled
    BY DEF StackFrees, ring
  <1>3. p \in Pbufs /\ p \notin Q /\ p \notin L
    BY <1>2 DEF IInv, TypeOK, OwnersApart, Queued, Sound
  <1>4. OwnerFits(Owner, sto, hw_head, hw_cnt, filled, Q, held)
    BY <1>2, FitsNow
  <1>5. OwnerFits(Owner', sto, hw_head, hw_cnt, filled, Q, held \ {p})
    <2>1. OwnerFits(Owner', sto', hw_head', hw_cnt', filled', Range(recv_q'), held')
      BY <1>2, FitsNext
    <2> QED  BY <1>1, <1>2, <2>1
  <1>6. Owner[p] = "stack" /\ Owner'[p] = "pool"
    BY <1>3, <1>4, <1>5 DEF OwnerFits
  <1>7. ASSUME NEW x \in Pbufs, x # p PROVE Owner'[x] = Owner[x]
    <2>1. CASE x \in Q \cup held
      BY <1>4, <1>5, <1>7, <2>1 DEF OwnerFits
    <2>2. CASE x \in L
      <3>1. PICK b \in Span(hw_head, hw_cnt) : x = sto[b]
        BY <2>2 DEF Loaded
      <3> QED  BY <1>4, <1>5, <3>1 DEF OwnerFits
    <2>3. CASE x \notin L \cup (Q \cup held)
      BY <1>4, <1>5, <2>3 DEF OwnerFits
    <2> QED  BY <2>1, <2>2, <2>3
  <1>8. Life!MovesOne("stack", "pool")
    BY <1>3, <1>6, <1>7, LifeOne
  <1> QED  BY <1>8 DEF Life!Next, Life!Release

LEMMA InitDmaLife ==
  ASSUME IInv, IInv', NEW refs \in [Pbufs -> 0 .. 1], ~corrupt,
         \A p \in Pbufs : refs[p] = 0 <=> p \notin Range(recv_q) \cup held,
         init_dma(refs), UNCHANGED <<recv_q, held, corrupt>>, errors' \in Nat
  PROVE  Life!Next
  <1> DEFINE sto == rx_pbufs_storage
             Q == Range(recv_q)
  <1>1. filled' = {} /\ recv_q' = recv_q /\ held' = held /\ ~corrupt'
    BY InitDmaStep
  <1>2. OwnerFits(Owner, sto, hw_head, hw_cnt, filled, Q, held)
    BY FitsNow
  <1>3. OwnerFits(Owner', sto', hw_head', hw_cnt', {}, Q, held)
    <2>1. OwnerFits(Owner', sto', hw_head', hw_cnt', filled', Range(recv_q'), held')
      BY <1>1, FitsNext
    <2> QED  BY <1>1, <2>1
  <1> DEFINE allowed == {<<"armed", "pool">>, <<"filled", "pool">>, <<"filled", "armed">>,
                         <<"pool", "armed">>}
  <1>4. ASSUME NEW x \in Pbufs, Owner'[x] # Owner[x]
        PROVE  <<Owner[x], Owner'[x]>> \in allowed
    <2>1. x \notin Q \cup held
      BY <1>2, <1>3, <1>4 DEF OwnerFits
    <2>2. Owner[x] \in {"armed", "filled", "pool"}
      <3>1. CASE x \in Loaded(sto, hw_head, hw_cnt)
        <4>1. PICK b \in Span(hw_head, hw_cnt) : x = sto[b]
          BY <3>1 DEF Loaded
        <4> QED  BY <1>2, <4>1 DEF OwnerFits
      <3>2. CASE x \notin Loaded(sto, hw_head, hw_cnt)
        BY <1>2, <2>1, <3>2 DEF OwnerFits
      <3> QED  BY <3>1, <3>2
    <2>3. Owner'[x] \in {"armed", "pool"}
      <3>1. CASE x \in Loaded(sto', hw_head', hw_cnt')
        <4>1. PICK b \in Span(hw_head', hw_cnt') : x = sto'[b]
          BY <3>1 DEF Loaded
        <4> QED  BY <1>3, <4>1 DEF OwnerFits
      <3>2. CASE x \notin Loaded(sto', hw_head', hw_cnt')
        BY <1>3, <2>1, <3>2 DEF OwnerFits
      <3> QED  BY <3>1, <3>2
    <2> QED  BY <1>4, <2>2, <2>3
  <1>5. Owner' \in [Pbufs -> {"pool", "armed", "filled", "queue", "stack"}]
    BY <1>3 DEF OwnerFits
  <1>6. Life!Moves(allowed)
    <2> HIDE DEF allowed
    <2> QED  BY <1>4, <1>5, LifeMoves
  <1> QED  BY <1>6 DEF Life!Next, Life!Renew

(***************************************************************************)
(* A reset moves the pointers and no pbuf.                                 *)
(***************************************************************************)
LEMMA ResetLife ==
  ASSUME IInv, reset_dma
  PROVE  Owner' = Owner
  <1>1. /\ recv_q' = recv_q /\ held' = held /\ ref' = ref /\ hw_head \in Bds
    BY DEF reset_dma, IInv, TypeOK
  <1>2. /\ hw_cnt' = hw_cnt /\ filled' = filled /\ rx_pbufs_storage' = rx_pbufs_storage
        /\ Span(hw_head', hw_cnt') = Span(hw_head, hw_cnt)
    <2>1. CASE UNCHANGED ring
      BY <2>1 DEF ring
    <2>2. CASE /\ ~BdsMissing /\ hw_head' = 0 /\ UNCHANGED <<hw_cnt, filled, rx_pbufs_storage>>
      <3>1. hw_cnt = N_RX_DESC \/ hw_cnt = 0
        BY <2>2, RxAssumption DEF BdsMissing, IInv, TypeOK
      <3> QED  BY <1>1, <2>2, <3>1, ZeroBd, SpanWhole
    <2> QED  BY <2>1, <2>2 DEF reset_dma
  <1> DEFINE place(p, S) ==
               CASE ref[p] = 0 -> "pool"
                 [] ref[p] # 0 /\ p \in {rx_pbufs_storage[b] : b \in S} ->
                      IF \E b \in S \ filled : rx_pbufs_storage[b] = p THEN "armed" ELSE "filled"
                 [] /\ ref[p] # 0 /\ p \notin {rx_pbufs_storage[b] : b \in S}
                    /\ p \in Range(recv_q) -> "queue"
                 [] OTHER -> "stack"
  <1>3. /\ Owner = [p \in Pbufs |-> place(p, Span(hw_head, hw_cnt))]
        /\ Owner' = [p \in Pbufs |-> place(p, Span(hw_head', hw_cnt'))]
    BY <1>1, <1>2, OwnerIs DEF PlaceOf, Loaded
  <1> HIDE DEF place
  <1> QED  BY <1>2, <1>3

LEMMA StepLife ==
  ASSUME IInv, IInv', [Next]_vars
  PROVE  [Life!Next \/ (dry /\ corrupt')]_Owner
  <1>1. CASE low_level_init
    <2>1. /\ ~corrupt /\ ref \in [Pbufs -> 0 .. 1]
          /\ \A p \in Pbufs : ref[p] = 0 <=> p \notin Range(recv_q) \cup held
          /\ init_dma(ref) /\ UNCHANGED <<recv_q, held, corrupt>> /\ errors' \in Nat
      BY <1>1, LowLevelInitStep
    <2> QED  BY <2>1, InitDmaLife
  <1>2. CASE Receive
    BY <1>2, ReceiveLife
  <1>3. CASE emacps_recv_handler
    BY <1>3, HandlerLife
  <1>4. CASE \E kind \in Kinds, keep \in BOOLEAN : xemacpsif_input(kind, keep)
    BY <1>4, InputLife
  <1>5. CASE StackFrees
    BY <1>5, StackFreesLife
  <1>6. CASE HandleEmacPsError
    <2> DEFINE refs == free_txrx_pbufs
    <2>1. /\ ~corrupt /\ errors' \in Nat /\ UNCHANGED <<recv_q, held>>
          /\ refs \in [Pbufs -> 0 .. 1] /\ init_dma(refs)
          /\ \/ /\ UNCHANGED corrupt
                /\ \A p \in Pbufs : refs[p] = 0 <=> p \notin Range(recv_q) \cup held
             \/ corrupt' = TRUE /\ dry
      BY <1>6, ErrorCases
    <2> HIDE DEF refs
    <2>2. CASE /\ UNCHANGED corrupt
               /\ \A p \in Pbufs : refs[p] = 0 <=> p \notin Range(recv_q) \cup held
      BY <2>1, <2>2, InitDmaLife
    <2>3. CASE corrupt' = TRUE /\ dry
      BY <2>3
    <2> QED  BY <2>1, <2>2, <2>3
  <1>7. CASE reset_dma
    BY <1>7, ResetLife
  <1>8. CASE UNCHANGED vars
    <2>1. Owner' = Owner
      BY <1>8, OwnerIs DEF vars, ring
    <2> QED  BY <2>1
  <1> QED  BY <1>1, <1>2, <1>3, <1>4, <1>5, <1>6, <1>7, <1>8 DEF Next

(***************************************************************************)
(* The receive side implements PbufLife: for any number of BDs and pbufs,  *)
(* no batch, full queue, empty pool, error or reset moves a pbuf from one  *)
(* owner to another in a way that PbufLife does not allow.  The one step   *)
(* left out is the error that finds a stale entry (ring and table come     *)
(* apart), and that one needs a pool that has run dry before: its frees    *)
(* take pbufs from the queue and the stack.                                *)
(***************************************************************************)
THEOREM RxImplementsPbufLife == Spec => ImplementsPbufLife
  <1>1. Init => Life!Init
    <2> SUFFICES ASSUME Init PROVE \A p \in Pbufs : Place(p) = "pool"
      BY DEF Life!Init, Owner
    <2>1. \A p \in Pbufs : ref[p] = 0
      BY DEF Init
    <2> QED  BY <2>1 DEF Place
  <1>2. IInv /\ IInv' /\ [Next]_vars => [Life!Next \/ (dry /\ corrupt')]_Owner
    BY StepLife
  <1> QED  BY <1>1, <1>2, RxInvariant, PTL DEF Spec, ImplementsPbufLife

=============================================================================
