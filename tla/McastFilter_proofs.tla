------------------------- MODULE McastFilter_proofs -------------------------
(***************************************************************************)
(* Proofs about the multicast filters, for any groups, any hash function   *)
(* and any number of entries.                                              *)
(***************************************************************************)
EXTENDS McastFilter, FiniteSetTheorems, TLAPS

(***************************************************************************)
(* The groups of a family that go through its mask.                        *)
(***************************************************************************)
Counted(f) == (joined \cap Groups[f]) \ OddScope

\* The addresses whose bit the driver has set on purpose.
Asked == (joined \ OddScope) \cup (IF gptp_up THEN {PtpMac} ELSE {})

(***************************************************************************)
(* A mask has as many entries as groups of its family are joined, or, once *)
(* a join was refused, at most as many.  This is what the mask, which does *)
(* not know whose entry is whose, has to keep track of.                    *)
(***************************************************************************)
EntriesCount ==
  /\ IsFiniteSet(joined)
  /\ \A f \in Families :
       /\ Cardinality(entry_mask[f]) <= Cardinality(Counted(f))
       /\ ~overflowed => Cardinality(entry_mask[f]) = Cardinality(Counted(f))

(***************************************************************************)
(* An update under way is one of a group that has gone through a mask.     *)
(***************************************************************************)
UpdateOfGroup ==
  update # Idle => /\ update.action \in {"add", "del"}
                   /\ update.group \in AllGroups \ OddScope
                   /\ update.action = "add" => update.group \in joined

HashAsked == ~overflowed => hash \subseteq Bits(Asked \cup Pending)

IInv == TypeOK /\ EntriesCount /\ UpdateOfGroup /\ HashAsked /\ WantedIsHeard

-----------------------------------------------------------------------------

(***************************************************************************)
(* The loop over the entries finds a first one whenever there is one.      *)
(***************************************************************************)
LEMMA FirstEntry ==
  ASSUME NEW S, S \subseteq Nat, S # {}
  PROVE  Min(S) \in S
  <1> DEFINE R == OpToRel(<, Nat)
  <1>1. IsWellFoundedOn(R, Nat)
    BY NatLessThanWellFounded
  <1>2. \A x, y \in Nat : <<y, x>> \in R <=> y < x
    BY DEF OpToRel
  <1> HIDE DEF R
  <1>3. PICK x \in S : \A y \in S : ~ (<<y, x>> \in R)
    BY <1>1, WFMin
  <1>4. \A y \in S : ~(y < x)
    BY <1>2, <1>3
  <1>5. \A y \in S : x <= y
    BY <1>4, SMT
  <1> QED  BY <1>5 DEF Min

LEMMA MasksFinite ==
  ASSUME TypeOK, NEW f \in Families
  PROVE  /\ entry_mask[f] \subseteq Entries /\ IsFiniteSet(entry_mask[f])
         /\ Cardinality(entry_mask[f]) \in Nat
         /\ IsFiniteSet(Entries) /\ Cardinality(Entries) = XEMACPS_MAX_MAC_ADDR
  <1>1. entry_mask[f] \subseteq Entries
    BY DEF TypeOK
  <1>2. IsFiniteSet(Entries) /\ Cardinality(Entries) = XEMACPS_MAX_MAC_ADDR
    <2> DEFINE n == XEMACPS_MAX_MAC_ADDR - 1
    <2>1. n \in Nat /\ XEMACPS_MAX_MAC_ADDR = n + 1
      BY FilterAssumption
    <2> HIDE DEF n
    <2>2. IsFiniteSet(0 .. n) /\ Cardinality(0 .. n) = IF 0 > n THEN 0 ELSE n - 0 + 1
      BY <2>1, FS_Interval
    <2> QED  BY <2>1, <2>2 DEF Entries, n
  <1>3. IsFiniteSet(entry_mask[f])
    BY <1>1, <1>2, FS_Subset
  <1> QED  BY <1>1, <1>2, <1>3, FS_CardinalityType

LEMMA CountedFinite ==
  ASSUME EntriesCount, NEW f
  PROVE  IsFiniteSet(Counted(f)) /\ Cardinality(Counted(f)) \in Nat
  <1>1. Counted(f) \in SUBSET joined
    BY DEF Counted
  <1> QED  BY <1>1, FS_Subset, FS_CardinalityType DEF EntriesCount

LEMMA IInvInit == Init => IInv
  <1> SUFFICES ASSUME Init PROVE IInv
    OBVIOUS
  <1> USE DEF Init
  <1>1. TypeOK
    BY DEF TypeOK, Idle, Bits
  <1>2. EntriesCount
    <2>1. \A f \in Families : entry_mask[f] = {} /\ Counted(f) = {}
      BY DEF Counted
    <2>2. Cardinality({}) = 0
      BY FS_EmptySet
    <2> QED  BY <2>1, <2>2, FS_EmptySet DEF EntriesCount
  <1>3. UpdateOfGroup /\ HashAsked /\ WantedIsHeard
    BY DEF UpdateOfGroup, HashAsked, WantedIsHeard, Wanted
  <1> QED  BY <1>1, <1>2, <1>3 DEF IInv

(***************************************************************************)
(* A join that finds an entry.                                             *)
(***************************************************************************)
LEMMA AddSafe ==
  ASSUME IInv, NEW f \in Families, NEW g \in Groups[f] \ OddScope, AddFilter(f, g)
  PROVE  IInv'
  <1> USE DEF IInv
  <1>0. g \in AllGroups /\ g \notin joined /\ joined' = joined \cup {g}
        /\ UNCHANGED <<hash, gptp_up, left, recovered>> /\ update = Idle
    BY DEF AddFilter, AllGroups
  <1>1. \A h \in Families : h # f => Groups[h] \cap Groups[f] = {}
    BY FilterAssumption DEF Families
  <1>2. /\ Counted(f)' = Counted(f) \cup {g}
        /\ \A h \in Families : h # f => Counted(h)' = Counted(h)
    BY <1>0, <1>1 DEF Counted
  <1>3. /\ IsFiniteSet(joined')
        /\ Cardinality(Counted(f)') = Cardinality(Counted(f)) + 1
    BY <1>0, <1>2, CountedFinite, FS_AddElement DEF EntriesCount, Counted
  <1>4. CASE FreeEntries(entry_mask[f]) # {}
    <2> DEFINE e == Min(FreeEntries(entry_mask[f]))
    <2>1. e \in Entries /\ e \notin entry_mask[f]
      BY <1>4, FirstEntry DEF FreeEntries, Entries
    <2> HIDE DEF e
    <2>2. /\ entry_mask' = [entry_mask EXCEPT ![f] = @ \cup {e}]
          /\ update' = [action |-> "add", group |-> g]
          /\ refused' = refused \ {g} /\ UNCHANGED overflowed
      BY <1>4 DEF AddFilter, e
    <2>3. Cardinality(entry_mask'[f]) = Cardinality(entry_mask[f]) + 1
      <3>1. entry_mask'[f] = entry_mask[f] \cup {e}
        BY <2>2 DEF TypeOK
      <3> QED  BY <2>1, <3>1, MasksFinite, FS_AddElement
    <2>4. EntriesCount'
      <3>1. \A h \in Families : h # f => entry_mask'[h] = entry_mask[h]
        BY <2>2 DEF TypeOK
      <3>2. ASSUME NEW h \in Families
            PROVE  /\ Cardinality(entry_mask'[h]) <= Cardinality(Counted(h)')
                   /\ ~overflowed' => Cardinality(entry_mask'[h]) = Cardinality(Counted(h)')
        <4>1. /\ Cardinality(entry_mask[h]) \in Nat /\ Cardinality(Counted(h)) \in Nat
              /\ Cardinality(entry_mask[h]) <= Cardinality(Counted(h))
              /\ ~overflowed => Cardinality(entry_mask[h]) = Cardinality(Counted(h))
          BY MasksFinite, CountedFinite DEF EntriesCount
        <4>2. CASE h = f
          <5>1. Counted(h)' = Counted(f)' /\ Counted(h) = Counted(f)
                /\ entry_mask[h] = entry_mask[f] /\ entry_mask'[h] = entry_mask'[f]
            BY <4>2 DEF Counted
          <5> QED  BY <1>2, <1>3, <2>2, <2>3, <3>1, <4>1, <5>1
        <4>3. CASE h # f
          BY <1>2, <1>3, <2>2, <2>3, <3>1, <4>1, <4>3
        <4> QED  BY <4>2, <4>3
      <3> QED  BY <1>3, <3>2 DEF EntriesCount
    <2>5. TypeOK'
      BY <1>0, <2>1, <2>2 DEF TypeOK
    <2>6. UpdateOfGroup'
      BY <1>0, <2>2 DEF UpdateOfGroup
    <2>7. Pending' = {g} /\ Pending = {}
      BY <1>0, <2>2 DEF Pending, Idle
    <2>8. HashAsked'
      BY <1>0, <2>2, <2>7 DEF HashAsked, Bits, Asked
    <2>9. WantedIsHeard'
      BY <1>0, <2>2, <2>7 DEF WantedIsHeard, Wanted
    <2> QED  BY <2>4, <2>5, <2>6, <2>8, <2>9
  <1>5. CASE FreeEntries(entry_mask[f]) = {}
    <2>1. /\ refused' = refused \cup {g} /\ overflowed' = TRUE
          /\ UNCHANGED <<entry_mask, update>>
      BY <1>5 DEF AddFilter
    <2>2. EntriesCount'
      <3>1. ASSUME NEW h \in Families
            PROVE  Cardinality(entry_mask'[h]) <= Cardinality(Counted(h)')
        <4>1. /\ Cardinality(entry_mask[h]) \in Nat /\ Cardinality(Counted(h)) \in Nat
              /\ Cardinality(entry_mask[h]) <= Cardinality(Counted(h))
              /\ ~overflowed => Cardinality(entry_mask[h]) = Cardinality(Counted(h))
          BY MasksFinite, CountedFinite DEF EntriesCount
        <4>2. CASE h = f
          <5>1. Counted(h)' = Counted(f)' /\ Counted(h) = Counted(f)
                /\ entry_mask[h] = entry_mask[f] /\ entry_mask'[h] = entry_mask'[f]
            BY <4>2 DEF Counted
          <5> QED  BY <1>2, <1>3, <2>1, <4>1, <5>1
        <4>3. CASE h # f
          BY <1>2, <1>3, <2>1, <4>1, <4>3
        <4> QED  BY <4>2, <4>3
      <3> QED  BY <1>3, <2>1, <3>1 DEF EntriesCount
    <2>3. TypeOK'
      BY <1>0, <2>1 DEF TypeOK
    <2>4. UpdateOfGroup' /\ HashAsked' /\ WantedIsHeard'
      BY <1>0, <2>1 DEF UpdateOfGroup, HashAsked, WantedIsHeard, Wanted, Pending
    <2> QED  BY <2>2, <2>3, <2>4
  <1> QED  BY <1>4, <1>5

(***************************************************************************)
(* A leave.  While no join was refused, the mask has an entry to give up,  *)
(* and so the hash is always told.                                         *)
(***************************************************************************)
LEMMA DelSafe ==
  ASSUME IInv, NEW f \in Families, NEW g \in Groups[f] \ OddScope, DelFilter(f, g)
  PROVE  IInv'
  <1> USE DEF IInv
  <1>0. /\ g \in AllGroups /\ g \in joined /\ joined' = joined \ {g} /\ update = Idle
        /\ UNCHANGED <<hash, gptp_up, refused, overflowed, left, recovered>>
    BY DEF DelFilter, AllGroups
  <1>1. \A h \in Families : h # f => Groups[h] \cap Groups[f] = {}
    BY FilterAssumption DEF Families
  <1>2. /\ Counted(f)' = Counted(f) \ {g} /\ g \in Counted(f)
        /\ \A h \in Families : h # f => Counted(h)' = Counted(h)
    BY <1>0, <1>1 DEF Counted
  <1>3. /\ IsFiniteSet(joined')
        /\ Cardinality(Counted(f)') = Cardinality(Counted(f)) - 1
    BY <1>0, <1>2, CountedFinite, FS_RemoveElement DEF EntriesCount
  <1>4. CASE entry_mask[f] # {}
    <2> DEFINE e == Min(entry_mask[f])
    <2>1. e \in entry_mask[f]
      BY <1>4, FirstEntry, MasksFinite DEF Entries
    <2> HIDE DEF e
    <2>2. /\ entry_mask' = [entry_mask EXCEPT ![f] = @ \ {e}]
          /\ update' = [action |-> "del", group |-> g]
      BY <1>4 DEF DelFilter, e
    <2>3. Cardinality(entry_mask'[f]) = Cardinality(entry_mask[f]) - 1
      <3>1. entry_mask'[f] = entry_mask[f] \ {e}
        BY <2>2 DEF TypeOK
      <3> QED  BY <2>1, <3>1, MasksFinite, FS_RemoveElement
    <2>4. EntriesCount'
      <3>1. \A h \in Families : h # f => entry_mask'[h] = entry_mask[h]
        BY <2>2 DEF TypeOK
      <3>2. ASSUME NEW h \in Families
            PROVE  /\ Cardinality(entry_mask'[h]) <= Cardinality(Counted(h)')
                   /\ ~overflowed' => Cardinality(entry_mask'[h]) = Cardinality(Counted(h)')
        <4>1. /\ Cardinality(entry_mask[h]) \in Nat /\ Cardinality(Counted(h)) \in Nat
              /\ Cardinality(entry_mask[h]) <= Cardinality(Counted(h))
              /\ ~overflowed => Cardinality(entry_mask[h]) = Cardinality(Counted(h))
          BY MasksFinite, CountedFinite DEF EntriesCount
        <4>2. CASE h = f
          <5>1. Counted(h)' = Counted(f)' /\ Counted(h) = Counted(f)
                /\ entry_mask[h] = entry_mask[f] /\ entry_mask'[h] = entry_mask'[f]
            BY <4>2 DEF Counted
          <5> QED  BY <1>0, <1>2, <1>3, <2>3, <3>1, <4>1, <5>1
        <4>3. CASE h # f
          BY <1>0, <1>2, <1>3, <2>3, <3>1, <4>1, <4>3
        <4> QED  BY <4>2, <4>3
      <3> QED  BY <1>3, <3>2 DEF EntriesCount
    <2>5. TypeOK'
      BY <1>0, <2>1, <2>2 DEF TypeOK
    <2>6. UpdateOfGroup'
      BY <1>0, <2>2 DEF UpdateOfGroup
    <2>7. Pending' = {g} /\ Pending = {}
      BY <1>0, <2>2 DEF Pending, Idle
    <2>8. HashAsked'
      BY <1>0, <2>2, <2>7 DEF HashAsked, Bits, Asked
    <2>9. WantedIsHeard'
      BY <1>0, <2>2, <2>7 DEF WantedIsHeard, Wanted
    <2> QED  BY <2>4, <2>5, <2>6, <2>8, <2>9
  <1>5. CASE entry_mask[f] = {}
    <2>1. UNCHANGED <<entry_mask, update>>
      BY <1>5 DEF DelFilter
    <2>2. Cardinality(entry_mask[f]) = 0 /\ Cardinality(Counted(f)) # 0
      BY <1>2, <1>5, CountedFinite, FS_EmptySet
    <2>3. overflowed
      BY <2>2 DEF EntriesCount
    <2>4. EntriesCount'
      <3>1. ASSUME NEW h \in Families
            PROVE  Cardinality(entry_mask'[h]) <= Cardinality(Counted(h)')
        <4>1. /\ Cardinality(entry_mask[h]) \in Nat /\ Cardinality(Counted(h)) \in Nat
              /\ Cardinality(entry_mask[h]) <= Cardinality(Counted(h))
              /\ ~overflowed => Cardinality(entry_mask[h]) = Cardinality(Counted(h))
          BY MasksFinite, CountedFinite DEF EntriesCount
        <4>2. CASE h = f
          <5>1. Counted(h)' = Counted(f)' /\ Counted(h) = Counted(f)
                /\ entry_mask[h] = entry_mask[f] /\ entry_mask'[h] = entry_mask'[f]
            BY <4>2 DEF Counted
          <5> QED  BY <1>2, <1>3, <2>1, <2>2, <4>1, <5>1
        <4>3. CASE h # f
          BY <1>2, <1>3, <2>1, <2>2, <4>1, <4>3
        <4> QED  BY <4>2, <4>3
      <3> QED  BY <1>0, <1>3, <2>3, <3>1 DEF EntriesCount
    <2>5. TypeOK'
      BY <1>0, <2>1 DEF TypeOK
    <2>6. UpdateOfGroup' /\ HashAsked' /\ WantedIsHeard'
      BY <1>0, <2>1, <2>3 DEF UpdateOfGroup, HashAsked, WantedIsHeard, Wanted, Pending
    <2> QED  BY <2>4, <2>5, <2>6
  <1> QED  BY <1>4, <1>5

(***************************************************************************)
(* A group of an unknown scope goes past the mask and the hash.            *)
(***************************************************************************)
LEMMA RejectSafe ==
  ASSUME IInv, NEW g, RejectScope(g)
  PROVE  IInv'
  <1> USE DEF IInv
  <1>0. /\ g \in OddScope /\ g \in AllGroups
        /\ joined' = joined \ {g} \/ joined' = joined \cup {g}
        /\ refused' = refused \cup {g}
        /\ UNCHANGED <<entry_mask, hash, update, gptp_up, overflowed, left, recovered>>
    BY FilterAssumption DEF RejectScope, AllGroups, Families
  <1>1. \A f \in Families : Counted(f)' = Counted(f)
    BY <1>0 DEF Counted
  <1>2. IsFiniteSet(joined')
    BY <1>0, FS_AddElement, FS_RemoveElement DEF EntriesCount
  <1>3. EntriesCount'
    BY <1>0, <1>1, <1>2 DEF EntriesCount
  <1>4. TypeOK'
    BY <1>0 DEF TypeOK
  <1>5. UpdateOfGroup'
    BY <1>0 DEF UpdateOfGroup
  <1>6. HashAsked'
    BY <1>0 DEF HashAsked, Bits, Asked, Pending
  <1>7. WantedIsHeard'
    BY <1>0 DEF WantedIsHeard, Wanted, Pending
  <1> QED  BY <1>3, <1>4, <1>5, <1>6, <1>7

(***************************************************************************)
(* The end of an update.  What it makes deaf it has noted in left.         *)
(***************************************************************************)
LEMMA WriteSafe ==
  ASSUME IInv, WriteHash, update.group \in AllGroups
  PROVE  IInv'
  <1> USE DEF IInv
  <1> DEFINE g == update.group
  <1>0. /\ update' = Idle /\ update # Idle
        /\ g \in AllGroups \ OddScope
        /\ UNCHANGED <<entry_mask, joined, gptp_up, refused, overflowed, recovered>>
    BY FilterAssumption DEF WriteHash, UpdateOfGroup, Idle
  <1>1. Pending = {g} /\ Pending' = {} /\ Wanted' = Wanted
    BY <1>0 DEF Pending, Wanted
  <1>2. EntriesCount' /\ UpdateOfGroup'
    BY <1>0 DEF EntriesCount, Counted, UpdateOfGroup
  <1>3. CASE update.action = "add"
    <2>1. hash' = hash \cup {HashOf[g]} /\ left' = StillLeft(g) /\ g \in joined
      BY <1>0, <1>3 DEF WriteHash, SetOrDelete, UpdateOfGroup
    <2> HIDE DEF g
    <2>2. TypeOK'
      BY <1>0, <2>1 DEF TypeOK, StillLeft, Bits, Idle
    <2>3. HashAsked'
      BY <1>0, <1>1, <2>1 DEF HashAsked, Bits, Asked
    <2>4. WantedIsHeard'
      BY <1>0, <1>1, <2>1 DEF WantedIsHeard, StillLeft, Bits
    <2> QED  BY <1>2, <2>2, <2>3, <2>4
  <1>4. CASE update.action = "del"
    <2>1. hash' = hash \ {HashOf[g]} /\ left' = left \cup {g}
      BY <1>4 DEF WriteHash, SetOrDelete
    <2> HIDE DEF g
    <2>2. TypeOK'
      BY <1>0, <2>1 DEF TypeOK, Idle
    <2>3. HashAsked'
      BY <1>0, <1>1, <2>1 DEF HashAsked, Bits, Asked
    <2>4. WantedIsHeard'
      BY <1>0, <1>1, <2>1 DEF WantedIsHeard, Bits
    <2> QED  BY <1>2, <2>2, <2>3, <2>4
  <1> QED  BY <1>0, <1>3, <1>4 DEF UpdateOfGroup

LEMMA IInvNext == IInv /\ [Next]_vars => IInv'
  <1> SUFFICES ASSUME IInv, [Next]_vars PROVE IInv'
    OBVIOUS
  <1>1. ASSUME NEW g \in AllGroups, xemacpsif_mac_filter_update(g) PROVE IInv'
    <2>1. g \in Groups["igmp"] /\ "igmp" \in Families
      BY <1>1 DEF xemacpsif_mac_filter_update, AddFilter, DelFilter, Families
    <2>2. g \notin OddScope
      BY <2>1, FilterAssumption
    <2> QED  BY <1>1, <2>1, <2>2, AddSafe, DelSafe DEF xemacpsif_mac_filter_update
  <1>2. ASSUME NEW g \in AllGroups, xemacpsif_mld6_mac_filter_update(g) PROVE IInv'
    <2>1. CASE RejectScope(g)
      BY <2>1, RejectSafe
    <2>2. CASE g \notin OddScope /\ (AddFilter("mld6", g) \/ DelFilter("mld6", g))
      <3>1. g \in Groups["mld6"] \ OddScope /\ "mld6" \in Families
        BY <2>2 DEF AddFilter, DelFilter, Families
      <3> QED  BY <2>2, <3>1, AddSafe, DelSafe
    <2> QED  BY <1>2, <2>1, <2>2 DEF xemacpsif_mld6_mac_filter_update
  <1>3. ASSUME xemacpsif_mac_hash_update \/ xemacpsif_mld6_mac_hash_update PROVE IInv'
    <2>1. update.group \in AllGroups /\ WriteHash
      BY <1>3 DEF xemacpsif_mac_hash_update, xemacpsif_mld6_mac_hash_update, AllGroups,
                  Families
    <2> QED  BY <2>1, WriteSafe
  <1>4. CASE enable_mac_multicast
    <2> USE <1>4 DEF IInv, enable_mac_multicast
    <2>1. TypeOK'
      BY DEF TypeOK, StillLeft, Bits
    <2>2. EntriesCount' /\ UpdateOfGroup'
      BY DEF EntriesCount, Counted, UpdateOfGroup
    <2>3. HashAsked'
      BY DEF HashAsked, Bits, Asked, Pending
    <2>4. WantedIsHeard'
      BY DEF WantedIsHeard, Wanted, Pending, StillLeft, Bits
    <2> QED  BY <2>1, <2>2, <2>3, <2>4
  <1>5. CASE HandleEmacPsError
    <2> USE <1>5 DEF IInv, HandleEmacPsError
    <2>1. TypeOK'
      BY DEF TypeOK
    <2>2. EntriesCount' /\ UpdateOfGroup'
      BY DEF EntriesCount, Counted, UpdateOfGroup
    <2>3. HashAsked' /\ WantedIsHeard'
      BY DEF HashAsked, WantedIsHeard
    <2> QED  BY <2>1, <2>2, <2>3
  <1>6. CASE UNCHANGED vars
    BY <1>6 DEF vars, IInv, TypeOK, EntriesCount, Counted, UpdateOfGroup, HashAsked,
       Asked, WantedIsHeard, Wanted, Pending
  <1> QED  BY <1>1, <1>2, <1>3, <1>4, <1>5, <1>6 DEF Next

-----------------------------------------------------------------------------

(***************************************************************************)
(* The inductive invariant of the multicast filters.                       *)
(***************************************************************************)
THEOREM FilterInvariant == Spec => []IInv
  BY IInvInit, IInvNext, PTL DEF Spec

(***************************************************************************)
(* The bits of the masks stay within their XEMACPS_MAX_MAC_ADDR entries,   *)
(* and the hash register within the bits of known addresses.               *)
(***************************************************************************)
THEOREM FilterTypeCorrect == Spec => []TypeOK
  <1>1. IInv => TypeOK
    BY DEF IInv
  <1> QED  BY <1>1, FilterInvariant, PTL

(***************************************************************************)
(* A group whose join got an entry, and the PTP address, get through the   *)
(* hash unless a clash or an error recovery has cleared the bit.           *)
(***************************************************************************)
THEOREM WantedAlwaysHeard == Spec => []WantedIsHeard
  <1>1. IInv => WantedIsHeard
    BY DEF IInv
  <1> QED  BY <1>1, FilterInvariant, PTL

(***************************************************************************)
(* A leave always clears its bit as long as no join was refused.           *)
(***************************************************************************)
THEOREM NothingElseEverHeard == Spec => []NothingElseIsHeard
  <1>1. IInv => NothingElseIsHeard
    <2> SUFFICES ASSUME IInv, ~overflowed, update = Idle
                 PROVE  hash \subseteq Bits(Wanted)
      BY DEF NothingElseIsHeard
    <2> QED  BY DEF IInv, HashAsked, Bits, Asked, Pending, Wanted
  <1> QED  BY <1>1, FilterInvariant, PTL

(***************************************************************************)
(* xemacpsif_mac_filter_update and its IPv6 twin turn a group down only    *)
(* when as many groups are joined as there are entries.                    *)
(***************************************************************************)
THEOREM RefusalsAreDue == Spec => RefusedOnlyWhenFull
  <1>1. ASSUME IInv, [Next]_vars
        PROVE  [\A f \in Families :
                  (refused' \ refused) \cap (Groups[f] \ OddScope) # {} =>
                     Cardinality(joined \cap Groups[f]) >= XEMACPS_MAX_MAC_ADDR]_vars
    <2> SUFFICES ASSUME Next, NEW f \in Families,
                        NEW g \in (refused' \ refused) \cap (Groups[f] \ OddScope)
                 PROVE  Cardinality(joined \cap Groups[f]) >= XEMACPS_MAX_MAC_ADDR
      BY <1>1
    <2>1. \E h \in Families : AddFilter(h, g)
      <3>1. PICK k \in AllGroups : \/ xemacpsif_mac_filter_update(k)
                                   \/ xemacpsif_mld6_mac_filter_update(k)
        BY DEF Next, xemacpsif_mac_hash_update, xemacpsif_mld6_mac_hash_update,
           WriteHash, enable_mac_multicast, HandleEmacPsError
      <3>2. ~RejectScope(k)
        BY DEF RejectScope
      <3>3. PICK h \in Families : AddFilter(h, k) \/ DelFilter(h, k)
        BY <3>1, <3>2 DEF xemacpsif_mac_filter_update, xemacpsif_mld6_mac_filter_update,
           Families
      <3>4. AddFilter(h, k) /\ refused' \subseteq refused \cup {k}
        BY <3>3 DEF AddFilter, DelFilter
      <3> QED  BY <3>4
    <2>2. AddFilter(f, g)
      BY <2>1, FilterAssumption DEF AddFilter, Families
    <2>3. Entries \subseteq entry_mask[f]
      BY <2>2 DEF AddFilter, FreeEntries
    <2>4. entry_mask[f] = Entries /\ Cardinality(Entries) = XEMACPS_MAX_MAC_ADDR
      BY <1>1, <2>3, MasksFinite DEF IInv
    <2>5. /\ IsFiniteSet(joined \cap Groups[f])
          /\ Counted(f) \in SUBSET (joined \cap Groups[f])
      BY <1>1, FS_Intersection DEF IInv, EntriesCount, Counted
    <2>6. /\ Cardinality(Counted(f)) <= Cardinality(joined \cap Groups[f])
          /\ Cardinality(joined \cap Groups[f]) \in Nat
          /\ Cardinality(Counted(f)) \in Nat
      BY <2>5, FS_Subset, FS_CardinalityType
    <2>7. Cardinality(entry_mask[f]) <= Cardinality(Counted(f))
      BY <1>1 DEF IInv, EntriesCount
    <2> QED  BY <2>4, <2>6, <2>7, FilterAssumption
  <1> QED  BY <1>1, FilterInvariant, PTL DEF Spec, RefusedOnlyWhenFull

=============================================================================
