---------------------------- MODULE McastFilter ----------------------------
(***************************************************************************)
(* Which multicast frames the Ethernet hardware lets through: the 64-bit   *)
(* hash register, and the masks in which xemacpsif_mac_filter_update and   *)
(* its IPv6 twin count the groups that were joined.                        *)
(*                                                                         *)
(* Joining and leaving happen in the main loop.  The mask changes first;   *)
(* then xemacpsif_mac_hash_update waits, with interrupts on, for the       *)
(* transmit ring to drain, and only then writes the hash.  The recovery    *)
(* from a DMA error, an interrupt, may come in between.  A mask holds no   *)
(* addresses: its bits only count.                                         *)
(***************************************************************************)
EXTENDS Integers, FiniteSets, FiniteSetsExt

CONSTANTS Groups,                  \* per family, the groups the program may join
          OddScope,                \* IPv6 groups of a scope the driver does not know
          PtpMac,                  \* the address gptp.c listens to
          HashOf,                  \* the bit of the hash register of each address
          XEMACPS_MAX_MAC_ADDR     \* entries of a mask

Families == {"igmp", "mld6"}
AllGroups == UNION {Groups[f] : f \in Families}

ASSUME FilterAssumption ==
  /\ DOMAIN Groups = Families
  /\ Groups["igmp"] \cap Groups["mld6"] = {} /\ PtpMac \notin AllGroups
  /\ OddScope \subseteq Groups["mld6"]
  /\ DOMAIN HashOf = AllGroups \cup {PtpMac}
  /\ XEMACPS_MAX_MAC_ADDR \in Nat \ {0}

VARIABLES entry_mask,       \* per family, the bits set in the mask
          hash,             \* the bits set in the hash register
          joined,           \* the groups lwIP has joined
          update,           \* the update of the hash under way, or Idle
          gptp_up,          \* enable_mac_multicast has been called
          refused,          \* history: groups whose last join found no free entry
          overflowed,       \* history: some join has found no free entry
          left,             \* history: groups left since their bit was last set
          recovered         \* history: a DMA error has been recovered from

vars == <<entry_mask, hash, joined, update, gptp_up, refused, overflowed, left, recovered>>

Entries == 0 .. XEMACPS_MAX_MAC_ADDR - 1

Idle == [action |-> "none", group |-> PtpMac]

Init ==
  /\ entry_mask = [f \in Families |-> {}]
  /\ hash = {} /\ joined = {}
  /\ update = Idle /\ gptp_up = FALSE
  /\ refused = {} /\ overflowed = FALSE /\ left = {} /\ recovered = FALSE

-----------------------------------------------------------------------------

\* Mutant: the loop goes one entry too far.
FreeEntriesPast(mask) == (0 .. XEMACPS_MAX_MAC_ADDR) \ mask

(***************************************************************************)
(* The entries the loop over i finds clear.                                *)
(***************************************************************************)
FreeEntries(mask) == Entries \ mask

(***************************************************************************)
(* IGMP_ADD_MAC_FILTER: take the first free entry.  With none, ERR_MEM,    *)
(* which lwIP does not look at: the group counts as joined all the same.   *)
(***************************************************************************)
AddFilter(f, g) ==
  /\ update = Idle /\ g \in Groups[f] \ joined
  /\ joined' = joined \cup {g}
  /\ LET free == FreeEntries(entry_mask[f])
     IN  \/ /\ free # {}
            /\ entry_mask' = [entry_mask EXCEPT ![f] = @ \cup {Min(free)}]
            /\ update' = [action |-> "add", group |-> g]
            /\ refused' = refused \ {g}
            /\ UNCHANGED overflowed
         \/ /\ free = {}
            /\ refused' = refused \cup {g} /\ overflowed' = TRUE
            /\ UNCHANGED <<entry_mask, update>>
  /\ UNCHANGED <<hash, gptp_up, left, recovered>>

\* Mutant: the entry stays taken.
DelKeepsEntry(f, g) ==
  /\ update = Idle /\ g \in Groups[f] \cap joined
  /\ joined' = joined \ {g}
  /\ update' = [action |-> "del", group |-> g]
  /\ UNCHANGED <<entry_mask, hash, gptp_up, refused, overflowed, left, recovered>>

(***************************************************************************)
(* IGMP_DEL_MAC_FILTER: give up the first entry taken, whoever took it.    *)
(* With none taken the hash is left alone.                                 *)
(***************************************************************************)
DelFilter(f, g) ==
  /\ update = Idle /\ g \in Groups[f] \cap joined
  /\ joined' = joined \ {g}
  /\ \/ /\ entry_mask[f] # {}
        /\ entry_mask' = [entry_mask EXCEPT ![f] = @ \ {Min(@)}]
        /\ update' = [action |-> "del", group |-> g]
     \/ /\ entry_mask[f] = {}
        /\ UNCHANGED <<entry_mask, update>>
  /\ UNCHANGED <<hash, gptp_up, refused, overflowed, left, recovered>>

xemacpsif_mac_filter_update(g) == AddFilter("igmp", g) \/ DelFilter("igmp", g)

(***************************************************************************)
(* xemacpsif_ip6_addr_ismulticast knows six scopes.  A group of another is *)
(* turned down with ERR_ARG, which lwIP does not look at either.           *)
(***************************************************************************)
RejectScope(g) ==
  /\ update = Idle /\ g \in OddScope
  /\ joined' = IF g \in joined THEN joined \ {g} ELSE joined \cup {g}
  /\ refused' = refused \cup {g}
  /\ UNCHANGED <<entry_mask, hash, update, gptp_up, overflowed, left, recovered>>

xemacpsif_mld6_mac_filter_update(g) ==
  \/ RejectScope(g)
  \/ g \notin OddScope /\ (AddFilter("mld6", g) \/ DelFilter("mld6", g))

\* Mutant: a group that is left keeps its bit.
OnlyAdds(bits, act, g) == IF act = "add" THEN bits \cup {HashOf[g]} ELSE bits

\* XEmacPs_SetHash and XEmacPs_DeleteHash (external).
SetOrDelete(bits, act, g) ==
  IF act = "add" THEN bits \cup {HashOf[g]} ELSE bits \ {HashOf[g]}

StillLeft(g) == {h \in left : HashOf[h] # HashOf[g]}

(***************************************************************************)
(* The transmit ring has drained: the hash is written.                     *)
(***************************************************************************)
WriteHash ==
  /\ hash' = SetOrDelete(hash, update.action, update.group)
  /\ left' = IF update.action = "add" THEN StillLeft(update.group)
                                      ELSE left \cup {update.group}
  /\ update' = Idle
  /\ UNCHANGED <<entry_mask, joined, gptp_up, refused, overflowed, recovered>>

xemacpsif_mac_hash_update == update.group \in Groups["igmp"] /\ WriteHash

xemacpsif_mld6_mac_hash_update == update.group \in Groups["mld6"] /\ WriteHash

\* Mutant: the register is written with the one bit.
SetPtpHashOnly ==
  /\ update = Idle /\ ~gptp_up
  /\ gptp_up' = TRUE
  /\ hash' = {HashOf[PtpMac]}
  /\ left' = StillLeft(PtpMac)
  /\ UNCHANGED <<entry_mask, joined, update, refused, overflowed, recovered>>

(***************************************************************************)
(* gptp_init sets the bit of its address without taking an entry.          *)
(***************************************************************************)
enable_mac_multicast ==
  /\ update = Idle /\ ~gptp_up
  /\ gptp_up' = TRUE
  /\ hash' = hash \cup {HashOf[PtpMac]}
  /\ left' = StillLeft(PtpMac)
  /\ UNCHANGED <<entry_mask, joined, update, refused, overflowed, recovered>>

(***************************************************************************)
(* XEmacPs_CfgInitialize clears the hash; the masks and lwIP's groups stay *)
(* as they are, and nothing sets the bits again.                           *)
(***************************************************************************)
HandleEmacPsError ==
  /\ hash' = {} /\ recovered' = TRUE
  /\ UNCHANGED <<entry_mask, joined, update, gptp_up, refused, overflowed, left>>

Next ==
  \/ \E g \in AllGroups : \/ xemacpsif_mac_filter_update(g)
                          \/ xemacpsif_mld6_mac_filter_update(g)
  \/ xemacpsif_mac_hash_update
  \/ xemacpsif_mld6_mac_hash_update
  \/ enable_mac_multicast
  \/ HandleEmacPsError

Spec == Init /\ [][Next]_vars

-----------------------------------------------------------------------------

(***************************************************************************)
(* The addresses whose frames are wanted.                                  *)
(***************************************************************************)
Wanted == joined \cup (IF gptp_up THEN {PtpMac} ELSE {})

\* The group whose update is still waiting for the ring.
Pending == IF update = Idle THEN {} ELSE {update.group}

Bits(macs) == {HashOf[m] : m \in macs}

(***************************************************************************)
(* The masks have no more entries than they have bits, and the hash only   *)
(* bits that some address has.                                             *)
(***************************************************************************)
TypeOK ==
  /\ entry_mask \in [Families -> SUBSET Entries]
  /\ hash \subseteq Bits(AllGroups \cup {PtpMac})
  /\ joined \subseteq AllGroups /\ refused \subseteq AllGroups
  /\ update \in [action : {"none", "add", "del"}, group : AllGroups \cup {PtpMac}]
  /\ left \subseteq AllGroups /\ overflowed \in BOOLEAN
  /\ gptp_up \in BOOLEAN /\ recovered \in BOOLEAN

(***************************************************************************)
(* A wanted address is heard, unless its own join was refused, an error    *)
(* was recovered from, or a group with the same bit was left since the bit *)
(* was set.  It matters neither which entry of a mask was freed for which  *)
(* group nor that gptp.c goes past the masks.                              *)
(***************************************************************************)
WantedIsHeard ==
  \A m \in Wanted \ (refused \cup Pending) :
    HashOf[m] \in hash \/ recovered \/ HashOf[m] \in Bits(left)

(***************************************************************************)
(* While no join has been refused, the hash lets nothing through but what  *)
(* is wanted: a group that was left is no longer heard, unless another     *)
(* still needs its bit.                                                    *)
(***************************************************************************)
NothingElseIsHeard ==
  ~overflowed /\ update = Idle => hash \subseteq Bits(Wanted)

(***************************************************************************)
(* A join finds no entry only when as many groups of the family are joined *)
(* as there are entries: however often groups come and go, and although    *)
(* the mask does not know which entry is whose, no entry is lost for good. *)
(***************************************************************************)
RefusedOnlyWhenFull ==
  [][\A f \in Families :
       (refused' \ refused) \cap (Groups[f] \ OddScope) # {} =>
          Cardinality(joined \cap Groups[f]) >= XEMACPS_MAX_MAC_ADDR]_vars

=============================================================================
