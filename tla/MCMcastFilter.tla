--------------------------- MODULE MCMcastFilter ---------------------------
(***************************************************************************)
(* McastFilter for TLC: three IPv4 groups, two of which share a bit, and   *)
(* three IPv6 groups, of which one shares its bit with the PTP address and *)
(* one is of a scope the driver does not know.                             *)
(***************************************************************************)
EXTENDS McastFilter

MCGroups == [igmp |-> {"a", "b", "c"}, mld6 |-> {"x", "y", "z"}]

MCHashOf == [a |-> 0, b |-> 1, c |-> 1, x |-> 2, y |-> 3, z |-> 0, ptp |-> 2]

=============================================================================
