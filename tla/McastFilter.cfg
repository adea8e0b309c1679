CONSTANTS
  Groups <- MCGroups
  OddScope = {"z"}
  PtpMac = "ptp"
  HashOf <- MCHashOf
  XEMACPS_MAX_MAC_ADDR = 2
SPECIFICATION Spec
INVARIANTS TypeOK WantedIsHeard NothingElseIsHeard
PROPERTY RefusedOnlyWhenFull
