CONSTANTS
  NS_SEC_PERIOD = 4
  TICK = 3
  MaxSeconds = 2
SPECIFICATION Spec
INVARIANTS TypeOK SetLosesOnlyRollovers
PROPERTY GetLinearizable
