CONSTANTS
  NS_SEC_PERIOD = 2
  BYTE = 2
  Seconds = {0}
  WireNanosec = {0, 1, 9}
  OverflowResults = {7}
  INT32_MAX = 7
SPECIFICATION Spec
CHECK_DEADLOCK FALSE
INVARIANTS TypeOK AssertsHoldWithSource ParamsBeforeReports
