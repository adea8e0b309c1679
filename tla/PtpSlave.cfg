CONSTANTS
  ADJUST_FIELD = 5
  NS_SEC_PERIOD = 4
  BYTE = 2
  Seconds = {0, 1, 2, 3}
  INT32_MAX = 7
  WireNanosec = {0, 1, 2, 3}
  OverflowResults = {0}
  PTP_MAX_ERR_NS = 1
  RESYNC_COARSE_TIME = 1
  MaxDelay = 2
  MaxTime = 8
  MaxClock = 12
  MaxInFlight = 3
  MaxDups = 1
  MaxRounds = 3
SPECIFICATION SlaveSpec
CHECK_DEADLOCK FALSE
INVARIANTS IntegralFits ReportIsRecent
PROPERTY ImplementsSlaveClock
