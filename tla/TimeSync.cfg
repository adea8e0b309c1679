CONSTANTS
  ADJUST_FIELD = 16
  NS_SEC_PERIOD = 4
  UINT32 = 6
  RESYNC_COARSE_TIME = 2
  PPS_PERIOD_LOW = 1
  PPS_PERIOD_HIGH = 2
  PPS_LATENCY_CORRECTION_NS = 1
  COARSE_TIME_AGE_MAX = 2
  SYNC_DIFF_BOUNDARY_NS = 1
  PPS_CORRECTION_BOUNDARY = 1
  CoarseTimes = {0, 3}
  Errors = {20}
  MaxUptime = 6
SPECIFICATION Spec
INVARIANTS TypeOK ServiceConsistent
PROPERTY StepsOnFreshCoarse
