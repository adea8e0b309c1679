CONSTANTS
  NS_SEC_PERIOD = 2
  BYTE = 4
  Seconds = {0, 5}
  WireNanosec = {0, 1, 2, 63, 66, 128, 200}
  OverflowResults = {1, 127}
  INT32_MAX = 127
SPECIFICATION Spec
CHECK_DEADLOCK FALSE
INVARIANTS TypeOK SyncedTracksT4 Int32Safe DelayReqCarriesT3
