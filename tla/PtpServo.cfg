CONSTANTS
  ADJUST_FIELD = 536
  NS_SEC_PERIOD = 500
  PTP_MAX_ERR_NS = 1
  RESYNC_COARSE_TIME = 1
  INT32_MAX = 1073
  OverflowResults = {0, 1073}
  MaxStartSeconds = 2
  Phases = {0, 1, 250, 499}
  MasterSteps = {1}
  MaxSteps = 2
SPECIFICATION FairSpec
INVARIANTS TypeOK NeverDrivenOut CorrectionFits IntegralSurvivesAStep
PROPERTY EventuallyFine
