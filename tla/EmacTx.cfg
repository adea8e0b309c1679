CONSTANTS
  N_TX_DESC = 3
  MaxChain = 2
  TX_LOW = 1
SPECIFICATION Spec
INVARIANTS TypeOK SlotsMatchRing OpenBdsAreHeld NoFrameHalfOpen CompleteIsSent
PROPERTIES BlockingOkMeansSent WaitEnds
