CONSTANTS
  N_RX_DESC = 1
  Pbufs = {p1, p2}
  NULL = NULL
  PQ_QUEUE_SIZE = 1
  MaxHeld = 0
  BD_SPACE = 32
  CHAINS = 4
  MaxErrors = 8
SPECIFICATION Spec
SYMMETRY PbufSymmetry
INVARIANT BdSpaceSuffices
