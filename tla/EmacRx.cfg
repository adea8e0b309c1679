CONSTANTS
  N_RX_DESC = 3
  Pbufs = {p1, p2, p3, p4, p5}
  NULL = NULL
  PQ_QUEUE_SIZE = 2
  MaxHeld = 3
  BD_SPACE = 8
  CHAINS = 4
  MaxErrors = 2
SPECIFICATION Spec
CHECK_DEADLOCK FALSE
SYMMETRY PbufSymmetry
INVARIANTS TypeOK OneOwner SafeUntilDry InStep NeverWedged
PROPERTIES DeafUntilError DryOnlyWhenShort ImplementsPbufLife
