CONSTANTS
  N_TX_DESC = 3
  MaxChain = 2
  TX_LOW = 1
SPECIFICATION Spec
PROPERTY SentIsAcknowledged
