SPECIFICATION Spec
CONSTANTS
  QueueLen = 2
  MaxMsg = 3
  Caps <- MCCaps
  Pre <- MCPre
  MaxSends = 4
  MaxCable = 1
  MaxResets = 1
  MaxTx = 2
INVARIANTS TypeOK RingCoherent SeqExact PostTxFresh
PROPERTY InOrder
CHECK_DEADLOCK FALSE
