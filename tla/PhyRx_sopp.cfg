SPECIFICATION Spec
CONSTANTS
  QueueLen = 2
  MaxMsg = 3
  Caps <- MCCaps
  Pre <- MCPre
  MaxSends = 3
  MaxCable = 1
  MaxResets = 0
  MaxTx = 1
INVARIANT SoppPassive
CHECK_DEADLOCK FALSE
