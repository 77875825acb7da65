SPECIFICATION FairSpec
CONSTANTS
  QueueLen = 2
  MaxMsg = 3
  Caps <- MCOneCap
  Pre <- MCPre
  MaxSends = 4
  MaxCable = 0
  MaxResets = 1
  MaxTx = 1
PROPERTIES AckedKept DrainsOrStranded
CHECK_DEADLOCK FALSE
