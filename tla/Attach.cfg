SPECIFICATION FairSpec
CONSTANTS
  QueueLen = 2
  MaxDrain = 2
  BootTime = 2
  BounceTime = 3
  Debounce = 2
  DetMax = 2
  GetSrcTime = 5
  StaleWake = 8
  StaleBounce = 6
  SoftTime = 2
  SoftRetry = 3
  HardTime = 3
  Recovery = 5
  Advance = 4
  Giveup = 4
  Wrap = 11
  MaxCtrl = 1
INVARIANTS
  TypeOK
  LadderInOrder
  ArmedOnCable
  PinsOwned
PROPERTIES
  NeverDisturbed
  FollowsCableOrStuck
  LadderEnds
