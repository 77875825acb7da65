SPECIFICATION FairSpec
CONSTANTS
  Offers <- MCEpr
  EprCapable <- MCEpr
  WithPps = {}
  Dell = 2
  ExtCaps = 2
  NoOffer = 0
  LastProbe = 2
  ExtStep = 2
  BatteryStep = 1
  EprPps = FALSE
  Traffic <- MCOwn
  Budget = 1
  Depth = 1
  MaxRetry = 1
  MaxResets = 1
  MaxAsync = 1
  MaxSvids = 2
INVARIANTS PassMeansAnswered ModesInRange OneSetOnce
CHECK_DEADLOCK FALSE
PROPERTIES LeftAlone
