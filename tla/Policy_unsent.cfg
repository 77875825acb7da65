SPECIFICATION Spec
CONSTANTS
  Offers <- MCPlain
  EprCapable = {}
  WithPps = {}
  Dell = 1
  ExtCaps = 1
  NoOffer = 0
  LastProbe = 2
  ExtStep = 2
  BatteryStep = 2
  EprPps = FALSE
  Traffic = {}
  Budget = 0
  Depth = 1
  MaxRetry = 1
  MaxResets = 1
  MaxAsync = 1
  MaxSvids = 1
CHECK_DEADLOCK FALSE
PROPERTIES NoAnswerMeansSent
