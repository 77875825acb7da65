SPECIFICATION Spec
CONSTANTS
  Offers <- MCOffers
  EprCapable <- MCEpr
  WithPps = {}
  Dell = 1
  ExtCaps = 1
  NoOffer = 0
  LastProbe = 1
  ExtStep = 2
  BatteryStep = 1
  EprPps = FALSE
  Traffic <- MCOffered
  Budget = 3
  Depth = 1
  MaxRetry = 0
  MaxResets = 0
  MaxAsync = 0
  MaxSvids = 0
CHECK_DEADLOCK FALSE
INVARIANTS EnteredOnce

