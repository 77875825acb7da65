SPECIFICATION Spec
CONSTANTS
  Offers <- MCOffers
  EprCapable <- MCEpr
  WithPps <- MCEpr
  Dell = 2
  ExtCaps = 1
  NoOffer = 0
  LastProbe = 1
  ExtStep = 2
  BatteryStep = 1
  EprPps = TRUE
  Traffic <- MCTraffic
  Budget = 1
  Depth = 2
  MaxRetry = 1
  MaxResets = 1
  MaxAsync = 1
  MaxSvids = 1
CHECK_DEADLOCK FALSE
INVARIANTS TypeOK NeverStuck WholeList
PROPERTIES ContractGranted SoftResetAccepted
