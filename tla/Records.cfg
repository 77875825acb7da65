SPECIFICATION Spec
CONSTANTS
  first = first
  second = second
  Wrap = 2
  Values <- MCValues
  Steps <- MCSteps
  Losses = 1
  Updates = 3
  MaxLives = 3
  MaxBoots = 1
SYMMETRY Versions
CHECK_DEADLOCK FALSE
INVARIANTS TypeOK Reported NeverMixed NeverSplit
PROPERTIES FinalReport
