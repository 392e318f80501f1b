SPECIFICATION Spec
CONSTANTS
  WikiOnD <- OneOnD
  WikiBur <- TwoBur
  InitOnD = 1
  InitBur = 1
  L = 2
  H = 3
  BurCounts = {0, 2}
  Credits = {0}
  PreemptSort = TRUE
  DeliveryFails = TRUE
INVARIANTS
  EachInstanceInOneList
  BurstableWeightsInBounds
PROPERTY Lifecycle
CHECK_DEADLOCK FALSE
