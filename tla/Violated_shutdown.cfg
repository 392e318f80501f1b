SPECIFICATION LongSpec
CONSTANTS
  WikiOnD <- OneOnD
  WikiBur <- TwoBur
  InitOnD = 1
  InitBur = 1
  L = 1
  H = 1
  BurCounts = {1, 2}
  Credits = {0}
  PreemptSort = TRUE
  DeliveryFails = FALSE
PROPERTY EndsTerminated
CHECK_DEADLOCK FALSE
