\* One on-demand and two burstable instances; the table may ask for none, one,
\* or more than there are, so both may drain at once
SPECIFICATION Spec
CONSTANTS
  WikiOnD <- OneOnD
  WikiBur <- TwoBur
  InitOnD = 1
  InitBur = 1
  L = 1
  H = 1
  BurCounts = {0, 3}
  Credits = {0, 3}
  PreemptSort = TRUE
  DeliveryFails = FALSE
INVARIANTS
  TypeOK
  EachInstanceInOneList
  PoolIsStopped
  InUseIsUp
  LedgerMatchesRental
  DrainIndexInRange
  OnDTargetIsAvailable
PROPERTIES
  CreditOrder
  ReloadCoversInUse
  ListsStableUnderShort
  Lifecycle
CHECK_DEADLOCK FALSE
