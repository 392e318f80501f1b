\* Two requests in flight over three servers
SPECIFICATION Spec
CONSTANTS
  Weights <- Mixed
  Requests = {r1, r2}
  MaxFails = 1
  FailTimeout = 1
  MaxTime = 4
SYMMETRY Symmetry
INVARIANTS
  TypeOK
  ConnsAreRequests
  SmoothWeightsBalance
PROPERTIES
  NeverOverloads
  OneTrialPerTimeout
