\* The gains of config.json in hundredths, a rounding error of one hundredth, two
\* on-demand machines created, a table of four rows
SPECIFICATION Spec
CONSTANTS
  One = 100
  Eps = 1
  P_m = 1
  D_m = 20
  DesiredCredit = 60
  CreditTotals = {0, 50, 60, 75}
  Demands = {10, 11, 26, 41}
  Created = 2
  Table <- SmallTable
INVARIANTS
  TypeOK
  TargetExists
  LeastEnough
PROPERTIES
  AtMostTwoAtATime
  OrdersFollowCredits
