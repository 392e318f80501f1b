SPECIFICATION Spec
CONSTANTS
  Changes <- EarnOrSpend
  FirstCredit = 6
  MaxTime = 13
INVARIANT CreditFollowsCPU
CHECK_DEADLOCK FALSE
