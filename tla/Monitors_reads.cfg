\* Two published balances and the minutes between them
SPECIFICATION MonitorsSpec
CONSTANTS
  Changes <- EarnOrSpend
  FirstCredit = 6
  MaxTime = 12
  MaxReqs = 5
INVARIANTS
  ArrivalsExact
  CreditNearlyCurrent
CHECK_DEADLOCK FALSE
