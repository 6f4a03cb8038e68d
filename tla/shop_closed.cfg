SPECIFICATION TenancySpec
CONSTANTS
  Shops = {s1}
  Joiners = {j1}
  Bills = {b1}
  Transactions = {x1}
  TrialDays = 1
  BillDays = 2
  BillLife = 1
  AdjustDays = 1
  Seats <- SeatsOfPlan
  MaxDay = 1
PROPERTIES ClosedShopsStayClosed
CHECK_DEADLOCK FALSE
