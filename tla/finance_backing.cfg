SPECIFICATION Spec
CONSTANTS
  an = an
  bo = bo
  p1 = p1
  p2 = p2
  o1 = o1
  o2 = o2
  t1 = t1
  Members = {an}
  Payouts = {p1}
  Orders = {o1}
  Transfers = {t1}
  CreditAmount <- Credits
  CoreBalance = 1
  MaxAmount = 2
  MaxObligations = 2
INVARIANTS AvailableIsBacked
CHECK_DEADLOCK FALSE
