SPECIFICATION Spec
CONSTANTS
  p1 = p1
  p2 = p2
  p3 = p3
  ann = ann
  bob = bob
  NoActor = NoActor
  Payouts = {p1}
  Legacy = {p1}
  Actors = {ann, bob}
  Owners = {ann}
  Requester <- AskedByAnn
  Platform = {}
  Methods = {"PAYOS", "MANUAL_BANK_TRANSFER"}
  Amount <- Amounts
  InitialBalance = 3
  DailyLimit = 3
  SelfApprovalLimit = 0
  NoSendSelfLimit = 1
  MaxSequence = 2
  Reconcilers = {r1}
  StaleApprovals = FALSE
INVARIANTS MoneyMatchesLedger
CHECK_DEADLOCK FALSE
