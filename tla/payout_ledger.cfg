SPECIFICATION Spec
CONSTANTS
  p1 = p1
  p2 = p2
  p3 = p3
  ann = ann
  bob = bob
  NoActor = NoActor
  Payouts = {p1, p2, p3}
  Legacy = {}
  Actors = {ann, bob}
  Owners = {ann}
  Requester <- AskedByAnn
  Platform = {p2}
  Methods = {"MANUAL_BANK_TRANSFER"}
  Amount <- Amounts
  InitialBalance = 4
  DailyLimit = 3
  SelfApprovalLimit = 0
  NoSendSelfLimit = 1
  MaxSequence = 2
  Reconcilers = {r1}
  StaleApprovals = FALSE
INVARIANTS BooksAgree WithinDailyLimit ReservationEndsOnce
CHECK_DEADLOCK FALSE
