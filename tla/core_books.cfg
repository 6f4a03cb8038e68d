SPECIFICATION BooksSpec
CONSTANTS
  kim = kim
  livetag = livetag
  official = official
  ana = ana
  bo = bo
  cy = cy
  CoreUsers = {kim}
  CoreOrders = {ord1}
  ClickedBy <- Clicks
  CoreSources = {livetag, official}
  Authority <- Weights
  Ingesters = {i1, i2}
  ReportStatuses = {"delivered", "validated", "rejected"}
  Commissions = {2, 4}
  DailyRelease = 2
  MaxClock = 2
  MaxRevisions = 1
  RejectedFirst = FALSE
  Adjustments = {a1}
  Staff = {ana, bo, cy}
  AdjustmentAmounts <- Amounts
SYMMETRY ActorSymmetry
CONSTRAINT RacesAreEarly
INVARIANTS BooksTypeOK PendingIsOwed PostedByThreePeople AvailableIsAccountedFor
PROPERTIES ReleasesValidated
CHECK_DEADLOCK FALSE
