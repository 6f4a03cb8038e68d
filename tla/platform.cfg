SPECIFICATION MCSpec
CONSTANTS
  m1 = m1
  m2 = m2
  g1 = g1
  g2 = g2
  z1 = z1
  b1 = b1
  b2 = b2
  dr1 = dr1
  dr2 = dr2
  p1 = p1
  p2 = p2
  SyncRuns = {p1, p2}
  Rows <- RowNumbers
  Lag = 1
  Overlap = 2
  Reach = 4
  PageSize = 1
  MaxPages = 2
  MaxSyncTime = 5
  own = own
  house = house
  counter = counter
  r1 = r1
  r2 = r2
  r3 = r3
  odd = odd
  twice = twice
  r4 = r4
  r5 = r5
  Uploads = {p1, p2}
  Files = {own, house, counter, odd, twice}
  FileRows <- RowsOfFile
  FileKind <- KindOfFile
  ItemOf <- KeyOfRow
  Uncompleted = {r3}
  Malformed = {r4, r3}
  Clicked = {r1, r2}
  koc = koc
  sale = sale
  k1 = k1
  k2 = k2
  k3 = k3
  k4 = k4
  LinkShops = {koc, sale}
  AffiliateIds = {af1}
  Shares = {6, 7}
  LinkCalls = {p1, p2}
  LinkKeys = {k1, k2, k3, k4}
  Contents = {q1, q2}
  BuyersShop <- ShopOfKey
  OwnersKeys = {k4}
  MaxSettings = 2
  Notices = {n1}
  Replies = {rep1}
  Dispatchers = {p1, p2}
  Retries = 1
  Lease = 2
  Lifetime = 1
  MaxOutboxClock = 3
  sh1 = sh1
  sh2 = sh2
  mia = mia
  noa = noa
  zoe = zoe
  ChatShops = {sh1, sh2}
  Members = {mia, noa, zoe}
  ShopOf <- Homes
  Chats = {g1, g2}
  Senders = {z1, z2}
  GroupCodes = {gc1}
  UserTokens = {t1}
  ChatMessages = {m1, m2}
  Deliveries = {p1, p2}
  People = {per1}
  Handlers = {h1}
  Admins = {p1, p2}
  InviteIds = {inv1}
  NewStatuses = {"ACTIVE", "CLOSED"}
  PublicEntry = FALSE
  MaxVersion = 3
  Shops = {s1}
  Joiners = {j1, j2}
  Bills = {b1, b2}
  Transactions = {p1, p2}
  TrialDays = 1
  BillDays = 2
  BillLife = 1
  AdjustDays = 1
  Seats <- SeatsOfPlan
  MaxDay = 1
  Topups = {o1}
  Requests = {dr1, dr2}
  DeletionCalls = {p1, p2}
  Places = {wallet, treasury}
  Checks = {p1, p2}
  SessionTime = 2
  CacheTime = 1
  CallTime = 1
  MaxAccessClock = 3
  pa1 = pa1
  pa2 = pa2
  ProviderAccounts = {pa1, pa2}
  NetworkOf <- NetworkOfAccount
  Environment = {"ACCESSTRADE"}
  ConnectorJobs = {p1, p2}
  Freshness = 1
  JobTime = 1
  MaxCredential = 1
  MaxConnectorClock = 4
  c1 = c1
  c2 = c2
  Deals <- DealNumbers
  DealTexts = {c1, c2}
  OfferRuns = {p1, p2}
  OfferPage = 1
  MaxOfferPages = 2
  MaxTries = 2
  OfferLife = 1
  OfferTime = 1
  MaxOfferClock = 3
  boss = boss
  Persons = {boss, an}
  ShopTenants = {sh1}
  Master = hq
  MasterOwner = boss
  Delays = 2
SYMMETRY ProcessSymmetry
CONSTRAINTS OneReader LateRounds InvitesFirst OneKindAtATime JoinsOrBills FirstComesFirst BindAndAsk GroupsOrMembers SetUpFirst PlainMerchant PlainBoss RevokedOrBarred PlainOffers
INVARIANTS PlatformTypeOK NothingMissedBehindTheCursor RoundsAreComplete ImportsTellTheTruth LinksAreIdempotent LinksPayTheirShop MessagesAreNotRepeated ReceiptsMeanReplies ChatsServeTheirOwn BlockedIsBarred PaidDaysAreServed TopupsAreSafe DeletionsWereClear
PROPERTIES AuthorityIsCurrent AccountsFollowClerk SeatsAreRespected ProvidersAreTrustedInTime
CHECK_DEADLOCK FALSE
