SPECIFICATION RequestsSpec
CONSTANTS
  Parts = {"chunking", "tenancy", "agency", "webhooks", "keys", "comparison",
           "budget", "alone", "together", "access", "mart", "drafts",
           "queries", "analytics", "pipeline", "snapshot", "flags",
           "prompts", "knowledge", "chat", "website"}
  orgA = orgA  orgB = orgB
  l1 = l1  l2 = l2
  cb1 = cb1  cb2 = cb2
  st = st
  n1 = n1  n2 = n2
  r1 = r1
  u1 = u1
  Char = {"x", "_"}
  Blank = "_"
  MaxLen = 10
  Targets = {3, 5, 6}
  Overlaps = {0, 1, 2, 3, 4, 5}
  Limits = {2, 9}
  Texts <- AllTexts
  Options <- AllOptions
  Org = {orgA, orgB}
  NoOrg = noorg
  Location = {l1, l2}
  NoLoc = noloc
  SlugOrg <- SlugOfLocation
  OauthState = {st}
  StateOrg <- OrgOfState
  NoState = nostate
  Callback = {cb1, cb2}
  Caller = {c1, c2}
  MaxTokens = 3
  MaxCallbacks = 2
  MaxLost = 1
  Notification = {n1, n2}
  KindOf <- KindOfNotification
  Tenant = {orgA, orgB}
  NoTenant = notenant
  Delivery = {d1, d2}
  Unsent = unsent
  SecretConfigured = TRUE
  MaxDeliveries = 3
  MaxHandovers = 3
  Key = {k1, k2, k3}
  NoKey = nokey
  KeyLocation = {l1, l2}
  Provisioner = {p1, p2}
  MaxKeyEvents = 3
  Domain = {x1, x2}
  NoDomain = nodomain
  Editor = {e1, e2}
  Limit = 1
  MaxRows = 3
  MaxComparisonCalls = 4
  Call = {m1, m2}
  Budget = {day}
  BudgetLimits = {2, 3}
  ChainLength = 2
  MaxCost = 2
  SoftNum = 1
  SoftDen = 2
  MaxSpend = 3
  MaxTurns = 1
  MaxCallFaults = 1
  MaxChanges = 1
  Request = {r1, r2}
  Tool = {live, other}
  LiveCheck = live
  Window = 4
  UserWindow = 1
  MaxIterations = 2
  MaxQuestions = 2
  User = {u1, u2, dash}
  Dashboard = dash
  Manager = {g1, g2}
  NoManager = nobody
  MaxAccess = 3
  Refresher = {f1, f2}
  Reporter = {b1}
  Author = {w1, w2}
  NoAuthor = noauthor
  Insight <- TwoInsights
  Title = {t1}
  LastDay = 3
  WindowDays = 2
  MaxMoves = 4
  Property = {y1, y2}
  MaxDay = 3
  MaxDays = 2
  PageSize = 2
  MaxRecords = 4
  MaxOpportunities = 4
  MaxSite = 2
  MaxStores = 2
  AppProcess = {a1, a2}
  Toggler = {h1, h2}
  FlagDefault = FALSE
  Ttl = 1
  MaxTime = 1
  Piece = {"text", "name", "city", "day"}
  Variable = {"name", "city"}
  Template <- TwoTemplates
  MaxToggles = 2
  Organization = {orgA, orgB}
  Shared = shared
  Fact = {k1}
  ReachTtl = 1
  LastTick = 2
  MaxKnowledgeChanges = 3
  Histories <- FiveHistories
  MaxPrior = 2
  MaxWords = 2
  Visit = {v1}
  Inquiry = {i1, i2}
  Form = {z1, z2}
  NoForm = noform
  VisitWindow = 2
  MaxInquiries = 3
  MaxInquiryFaults = 1
INVARIANTS
  TypeOK
  ChunksBounded
  RefusedOnlyIfLong
  ShortWordsKept
  RequestsTypeOK
  TenantsKeptApart
  LimitsHold
  AnswersAreHonest
PROPERTIES
  StepsKeepTheirBounds
CHECK_DEADLOCK FALSE
