SPECIFICATION BackgroundSpec
CONSTANTS
  Parts = {"sweeps", "jobs", "sync", "flow", "sites", "audits"}
  s1 = s1  s2 = s2  j1 = j1  j2 = j2
  ga4 = ga4  gbp = gbp  st2 = st2  y1 = y1  y2 = y2
  w1 = w1  w2 = w2  p1 = p1  p2 = p2
  Provider = {ga4}
  Weeks <- OneDrop
  Sweep = {s1, s2}
  Job = {j1, j2}
  NoKey = nokey
  MaxTransitions = 3
  MaxAdviceFaults = 1
  Resource = {ga4, gbp}
  NoResource = nores
  ProviderOf <- ProviderOfResource
  Reviewed = {gbp}
  GoogleState = {st1, st2}
  Flow = {f1}
  Sync = {y1, y2}
  MaxAuthorizations = 2
  MaxVersion = 2
  MaxGoogleFaults = 1
  Website = {w1, w2}
  NoWebsite = nosite
  IdentityOf <- IdentityOfSite
  SiteRequest = {q1, q2}
  Submitter = {u1, u2}
  Poller = {p1, p2}
  NoSubmitter = nobody
  MaxSiteRequests = 4
  MaxAuditCalls = 3
  MaxAuditFaults = 2
INVARIANTS
  BackgroundTypeOK
  AdviceIsConsistent
  StoredIsTrue
PROPERTIES
  DecisionsStand
  BackgroundSettles
CHECK_DEADLOCK FALSE
