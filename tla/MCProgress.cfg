SPECIFICATION Spec
CONSTANTS
  People = {p, q}
  Cleaners = {c1}
  Nobody = Nobody
  LockMayDrop = TRUE
  MaxRequests = 1
  MaxCrashes = 1
  MaxBusy = 2
  MaxCalls = 0
  Docs = {d1}
  NoDoc = NoDoc
  MaxDoing = 1
  MaxReviews = 1
  Members = {p1}
  Orgs = {o1}
  Slugs = {s1}
  NoSlug = NoSlug
  Applications = {a1}
  MaxOpen = 1
  MaxRemovals = 1
  MaxCodes = 1
  LateDomains = TRUE
  MaxDomains = 1
  MaxStops = 1
  GoogleItems = {g1}
  MicrosoftItems = {}
  Manual = {}
  None = None
  Workers = {w1, w2}
  Contents <- OneTime
  MaxEdits = 2
  MaxControls = 1
  MaxConnects = 2
  MaxTroubles = 1
  Communities = {k1}
  NoCommunity = NoCommunity
  Scheduled = sched
  Removals = {r1, r2}
  MaxMishaps = 1
  MaxChecks = 1
PROPERTIES
  
  LeftoversGo
  
  
CHECK_DEADLOCK FALSE
