SPECIFICATION Spec
CONSTANTS
  x1 = x1
  x2 = x2
  y1 = y1
  y2 = y2
  Members = {p1}
  Orgs = {x1, x2}
  Slugs = {s1}
  NoSlug = NoSlug
  Applications = {y1, y2}
  MaxOpen = 1
  MaxRemovals = 1
  MaxCodes = 1
  LateDomains = FALSE
  MaxDomains = 1
  MaxStops = 1
  Founder = p0
  Newcomers = {x1, x2}
  Invitations = {y1, y2}
  JoinCodes = {c1}
  MaxUses = 1
  PerHour = 2
  Names = {x1, x2}
  Tenants = {y1, y2}
  NoTenant = NoTenant
  Handlers = {w1, w2}
  WebhookEvents = {e1}
  Deployments = {TRUE, FALSE}
  MaxPointings = 1
  MaxOutages = 1
  GoogleItems = {g1}
  MicrosoftItems = {m1}
  Manual = {m}
  None = None
  Workers = {x1, x2}
  Contents <- OneTime
  MaxEdits = 2
  MaxControls = 1
  MaxConnects = 1
  MaxTroubles = 1
SYMMETRY Alike
CHECK_DEADLOCK FALSE

  
  
PROPERTIES
  MembershipsHold
  ClosedInvitationsStay
