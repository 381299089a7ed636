SPECIFICATION Spec
CONSTANTS
  x1 = x1
  x2 = x2
  y1 = y1
  y2 = y2
  Numbers = {x1, x2}
  NoNumber = NoNumber
  Payers = {o1}
  NoPayer = NoPayer
  Texts = {y1, y2}
  OTP_LIMIT = 1
  TEXT_LIMIT = 1
  Caps = {0, 1}
  MaxConsents = 2
  MaxReported = 1
  MaxLimits = 1
  MaxAgeing = 1
  Rides = {r1}
  Riders = {p1}
  Runners = {x1, x2}
  Others = {n1}
  Types = {"platform_test", "organization_removed"}
  LockMayDrop = TRUE
  Profiles <- SomeProfiles
  MaxTries = 2
  MaxRuns = 2
  MaxChanges = 1
  Sessions = {s1}
  NoSession = NoSession
  SponsorRows = {x1, x2}
  SPONSOR_LIMIT = 1
  Faults = {"fails", "late", "dies"}
  MaxFaults = 2
  Ideas = {x1, x2}
  Voters = {v1}
  NoIdea = NoIdea
  Proposers = {p1}
  Guardians = {}
  Proposals = {y1, y2, y3}
  Drafts = {d1}
  PROPOSALS_PER_DAY = 2
  OPEN_PROPOSALS_MAX = 2
  MaxEvents = 2
  GatewayJobs = {x1, x2}
  DocumentJobs = {d1}
  Budgets = {3, 4}
  Reservation = 2
  Costs = {1, 3}
  MaxSettings = 2
  MaxLosses = 1
  MaxMonths = 1
SYMMETRY Alike
CHECK_DEADLOCK FALSE
INVARIANTS
  TextsKeepTheRules
  NoticesArrive
  
  ProposalsInOrder
PROPERTIES
  WhatWasSaidStays
  BudgetIsKept
  IdeasKeepTheRules
