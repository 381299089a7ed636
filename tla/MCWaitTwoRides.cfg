SPECIFICATION ConfirmedFairSpec
CONSTANTS
  None = None
  q1 = q1
  q2 = q2
  q3 = q3
  p1 = p1
  p2 = p2
  p3 = p3
  d1 = d1
  d2 = d2
  Requests = {q1, q2, q3}
  Drivers = {d1, d2}
  Persons = {p1, p2, p3}
  PersonOf <- TwoRidesPersonOf
  SeatsNeeded <- OneSeatEach
  Minors = {q3}
  Compatible <- AllCompatible
  SeatChoices = {1}
  MaxInFlight = 0
  MaxEntries = 1
  BatchLimit = 50
  Contended = TRUE
  Leavers = {}
  MayDisable = FALSE
  Confirmed <- TwoRides
  StartSeats <- FirstRideFull
  OpenAtStart = {}
INVARIANTS
  GuardianFirst
PROPERTIES
  PlaceIsKept
  EveryWaitEnds
CHECK_DEADLOCK FALSE
