SPECIFICATION ConfirmedSpec
CONSTANTS
  None = None
  q1 = q1
  q2 = q2
  q3 = q3
  p1 = p1
  p2 = p2
  p3 = p3
  d1 = d1
  d2 = d2
  Requests = {q1, q2, q3}
  Drivers = {d1}
  Persons = {p1, p2, p3}
  PersonOf <- OneRidePersonOf
  SeatsNeeded <- OneRideSeatsNeeded
  Minors = {}
  Compatible <- AllCompatible
  SeatChoices = {2, 3}
  MaxInFlight = 0
  MaxEntries = 2
  BatchLimit = 50
  Contended = FALSE
  Leavers = {p2}
  MayDisable = TRUE
  Confirmed <- OneRide
  StartSeats <- OneRideFree
  OpenAtStart = {q2}
INVARIANTS
  HeldSeatsFit
  SeatsFilled
PROPERTIES
  FirstComeFirstServed
CHECK_DEADLOCK FALSE
