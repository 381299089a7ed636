SPECIFICATION Spec
CONSTANTS
  None = None
  NoOne = NoOne
  q1 = q1
  q2 = q2
  q3 = q3
  p1 = p1
  p2 = p2
  p3 = p3
  p4 = p4
  a = a
  b = b
  e1 = e1
  e2 = e2
  t1 = t1
  t2 = t2
  d1 = d1
  d2 = d2
  Requests = {q1, q2, q3}
  Drivers = {d1, d2}
  Persons = {p1, p2}
  PersonOf <- MCSamePerson
  SeatsNeeded <- MCSeatsNeeded
  Minors = {q2}
  Compatible <- AllCompatible
  SeatChoices = {3}
  MaxInFlight = 2
  Riders = {p1, p2}
  Primary = p1
  OrgRequires = FALSE
  Guarded = {p1}
  MaxShakes = 2
  MaxStarts = 2
  Rides = {a, b}
  Entries = {e1, e2}
  People = {p1, p2, p3, p4}
  CarriedBy <- TwoCarriedBy
  Waiters = {p1, p2}
  PrimaryOf <- TwoPrimaries
  Transactions = {t1, t2}
  Handlers = {"joinWaitlist", "answer", "acceptStandbyOffer", "processRideWaitlist", "attachRequestToRide", "removeRequestFromRide", "transitionRide"}
  MayDisable = FALSE
  MayWaitTwice = FALSE
SYMMETRY Alike
CHECK_DEADLOCK FALSE
INVARIANTS
  RideTypeOK
  
  SeatedIsAboard
  OneOfferAccepted
  SeatsFollowRequests
  PickupIsProven
  

  
