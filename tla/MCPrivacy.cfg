SPECIFICATION Spec
CONSTANTS
  People = {p, q}
  Cleaners = {c1, c2}
  Nobody = Nobody
  LockMayDrop = FALSE
  MaxRequests = 2
  MaxCrashes = 1
  MaxBusy = 0
  MaxCalls = 2
  Docs = {d1, d2}
  NoDoc = NoDoc
  MaxDoing = 1
  MaxReviews = 1
SYMMETRY Alike
CHECK_DEADLOCK FALSE

  
  
PROPERTIES
  CancelledStays
  
