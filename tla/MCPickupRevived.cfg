SPECIFICATION PickupSpec
CONSTANTS
  p1 = p1
  p2 = p2
  Riders = {p1, p2}
  Primary = p1
  OrgRequires = FALSE
  Guarded = {}
  MaxShakes = 1
  MaxStarts = 1
PROPERTIES
  EndedStaysEnded
CHECK_DEADLOCK FALSE
