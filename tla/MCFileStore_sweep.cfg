SPECIFICATION FairSpec
CONSTANTS
  None = None
  Sessions = {s1}
  Keys = {1, 2}
  Inputs <- Plain
  Ttl = 1
  OrphanGrace = 2
  ReservationGrace = 1
  Limit = 1
  Fits = {TRUE}
  Stall = 1
  MaxCrashes = 1
  MaxClock = 4
PROPERTIES OrphansAreCollected
CHECK_DEADLOCK FALSE
