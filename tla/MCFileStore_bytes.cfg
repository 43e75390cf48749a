SPECIFICATION Spec
CONSTANTS
  None = None
  Sessions = {s1, s2, s3}
  Keys = {1}
  Inputs <- Both
  Ttl = 1
  OrphanGrace = 2
  ReservationGrace = 1
  Limit = 1
  Fits = {TRUE, FALSE}
  Stall = 1
  MaxCrashes = 1
  MaxClock = 6
INVARIANTS TypeOK ReadyHasBytes
PROPERTIES ImplementsLife OnlyGarbageIsRemoved
SYMMETRY Symmetry
CHECK_DEADLOCK FALSE
