SPECIFICATION Spec
CONSTANTS
  None = None
  olive = olive
  bob = bob
  carol = carol
  home = home
  guests = guests
  HomeOrg = home
  Project = project
  File = file
  MaxDepth = 2
  Actors = {olive, bob, carol}
  Orgs = {home, guests}
  FileOwner = olive
  FileVisibility = "private"
  FileExpires = None
  Sessions = {s1}
  Shares <- Groups
  InitRole <- BobIsGuest
  RoleChanges <- GuestChanges
  Unshared <- CarolsGrants
  Suspendable = {guests}
  Window = 2
  StepAround = 4
  MaxGrants = 3
  MaxDeliveries = 1
  MaxClock = 1
INVARIANTS ListAgrees
PROPERTIES OutsidersStayBelow RolesUnshareAll
SYMMETRY Symmetry
CHECK_DEADLOCK FALSE
