SPECIFICATION Spec
CONSTANTS
  None = None
  olive = olive
  bob = bob
  carol = carol
  home = home
  guests = guests
  HomeOrg = home
  Project = project
  File = file
  MaxDepth = 2
  Actors = {olive}
  Orgs = {home}
  FileOwner = olive
  FileVisibility = "private"
  FileExpires = None
  Sessions = {s1, s2}
  Shares <- Clicks
  InitRole <- OwnerOnly
  RoleChanges = {}
  Unshared = {}
  Suspendable = {}
  Window = 2
  StepAround = 2
  MaxGrants = 4
  MaxDeliveries = 0
  MaxClock = 4
INVARIANTS OneGrantPerShare AnswersAreTrue
SYMMETRY Symmetry
CHECK_DEADLOCK FALSE
