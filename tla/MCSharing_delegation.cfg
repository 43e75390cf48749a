SPECIFICATION Spec
CONSTANTS
  None = None
  olive = olive
  bob = bob
  carol = carol
  home = home
  guests = guests
  HomeOrg = home
  Project = project
  File = file
  MaxDepth = 2
  Actors = {olive, bob, carol}
  Orgs = {home}
  FileOwner = olive
  FileVisibility = "private"
  FileExpires = None
  Sessions = {s1, s2}
  Shares <- Delegation
  InitRole <- OwnerOnly
  RoleChanges = {}
  Unshared = {}
  Suspendable = {}
  Window = 2
  StepAround = 4
  MaxGrants = 3
  MaxDeliveries = 2
  MaxClock = 0
INVARIANTS TypeOK Attenuated BudgetIsShared ChainsAreBounded RetriesShareOneCap
PROPERTIES RevocationIsFinal ImplementsLedger
SYMMETRY Symmetry
CHECK_DEADLOCK FALSE
