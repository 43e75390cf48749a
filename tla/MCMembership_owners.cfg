SPECIFICATION Spec
CONSTANTS
  None = None
  olga = olga
  adam = adam
  nina = nina
  home = home
  Orgs = {home}
  Actors = {olga, adam, nina}
  Sessions = {s1, s2}
  InitRole <- Paper
  Suspendable = {olga, adam}
  Provisioned <- Newcomers
INVARIANTS TypeOK OwnerOnPaper
PROPERTIES RanksHold
SYMMETRY Symmetry
CHECK_DEADLOCK FALSE
