SPECIFICATION Spec
CONSTANTS
  None = None
  alice = alice
  bob = bob
  c1 = c1
  c2 = c2
  q1 = q1
  q2 = q2
  Ids = {1, 2, 3}
  PageSize = 1
  ListMax = 2
  Millisecond = 2
  MaxPages = 4
  PageTime = 2
  Runs = {r1}
  MaxFailures = 2
  Versions = {3, 5, 6, 8, 10, 11, 12, 13, 14, 15, 16}
  Unwrapped = {5, 8, 12, 13}
  Table = 10
  Needs <- FilesNeed
  OldVersions = {1, 3, 5, 6, 8, 10, 11, 12, 13, 14, 15, 16}
  MaxCrashes = 2
  Calls = {c1, c2}
  People = {alice, bob}
  System = facade
  Named = {acme}
  Workspace = workspace
  Suspendable = {alice, acme}
  MaxCalls = 3
  MaxCuts = 1
  MaxDepth = 3
  MaxWrites = 4
  Requests = {q1, q2}
  WireAsks <- FetchByGrant
  WireNumbers = {}
  WireSizes = {0}
  WireTime = 3
  Caps = {None, 1}
  MaxSafe = 4
  TtlsAskedFor = {9}
  MaxTtl = 3
  Keys = {1, 2}
  Bytes = 2
  Limit = 1
  MaxPuts = 2
  MaxFaults = 1
  Ttl = 1
  Second = 2
  TokenTime = 4
  PartSize = 3
  Cap = 8
  MaxChunk = 7
  MaxStream = 9
  Revokers = {c1}
  Issuers = {alice}
  Switched = {alice, bob, c1}
  Lifetimes = {1}
  MaxGrants = 2
  MaxHour = 1
  MaxSwitches = 1
  Auditors = {c1, c2}
  Audited = {alice, bob}
  Kept = {1}
  MaxEvents = 2
  MaxDay = 2
  Readers = {c1}
  Metered = {alice}
  Weeks <- TwoWeeks
  Installs = {0, 1}
  FirstDay = 17500
  LastDay = 21300
  Parts = {"pages", "provision", "jobs", "stream", "wire", "copy", "fs", "direct", "units", "schema",
           "unshare", "trail", "usage", "calendar"}
INVARIANTS OwnersAreSafe ChangesAreOnRecord RoundsAreHonest DownloadsAreHonest RedirectsExpire SchemaIsKnown
INVARIANTS ObjectsAreWhole TokensKeepTime UnitsAreWhole  ExportsAreComplete ReportIsHonest
PROPERTIES PagesAreComplete ServicesGoOn
CHECK_DEADLOCK FALSE
