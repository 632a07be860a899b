SPECIFICATION FairSpec
CHECK_DEADLOCK FALSE
CONSTANTS
  Preface = 1
  Rounds = 1
  Chunks = 1
  Lines = 1
  InRoom = 1
  OutRoom = 2
  Card = {1, 2, 3}
  Issue = {1, 2}
  Locked = {1}
  PageSize = 2
  MaxNow = 1
  MaxMoves = 1
  MaxFails = 1
  MaxComments = 3
  Proc = {1}
  Task = {1}
  MaxRetries = 5
  UmnicoRetries = 3
  MaxGen = 3
  Loops = {"private", "bearer", "hmac", "umnico"}
  Faults = {"crash", "persist", "timeout", "expire"}
  LockEntries <- FiveEntries
  LockInstallations <- FiveWishes
  LockRevisions = 2
  RoutingRegistries <- OneOrTwo
  RoutingFiles = {"e1", "e2", "a"}
  RoutingPlatforms = {"linux", "windows"}
  RoutingEdits = 1
  SchemasId = {"a", "b"}
  SchemasContents <- FiledContents
  SchemasRegistries <- SixRegistries
  SchemasEdits = 1
  UriAuthorities <- TenAuthorities
  UriTokens <- UrlTokens
  UriPath = 4
  UriQuery = 2
  UriOffers <- FiveSites
  UriList = 2
INVARIANTS RegistriesSound NoTextSwallowed CommentsExplained TokensServe
PROPERTIES BridgeEnds OverdueExpire CallsTerminate
