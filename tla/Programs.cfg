SPECIFICATION Spec
CHECK_DEADLOCK FALSE
SYMMETRY AnyOfTwo
CONSTANTS
  MirrorDiscussion = {1, 2, 3}
  MirrorCategories <- TwoCategories
  MirrorCategoryOf <- CategoryOfThree
  MirrorAll = FALSE
  MirrorPage = 1
  MirrorTouches = 4
  MirrorRuns = 1
  IssuesDraft = {p, q}
  IssuesId = {1}
  IssuesNoId = 0
  IssuesImports = 2
  IssuesSyncs = 1
  IssuesStops = TRUE
  VaultNames <- FiveNames
  VaultWrites = 2
  VaultRuns = 2
  VaultGcs = 2
  VaultNow = 2
  NotesCall = {p, q}
  NotesPath <- Paths
  NotesHome <- HomeMaps
  NotesMocs <- TwoMocs
  NotesVaults <- TwoVaults
  NotesRequests <- FiveRequests
  NotesEdits = 1
  GoogleLocal = "local"
  GoogleRemote = "remote"
  GoogleHome = {1, 2}
  GoogleProc = {p, q}
  GoogleRuns = 2
  GoogleTokens = 2
  GrantPlan <- ThreePlans
  GrantNonce = {p, q}
  GrantLife = 2
  GrantSnapLife = 2
  GrantNow = 3
  GrantSnaps = 2
  GrantCount = 2
  GrantLives = 2
  FirefoxLaunchers = {1, 2, 3}
  GetcourseCall = {1, 2, 3}
  GetcourseAttempts = 2
  GetcourseExports = 2
  KeysConsumer = {p, q}
  KeysId = {"k1", "k2"}
  KeysKey <- SixKeys
  KeysRoot = {"root"}
  KeysTime = {0, 1}
  KeysNull = 9
  KeysSets = 3
  ReceiptJti = {p, q}
  ReceiptRequest = {p, q}
  ReceiptMetadata = {"m"}
  ReceiptKid = {"k"}
  ReceiptAuthority = {"a"}
  ReceiptExpected = "a"
  ReceiptSkew = 1
  ReceiptTtl = 1
  ReceiptAge = 1
  ReceiptAhead = 1
  ReceiptKept = 3
  ReceiptRows = 1
  ReceiptNow = 4
  AppsItem = {1, 2}
  AppsId <- OneId
  AppsThread = {p, q}
  AppsChanges = 1
  AppsCalls = 3
  ImportFiles = 2
  ImportProc = {p, q}
  ImportLimits = {0, 1, 9}
  ImportNoLimit = 9
  ImportEdits = 2
  ImportCalls = 3
  RecoveryFile = {"s", "rclone.conf", "c", "o"}
  RecoveryPlace <- SecretPlaces
  RecoveryConfig = "rclone.conf"
  RecoveryWrites = 3
  RecoveryRuns = 3
  SuitePublished <- AsWritten
  SuiteCorpora <- Variants
  SuiteUnread <- Gone
  SuiteAnswered <- Answers
  SuiteChanges = 1
  BizonRecording = {"r1", "r2"}
  BizonCalls = 3
  BizonSteps = 2
  CallsServer = {"s", "t"}
  CallsRequests <- ToolRequests
  CallsMax = 2
  LegacyMail = {"a", "b"}
  LegacySources <- Olds
  LegacyNoSlug = 0
  LegacyNobody <- NULL
  LegacyRuns = 2
  LegacyChanges = 1
  LegacyUsers = 2
  DbaCommand = {p, q}
  DbaRow = {1}
  DbaNow = 1
  DbaWrites = 1
  LocalCommand = {1, 2, 3}
  LocalWorkspace = {"w"}
  LocalSmokes = 1
  StackRun = {p, q}
  StackEnv <- Environments
  StackClient = {"web", "spa"}
  StackEdits = 1
  StackFaults = 1
  DeployProc = {p, q}
  DeployUnits <- TwoServices
  DeployHosts <- FiveHosts
  DeployDir = {1}
  DeploySource = 2
  DeployFaults = 1
INVARIANTS VaultKept MirrorsAccounted DbaExact NotesKept CredentialsKept ContractsHold ServicesAccounted OneServer DeploymentsTrue  FetchFaithful ImportsAccounted BundleFaithful
