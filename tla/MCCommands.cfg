\* Receipts with crashes, receipts with readers, the commands that look, import
\* and init, and what a deploy reads.
SPECIFICATION Spec
CONSTANTS
  w1 = w1  w2 = w2  kept = kept  stray = stray  sha1 = sha1  sha2 = sha2
  web = web  api = api  db = db  me = me  them = them  shop = shop
  debug = debug  left = left  r1 = r1
  Unset = Unset  Junk = Junk  Blank = Blank  NoFile = NoFile  Absent = Absent
  Digest = {sha1, sha2}
  Writer = {w1, w2}
  Prior = {kept, stray}
  Path = {0, 1, 2, 3}
  Reader = {reader}
  OwnPath <- MCOwnPath
  FilePath = 3
  Receipts <- MCReceipts
  Found <- MCFound
  Requests <- MCRequests
  Deleted = {1}
  Run = {r1}
  Service <- MCService
  Name <- MCName
  CName <- MCCName
  SortedAs <- MCSorted
  Profile = {debug}
  Net = {}
  ExtNet = {}
  Vol = {}
  HTTPProbe = {web}
  ExecProbe = {api}
  Published = {web}
  Viewed <- MCViewed
  Questions <- MCQuestions
  Initially <- MCInitially
  MaxMoves = 2
  Token <- MCToken
  EnvPath = {1, 2}
  DefaultFiles <- MCDefaultFiles
  OSEnv <- MCOSEnv
  ContractTexts <- MCContractTexts
  EnvTexts <- MCEnvTexts
  Named = {Nothing, "web"}
  MaxEdits = 2
  Nothing = Nothing  Garbled = Garbled
  ComposeFile = {"main", "other", "sub", "deep"}
  DirOf <- MCDirOf
  WellKnown <- MCWellKnown
  NameOrder <- MCNameOrder
  MaxIncludeDepth = 3
  Projects <- MCProjects
  Orders <- MCOrders
  None = None  Elsewhere = Elsewhere  Malformed = Malformed  Theirs = Theirs  Template = Template
  Stub = Stub  Truncated = Truncated
INVARIANTS
  TypeOK
  ComparisonIsHonest
  QuietReportIsTrue
  EveryClaimWasTrue
  ImportVerdictIsRight
  NearestDefinitionWins
  ImportedEdgesAreRight
  TargetIsSafe
PROPERTIES
  StoreIsAtomic
  AckedSurvives
  InventoryIsHonest
  ObservationEnds
  LoadsAreFresh
CHECK_DEADLOCK FALSE
