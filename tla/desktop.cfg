SPECIFICATION DesktopSpec
CONSTANTS
  Parts = {"database", "search", "ai", "rules", "queries", "cache", "fetch", "api"}
  None = none
  none = none
  NoRow = none
  Gone = none
  Openers = {p1, p2}
  Builds <- MCBuilds
  LastSecond = 1
  MaxBackups = 2
  Articles = {a1, a2}
  Feeds = {f1, f2}
  Tags = {g1}
  Words = {w1, w2}
  CustomNames = {w2}
  UserStates <- MCUserStates
  Times = {1, 2}
  ApiRequests <- MCApiRequests
  DefaultLimit = 1
  MaxLimit = 2
  Commands <- MCCommands
  FeedOrder <- MCFeedOrder
  RowVersions <- MCRowVersions
  Allowed <- MCAllowed
  Selected <- MCSelected
  ContextLimit = 2
  NoText = none
  BlankText = " "
  Asks <- MCAsks
  Inside <- MCInside
  Across <- MCAcross
  Instants <- MCInstants
  ReaderInstants <- MCReaderInstants
  Values <- MCValues
  Samples <- MCSamples
  MaxDepth = 3
  MaxNesting = 4
  Trim <- MCTrim
  Blank = " "
  Root = "root"
  Rules <- MCRules
  FirstArticles <- MCFirstArticles
  AuditTimes = {1, 2}
  MaxAudits = 2
  MaxEdits = 1
  Inventory <- MCInventory
  ShellArticles = {"r1", "r2"}
  ShellFeeds = {"s1", "s2"}
  ShellTags = {"g"}
  CacheBudgets <- MCCacheBudgets
  PolicyEdits <- MCPolicyEdits
  StateEdits <- MCStateEdits
  Notes <- MCNotes
  BatchInputs <- MCBatchInputs
  NoAttachment = none
  NoDate = none
  Pages <- MCPages
  MaxAttempts = 2
  Missing = none
  OnlySpace = " "
  Moments <- MCMoments
  Meanings <- MCMeanings
  Clients = {k1, k2}
  Requests <- MCRequests
  Wake = wake
  Token = "token"
INVARIANTS
  DesktopTypeOK
  UpgradesAreSafe
  ListsAgreeAtWork
  AnswersFitInputs
  AuditExplainsRun
  ReaderAgreesAtWork
  CacheIsSoundAtWork
  FetchTellsAnswerAtWork
PROPERTIES
  ApiAnswersAndStops
CHECK_DEADLOCK FALSE
