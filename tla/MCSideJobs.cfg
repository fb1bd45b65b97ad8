SPECIFICATION SideSpec
CONSTANTS
  follow = follow
  cheer = cheer
  fan = fan
  h1 = h1
  h2 = h2
  y1 = y1
  y2 = y2
  Messages <- TwoMessages
  Users <- OneUser
  Follows <- OneFollow
  UserOf <- UserOfFollow
  Handlers <- TwoHandlers
  MaxAge = 1
  DedupTTL = 1
  SenderAhead = 0
  DbAhead = 0
  MaxDelay = 1
  MaxTime = 4
  Lives = {1, 2, 3}
  Old = {1}
  NoReport = NoReport
  NoSweep = NoSweep
  MaxMark = 2
  MaxWrites = 2
  Callers = {"cb", "clip"}
  Callback = "cb"
  Accounts = {"u"}
  MaxTokens = 3
  Backfill <- TwoSteps
  AddOnly = {"vips"}
  Syncs <- TwoSyncs
  Kinds = {"tip", "merch"}
  PageCap = 1
  MaxSales = 2
  MaxClock = 1
  MaxFailures = 1
  MaxClips = 1
  MaxMessages = 2
  MaxSeconds = 1
  MaxTrouble = 2
  MergeGap = 1
  MinNonspeech = 3
  FileSeconds = 8
  MaxSpans = 3
  MaxAttempts = 2
  NoPiece = NoPiece
  MaxSegment = 3
  MaxTakes = 3
INVARIANTS
  RepeatsSpaced
  TableIsAWindow
  AnsweredAccountedFor
  BestMarkKept
  DeadGrantWasLost
  RefusalExplained
  SyncStoresItsWindow
  ChatAccounted
  SoundKept
  SpeechKept
SYMMETRY SameActors
CHECK_DEADLOCK FALSE
