SPECIFICATION PartSpec
CONSTANTS
  c1 = c1
  c2 = c2
  r1 = r1
  r2 = r2
  NoRun = NoRun
  NoMail = NoMail
  Channels <- OneChannel
  Runs <- TwoRuns
  Offsets = {0, 1}
  Day = 3
  Week = 3
  SendHour = 1
  MaxHour = 3
  MaxFaults = 2
  MaxMoves = 1
  NoLogin = NoLogin
  Worlds <- FiveWorlds
  Lower <- LowerCase
  Limit = 3
  DayLength = 24
  MinLivesForRecords = 1
  Now = 60
  DipLookahead = 2
  Periods = {0, 1, 2}
  PeriodDays = 1
  ChatTail = 12
  MinFelt = 1
  Weeks <- FiveDays
INVARIANTS
  SentAgainOnlyAfterSlip
  LostOnlyIfEveryHourFailed
  NumbersAgree
  MoneyAddsUp
  RecapAgrees
  KeptToChannel
PROPERTIES
  ReservationIsFinal
SYMMETRY Same
CHECK_DEADLOCK FALSE
