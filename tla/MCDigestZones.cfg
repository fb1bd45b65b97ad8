SPECIFICATION Spec
CONSTANTS
  c1 = c1
  c2 = c2
  r1 = r1
  r2 = r2
  NoRun = NoRun
  NoMail = NoMail
  Channels <- OneChannel
  Runs <- OneRun
  Offsets = {0, 1}
  Day = 3
  Week = 3
  SendHour = 1
  MaxHour = 3
  MaxFaults = 0
  MaxMoves = 1
INVARIANTS
  OneRecapPerWeek
CHECK_DEADLOCK FALSE
