SPECIFICATION SafeSpec
CONSTANTS
  MaxLives = 2
  OfflineSamplesToEnd = 3
  Orders = {FALSE}
  MaxGlitches = 0
  MaxLost = 0
  MaxErrors = 0
  MaxCrashes = 0
INVARIANTS
  HeardLiveIsCaptured
CHECK_DEADLOCK FALSE
