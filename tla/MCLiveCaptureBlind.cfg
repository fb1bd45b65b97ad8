SPECIFICATION Spec
CONSTANTS
  MaxLives = 1
  OfflineSamplesToEnd = 3
  Orders = {TRUE}
  MaxGlitches = 0
  MaxLost = 1
  MaxErrors = 1
  MaxCrashes = 0
PROPERTIES
  BackstopHolds
CHECK_DEADLOCK FALSE
