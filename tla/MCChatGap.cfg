SPECIFICATION ChatSpec
CONSTANTS
  MaxClips = 1
  MaxMessages = 2
  MaxSeconds = 2
  MaxTrouble = 2
INVARIANT GapIsTimeAway
CHECK_DEADLOCK FALSE
