SPECIFICATION ChatSpec
CONSTANTS
  MaxClips = 1
  MaxMessages = 2
  MaxSeconds = 1
  MaxTrouble = 1
INVARIANT ClipsPerStream
CHECK_DEADLOCK FALSE
