SPECIFICATION AnalysisSpec
CONSTANTS
  MaxInput = 13
  MaxOutput = 8
  PeakInput = 3
  PeakOutput = 1
  BlockInput = 2
  BlockOutput = 1
  TopicsInput = 3
  FinalOutput = 1
  AdviceOutput = 2
  Extras = {0, 1, 2}
  Drifts = {0}
  MaxPeaks = 1
  MaxBlocks = 2
  MaxFacts = 1
  Profiles <- OneProfile
INVARIANTS
  EvidenceWasSeen
CHECK_DEADLOCK FALSE
