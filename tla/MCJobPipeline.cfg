SPECIFICATION JobsSpec
CONSTANTS
  s1 = s1
  s2 = s2
  t1 = t1
  t2 = t2
  a1 = a1
  NoJob = NoJob
  Streams <- TwoLives
  Jobs <- TwoLivesIds
  Workers <- Deployed
  StreamOf <- LiveOfId
  KindOf <- KindOfId
  TypeOf <- TypeOfWorker
  MaxAttempts = 2
  StaleAfter = 0
  MaxLostBeats = 9
  MaxInput = 13
  MaxOutput = 8
  PeakInput = 3
  PeakOutput = 1
  BlockInput = 2
  BlockOutput = 1
  TopicsInput = 3
  FinalOutput = 1
  AdviceOutput = 1
  Extras = {0, 1}
  Drifts = {0, 1}
  MaxPeaks = 1
  MaxBlocks = 2
  MaxFacts = 1
  Profiles <- OneProfile
INVARIANTS
  NothingStranded
  StageAgreesWithJobs
  OutputOncePerStep
  FailedOnlyWhenSpent
  SpentWithinBudget
  ReserveKept
PROPERTIES
  LifecycleSafety
SYMMETRY SameLives
