SPECIFICATION Spec
CONSTANTS
  s1 = s1
  s2 = s2
  t1 = t1
  t2 = t2
  a1 = a1
  NoJob = NoJob
  Streams <- OneLive
  Jobs <- OneLiveIds
  Workers <- Deployed
  StreamOf <- LiveOfId
  KindOf <- KindOfId
  TypeOf <- TypeOfWorker
  MaxAttempts = 3
  StaleAfter = 1
  MaxLostBeats = 9
PROPERTIES
  Lifecycle
  EveryLiveSettles
