SPECIFICATION SafeSpec
CONSTANTS
  s1 = s1
  s2 = s2
  t1 = t1
  t2 = t2
  a1 = a1
  NoJob = NoJob
  Streams <- OneLive
  Jobs <- OneReportIds
  Workers <- Pool
  StreamOf <- LiveOfId
  KindOf <- KindOfId
  TypeOf <- TypeOfWorker
  MaxAttempts = 2
  StaleAfter = 0
  MaxLostBeats = 9
INVARIANT
  RerunsReplace
