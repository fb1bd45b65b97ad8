SPECIFICATION Spec
CONSTANTS
  follow = follow
  cheer = cheer
  fan = fan
  h1 = h1
  h2 = h2
  Messages <- TwoMessages
  Users <- OneUser
  Follows <- OneFollow
  UserOf <- UserOfFollow
  Handlers <- OneHandler
  MaxAge = 1
  DedupTTL = 1
  SenderAhead = 0
  DbAhead = 0
  MaxDelay = 1
  MaxTime = 4
INVARIANTS
  AnsweredMeansProcessed
CHECK_DEADLOCK FALSE
