SPECIFICATION Spec
CONSTANTS
  follow = follow
  cheer = cheer
  fan = fan
  h1 = h1
  h2 = h2
  Messages <- OneMessage
  Users <- OneUser
  Follows <- NoFollow
  UserOf <- UserOfFollow
  Handlers <- OneHandler
  MaxAge = 3
  DedupTTL = 3
  SenderAhead = 0
  DbAhead = 0
  MaxDelay = 1
  MaxTime = 5
INVARIANTS
  HandledAtMostOnce
CHECK_DEADLOCK FALSE
