SPECIFICATION TipsSpec
CONSTANTS
  Syncs = {"s"}
  Kinds = {"tip", "merch"}
  PageCap = 1
  MaxSales = 1
  MaxClock = 1
  MaxFailures = 1
INVARIANT NextSyncRetries
CHECK_DEADLOCK FALSE
