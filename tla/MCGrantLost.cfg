SPECIFICATION GrantSpec
CONSTANTS
  Callers = {"cb", "clip"}
  Callback = "cb"
  Accounts = {"u"}
  MaxTokens = 3
  Backfill <- TwoSteps
  AddOnly = {"vips"}
INVARIANTS
  RotatedTokenPersisted
CHECK_DEADLOCK FALSE
