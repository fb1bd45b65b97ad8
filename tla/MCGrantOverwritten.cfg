SPECIFICATION GrantSpec
CONSTANTS
  Callers = {"cb", "clip"}
  Callback = "cb"
  Accounts = {"u"}
  MaxTokens = 3
  Backfill <- TwoSteps
  AddOnly = {"vips"}
PROPERTIES
  StoredTokenStays
CHECK_DEADLOCK FALSE
