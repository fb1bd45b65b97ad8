SPECIFICATION SafeSpec
CONSTANTS
  u1 = u1
  u2 = u2
  Nobody = Nobody
  Users <- TwoUsers
  PageSize = 1
  AlwaysAllowed = 1
  ConfirmLimit = 1
  MaxChanges = 0
  MaxFaults = 1
  MaxRevokes = 0
INVARIANTS
  OnlyOwnerCanFix
CHECK_DEADLOCK FALSE
