SPECIFICATION Spec
CONSTANTS
  u1 = u1
  u2 = u2
  Nobody = Nobody
  Users <- TwoUsers
  PageSize = 1
  AlwaysAllowed = 1
  ConfirmLimit = 1
  MaxChanges = 2
  MaxFaults = 1
  MaxRevokes = 1
PROPERTIES
  GoneWereAway
  RestartResumes
  RowsConverge
CHECK_DEADLOCK FALSE
