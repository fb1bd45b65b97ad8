SPECIFICATION Spec
CONSTANTS
  MaxLives = 2
  OfflineSamplesToEnd = 3
  Orders = {TRUE, FALSE}
  MaxGlitches = 2
  MaxLost = 2
  MaxErrors = 1
  MaxCrashes = 2
INVARIANTS
  OneActiveRow
  SamplerWritesOpenRows
  EndedOnlyWhenOver
  OwnRowWhileAiring
PROPERTIES
  RowsSettle
  RowsInOrder
  RowsHandedOver
CHECK_DEADLOCK FALSE
