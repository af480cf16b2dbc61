SPECIFICATION Spec
CONSTANTS
  Writers = {}
  Compactors = {}
  FFCs = {f1}
  Readers = {}
  Closers = {d1}
  None = None
  Bg = Bg
  MaxCalls = 1
  IOErrors = FALSE
  NumLevels = 3
  MaxFiles = 1
  Scenarios <- Together
  L0_CompactionTrigger = 1
  L0_SlowdownWritesTrigger = 1
  L0_StopWritesTrigger = 3
CHECK_DEADLOCK FALSE
INVARIANT
  CloseWaitsForFull
