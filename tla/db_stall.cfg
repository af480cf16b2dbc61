SPECIFICATION Spec
CONSTANTS
  Writers = {w1, w2, w3}
  Compactors = {}
  FFCs = {f1}
  Readers = {}
  Closers = {}
  None = None
  Bg = Bg
  MaxCalls = 1
  IOErrors = FALSE
  NumLevels = 3
  MaxFiles = 1
  Scenarios <- Together
  L0_CompactionTrigger = 1
  L0_SlowdownWritesTrigger = 1
  L0_StopWritesTrigger = 1
CHECK_DEADLOCK FALSE
SYMMETRY Symmetry
INVARIANT
  NoLostWakeup
