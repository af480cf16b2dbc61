SPECIFICATION Spec
CONSTANTS
  Writers = {w1}
  Compactors = {}
  FFCs = {f1, f2}
  Readers = {r1}
  Closers = {}
  None = None
  Bg = Bg
  MaxCalls = 1
  IOErrors = FALSE
  NumLevels = 3
  MaxFiles = 1
  Scenarios <- Reopened
  L0_CompactionTrigger = 1
  L0_SlowdownWritesTrigger = 1
  L0_StopWritesTrigger = 3
CHECK_DEADLOCK FALSE
SYMMETRY Symmetry
INVARIANTS
  NoLostWakeup
  FullExclusive
  NoAutomatic
