SPECIFICATION FairSpec
CONSTANTS
  Writers = {w1, w2}
  Compactors = {c1}
  FFCs = {f1}
  Readers = {r1}
  Closers = {d1}
  None = None
  Bg = Bg
  MaxCalls = 1
  IOErrors = TRUE
  NumLevels = 3
  MaxFiles = 1
  Scenarios <- Mixed
  L0_CompactionTrigger = 1
  L0_SlowdownWritesTrigger = 1
  L0_StopWritesTrigger = 1
CHECK_DEADLOCK FALSE
INVARIANTS
  TypeOK
  OneLogger
  NoLostSignal
  NoLostWakeup
  NoLostWork
  ManualOwned
  L0Bound
  SyncRespected
  CloseSafe
PROPERTIES
  MemStable
  CallsReturn
