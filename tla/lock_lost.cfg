SPECIFICATION LockSpec
CONSTANTS
  Processes = {A, B}
  NumThreads = 2
  NoProcess = NoProcess
INVARIANT
  LockExclusion
