CONSTANTS
  MaxKey = 2
  MaxSeq = 3
  MaxBatch = 1
  MaxSnapshots = 0
  MaxIterators = 0
  NumLevels = 4
  MaxMemCompactLevel = 2
  Workloads = {{1, 2}}
SPECIFICATION Spec
INVARIANTS LatestGet
CHECK_DEADLOCK FALSE
