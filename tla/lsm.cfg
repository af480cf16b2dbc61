CONSTANTS
  MaxKey = 2
  MaxSeq = 3
  MaxBatch = 1
  MaxSnapshots = 1
  MaxIterators = 1
  NumLevels = 3
  MaxMemCompactLevel = 1
  Workloads = {{0, 1}, {1, 2}}
SPECIFICATION Spec
INVARIANTS TypeOK LatestPoint NewerAbove IterationIsSnapshot ScanIsSnapshot
CHECK_DEADLOCK FALSE
