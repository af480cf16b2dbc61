CONSTANTS
  MaxKey = 1
  MaxSeq = 2
  MaxBatch = 1
  MaxSnapshots = 1
  MaxIterators = 0
  NumLevels = 3
  MaxMemCompactLevel = 1
  Workloads = {{0, 1}}
SPECIFICATION Spec
INVARIANTS SnapshotGet
CHECK_DEADLOCK FALSE
