SPECIFICATION StorageSpec
CONSTANTS
  CacheKeys = {1, 2, 3}
  Capacity = 2
  Charges = {1, 2}
  MaxInserts = 3
  MaxHandles = 2
  TableUsers = {t1, t2}
  MaxNode = 3
  kMaxHeight = 2
  Iterators = {i1}
  LimiterThreads = {t1, t2, t3}
  Limiters <- MCLimiters
  mmap_limiter_ = mmap_limiter_
  fd_limiter_ = fd_limiter_
  max_acquires_ <- MCMaxAcquires
  kBlockSize = 7
  kHeaderSize = 3
  Lengths = {0, 1, 3, 6}
  MaxRecords = 4
  HashKeys = {1, 2, 3, 4, 5}
  Hash <- MCHash
  Versions = {1, 2}
  Letters = {1, 2}
  block_restart_interval = 2
  TwoKeys = {1, 2, 3, 4}
  MaxBlocks = 3
  MergeKeys = {1, 2, 3, 4, 5}
  Children = {1, 2, 3}
  UserKeys = {1, 2}
  MaxOps = 3
  TableKeys <- MCTableKeys
  TableSeqs = {1, 2, 3}
  MaxTombstones = 1
  BlockSizes = {1, 5}
  kFilterBase = 2
  bits_per_key = 2
  kMinBits = 3
  kWritableFileBufferSize = 2
  is_manifest_ = TRUE
  MaxBytes = 6
  Processes = {A, B}
  NumThreads = 2
  NoProcess = NoProcess
CHECK_DEADLOCK FALSE
INVARIANTS
  LogRoundTrip
  LogDamageConfined
  CacheExact
  TableIsMap
  TablesInUse
  TableRoundTrip
  LockOwned
  LimiterExact
PROPERTIES
  CapacityEnforced
  ReadersSeeSet
  BlockIsSorted
  TwoLevelIsSorted
  MergeIsSorted
  IteratesOverSnapshot
  FileHasNoGap
