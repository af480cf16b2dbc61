SPECIFICATION Spec
CONSTANTS
  Writes = {1, 2}
  Torn = Torn
  None = None
  Setups <- AllSetups
CHECK_DEADLOCK FALSE
INVARIANTS
  MemoryMatchesFiles
  LiveTablesIntact
  OpenSucceeds
  FreshSequence

  
