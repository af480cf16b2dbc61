SPECIFICATION Spec
CONSTANTS
  Writes = {1, 2}
  Torn = Torn
  None = None
  Setups <- OneFault
CHECK_DEADLOCK FALSE
INVARIANT
  SyncedIsFound
