CONSTANTS
  UserKeys = {1, 2}
  MaxOps = 3
SPECIFICATION DBIterSpec
INVARIANTS ValidIsEntry
