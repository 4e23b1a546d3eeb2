SPECIFICATION MemSpec
CONSTANTS
  WordBits = 4
  IntBits = 2
  PageUnits = 2
  WordUnits = 1
  StartPages = 2
  Maps <- MCMaps
INVARIANTS FreeIsUsable
CHECK_DEADLOCK FALSE
