SPECIFICATION MemSpec
CONSTANTS
  WordBits = 4
  IntBits = 2
  PageUnits = 2
  WordUnits = 1
  StartPages = 2
  Maps <- MCMaps
INVARIANTS ReservedIsNotFree
CHECK_DEADLOCK FALSE
