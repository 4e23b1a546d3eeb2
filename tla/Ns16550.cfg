SPECIFICATION Spec
CONSTANTS
  Codes = 6
  Depth = 3
  MaxRead = 2
  MaxBurst = 2
INVARIANTS TypeOK BufferIsNext NoStray
PROPERTIES ReadEnds SignalsInProgress
