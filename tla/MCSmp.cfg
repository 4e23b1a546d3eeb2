SPECIFICATION Spec
CONSTANTS
  NumAp = 2
  CStates = 4
  None = None
INVARIANTS TypeOK NoLostWakeup
PROPERTIES Handshake BenchEnds CommandRuns
