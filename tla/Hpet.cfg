SPECIFICATION Spec
CONSTANTS
  Width = 8
  FreqKhz = 3
  UsecPerMsec = 2
  MaxUnits = 3
  Frames = {f1, f2}
  None = None
INVARIANTS TypeOK IdleIsQuiet
PROPERTIES CleanWaitsFull WritesLiveWord WaitEnds
