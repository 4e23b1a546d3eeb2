SPECIFICATION Spec
CONSTANTS
  Width = 8
  FreqKhz = 2
  UsecPerMsec = 2
  MaxUnits = 2
  Frames = {f1, f2}
  None = None
PROPERTIES WaitsFull
