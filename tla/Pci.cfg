SPECIFICATION PciSpec
CONSTANTS
  PciIrqs <- MCIrqs
  MaxHandlers = 8
  Devices = {"nic"}
  None = None
  NumBus = 4
  AnyFn = 65535
  Machines <- MCMachines
INVARIANTS PciTypeOK TreeUnlessNested CalledIsStored DriverReady
PROPERTIES InterruptServed
CHECK_DEADLOCK FALSE
