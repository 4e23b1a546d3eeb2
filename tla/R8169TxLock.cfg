SPECIFICATION Spec
CONSTANTS
  NumBuffer = 2
  q1 = q1
  q2 = q2
  q3 = q3
  Requests = {q1}
  None = None
  Uses <- Sending
  Misc = {}
INVARIANTS
  TxLockReleased
CHECK_DEADLOCK FALSE
