SPECIFICATION FairSpec
CONSTANTS
  NumBuffer = 3
  q1 = q1
  q2 = q2
  q3 = q3
  Requests = {q1, q2, q3}
  None = None
  Uses <- Buffers
  Misc = {"link"}
INVARIANTS
  TypeOK
  DoneIsFinished
  OwnedIsOutstanding
  RxHandlerRuns
PROPERTIES
  ImplementsQueue
  RxReported
CHECK_DEADLOCK FALSE
