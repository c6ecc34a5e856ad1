SPECIFICATION LiveSpec
CONSTANTS
  None = None
  MESSAGES = 3
  BUFFER = 1
INVARIANTS
  TypeOK
  CancelledAfterClose
  QuietAfterRun
  DrainedBeforeEnd
  OnlyAPeerBlocks
PROPERTIES
  HangUpEndsConnection
  ImplementsRelay
\* A connection ends: the worker's "done" is final.
CHECK_DEADLOCK FALSE
