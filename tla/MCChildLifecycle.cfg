CONSTANTS
  None = None
  BufferBytes = 3
  LongBuffer = 4
SPECIFICATION MCSpec
INVARIANTS ChildInv StrangerNotStruck SpawnsAsAShell
PROPERTIES TerminationIsBounded InputFailureEndsSession
CHECK_DEADLOCK FALSE
