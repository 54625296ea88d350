CONSTANTS
  h1 = h1
  h2 = h2
  c1 = c1
  Handlers = {h1, h2}
  Callers = {c1}
  Capacity = 2
  ReadLimit = 2
  Wake = wake
  Stop = stop
  Sizes = {1, 2}
  MaxResizes = 2
SPECIFICATION Spec
INVARIANTS ResizeInv NoForeignWrite
PROPERTIES StopReturns SizeReachesPty
CHECK_DEADLOCK FALSE
