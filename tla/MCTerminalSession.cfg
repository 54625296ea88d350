CONSTANTS
  None = None
  QueueLimit = 2
  SignalLimit = 1
SPECIFICATION Spec
INVARIANT TerminalInv
PROPERTIES TouchedInTurn NoReplayedStop RawInForeground
CHECK_DEADLOCK FALSE
