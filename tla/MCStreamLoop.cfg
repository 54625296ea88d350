CONSTANTS
  None = None
  Setups <- MCSetups
  MaxKeys = 2
  MaxOutput = 3
  ChannelCap = 2
  TokenLimit = 1
  Window = 2
  SampleLimit = 3
  Interval = 2
SPECIFICATION Spec
INVARIANTS StreamInv CommandBeforeOutput

CHECK_DEADLOCK FALSE
PROPERTIES DrawnInOrder TailIsDrawn
