CONSTANTS
  Reads <- MCReads
  MaxString = 3
  MaxOther = 2
SPECIFICATION Spec
INVARIANTS FilterInv TextIsKept ControlsAreNotShown
CHECK_DEADLOCK FALSE
