SPECIFICATION Spec
CONSTANTS
  MaxToken = 2
  MaxPanics = 0
INVARIANT NativeStopStaysActive
CHECK_DEADLOCK FALSE
