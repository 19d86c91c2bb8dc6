SPECIFICATION FairSpec
CONSTANTS
  Requests = {r1, r2}
  Asks <- AsksOfLimit2
  Limit = 2
  SlotLimit = 1
  DirectWidth = 1
  MaxDirect = 1
INVARIANTS CapacityConserved StoppedLeavesNobodyWaiting QueuedOnce
PROPERTY EveryRequestSettles
CHECK_DEADLOCK FALSE
