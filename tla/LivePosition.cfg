SPECIFICATION FairSpec
CONSTANTS
  GateOpen = TRUE
  Volume = 2
  Lookback = 0
  MaxOpens = 2
  MaxMalformed = 1
  Entry = 13
  Pip = 3
  SlDist = 6
  TriggerDist = 6
  TrailDist = 6
  LockDist = 3
  Moves = {0, 6, 10}
  Cull = 2
INVARIANTS BooksExactMoney LockedProfitWithinHalfPip
PROPERTY StopNeverLoosens RetiredStaysOut FlatIsReleased
CHECK_DEADLOCK FALSE
