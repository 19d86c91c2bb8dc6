SPECIFICATION Spec
CONSTANTS
  Engines = {w1, w2}
  NoEngine = NoEngine
  MaxDay = 2
  DaysPerMonth = 1
  Initial = 9
  Amounts = {9, 10}
  DailyPct = 10
  TotalPct = 20
  HaltPct = 10
  TargetPct = 10
  MaxDeals = 2
  MaxUpsets = 1
SYMMETRY Symmetry
INVARIANTS DayAnchorTruthful DailyLossStopsEntries
PROPERTY LatchedRefusalIsFinal CheckpointNeverForgives
