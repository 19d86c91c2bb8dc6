SPECIFICATION FairSpec
CONSTANTS
  MaxToken = 2
  MaxPanics = 1
INVARIANTS LeaseCoversWork ComputingIsShownAndStoppable
PROPERTY StopIsCarriedOut
CHECK_DEADLOCK FALSE
