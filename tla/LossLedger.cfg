SPECIFICATION Spec
CONSTANTS
  GateOpen = TRUE
  Engines = {w1}
  Nobody = Nobody
  Periods = {"day", "week", "month"}
  Length <- Lengths
  Cap <- Caps
  MaxPositions = 2
  FirstDay = 2
  MaxDay = 3
  MaxUpsets = 2
PROPERTY AccountCapHolds NoPhantomTrip JournalKeepsRows
