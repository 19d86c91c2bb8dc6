SPECIFICATION Spec
CONSTANTS
  Workers = {w1, w2}
  OrderIds = {o1, o2, o3}
  NoOrder = NoOrder
  MaxDay = 2
  Cap = 2
  RiskCap = 2
  Risky = TRUE
  Faults = TRUE
SYMMETRY Symmetry
INVARIANT NeverUnderCountsFilled
