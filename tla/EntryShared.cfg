SPECIFICATION Spec
CONSTANTS
  Workers = {w1, w2}
  OrderIds = {o1, o2, o3, o4}
  NoOrder = NoOrder
  MaxDay = 3
  Cap = 2
  RiskCap = 1
  Risky = FALSE
  Faults = TRUE
SYMMETRY Symmetry
INVARIANTS TypeOK OneUnresolvedOrder SentIsDurable CountCoversSent DailyCapRespected PortfolioOvershootBounded
PROPERTY UncertaintyKept ImplementsSerialOrders
