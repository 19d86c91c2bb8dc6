SPECIFICATION FairSpec
CONSTANTS
  Engines = {w1, w2}
  Operator = op
  Cooldown = 2
  MaxFailures = 2
  MaxTime = 4
  MaxUpsets = 2
PROPERTY CooldownHolds BadBrokerStopsOrders
