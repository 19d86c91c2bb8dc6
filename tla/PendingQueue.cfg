SPECIFICATION FairSpec
CONSTANTS
  MaxActions = 3
  MaxPending = 2
  TTL = 1
  Retention = 2
  MaxTime = 3
  Disconnects = TRUE
INVARIANTS AtMostOneCall OnlyFreshConfirmedSent PendingBounded
PROPERTY OutcomeStampedOrLeft
