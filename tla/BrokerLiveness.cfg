SPECIFICATION FairSpec
CONSTANTS
  Threads = {t1, t2, t3}
  Cancellers = {}
  Tokens = {}
  NoToken = NoToken
  Limit = 2
  Slots = {s1}
  NoSlot = NoSlot
  MaxId = 2
PROPERTY QueuedRequestsServed
