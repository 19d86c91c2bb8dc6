SPECIFICATION Spec
CONSTANTS
  Threads = {t1, t2, t3}
  Cancellers = {c1}
  Tokens = {k1}
  NoToken = NoToken
  Limit = 2
  Slots = {s1}
  NoSlot = NoSlot
  MaxId = 3
SYMMETRY Symmetry
INVARIANTS TypeOK PermitsConserved SlotsPartitioned NoLostWakeup CancelWakesWaiters
PROPERTY GrantsInOrder
