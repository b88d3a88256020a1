SPECIFICATION Spec
CONSTANTS
  b1 = b1
  b2 = b2
  b3 = b3
  e1 = e1
  e2 = e2
  e3 = e3
  e4 = e4
  Batches = {b1, b2}
  Events = {e1, e2, e3, e4}
  Content <- MCTwoEvents
  Instances = {i1, i2}
  DBs = {d1}
  Poison = {}
  SpoolMax = 2
  FlushBatches = 2
  SpoolExpires = FALSE
  Primary = Primary
  NoEntry = NoEntry
INVARIANTS NoAckedEventLost
