SPECIFICATION LiveSpec
CONSTANTS
  p1 = p1
  p2 = p2
  w1 = w1
  w2 = w2
  b1 = b1
  b2 = b2
  NoWork = NoWork
  Publishers = {p1, p2}
  Subscriptions = {b1, b2}
  Workers = {w1, w2}
  MaxPending = 2
  MaxEvents = 2
  ThreadsMayFail = TRUE
INVARIANTS
  SlotsMatchWork
  NeverOverCapacity
PROPERTIES
  AlwaysReopens
