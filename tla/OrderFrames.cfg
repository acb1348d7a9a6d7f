SPECIFICATION LiveSpec
CONSTANTS
  w1 = w1
  w2 = w2
  Placer = Placer
  NoUpdate = NoUpdate
  Workers = {w1, w2}
  Sent <- MCSent
  Ordered = 2
  MaxTries = 2
INVARIANTS
  TypeOK
  PriceIsOfItsQuantity
  EveryFrameIsAccountedFor
PROPERTIES
  TruthHolds
  FramesLand
CHECK_DEADLOCK FALSE
