SPECIFICATION Spec
CONSTANTS
  o1 = o1
  o2 = o2
  l1 = l1
  l2 = l2
  c1 = c1
  c2 = c2
  Position = Position
  Ticker = Ticker
  NoActor = NoActor
  Orders = {o1, o2}
  Legs = {l1, l2}
  Clients = {c1, c2}
  MaxMoves = 2
  MaxCrashes = 1
SYMMETRY MCSymmetry
INVARIANTS
  TypeOK
  OrdersAreWatched
  LegsAreWatched
  RefsCoverWatched
PROPERTIES
  HeldIsNotDropped
CHECK_DEADLOCK FALSE
