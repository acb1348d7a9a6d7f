SPECIFICATION LiveSpec
CONSTANTS
  c1 = c1
  c2 = c2
  w1 = w1
  w2 = w2
  Entry = Entry
  NoClaim = NoClaim
  NoLeg = NoLeg
  Ordered = 3
  MaxExits = 3
  Callers = {c1, c2}
  Workers = {w1, w2}
  MaxCrashes = 1
  InTurn = TRUE
  QuietBoot = TRUE
  WholeEntry = TRUE
INVARIANTS
  TypeOK
  NeverReversed
  LegIsItsRows
  FinishedIsFlat
PROPERTY
  OrdersLetGo
CHECK_DEADLOCK FALSE
