SPECIFICATION Spec
CONSTANTS
  c1 = c1
  c2 = c2
  w1 = w1
  w2 = w2
  Entry = Entry
  NoClaim = NoClaim
  NoLeg = NoLeg
  Ordered = 2
  MaxExits = 2
  Callers = {c1}
  Workers = {w1, w2}
  MaxCrashes = 0
  InTurn = FALSE
  QuietBoot = TRUE
  WholeEntry = TRUE
INVARIANT NeverReversed
CHECK_DEADLOCK FALSE
