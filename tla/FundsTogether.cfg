SPECIFICATION Spec
CONSTANTS
  t1 = t1
  t2 = t2
  t3 = t3
  NoThread = NoThread
  Threads = {t1, t2, t3}
  Capital = 2
  Amounts = {0, 1, 2}
  Profits <- SmallProfits
  MaxBalance = 2
SYMMETRY MCSymmetry
INVARIANTS
  UsedNeverNegative
PROPERTIES
  EachCommitIsWhole
