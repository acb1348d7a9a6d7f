SPECIFICATION Spec
CONSTANTS
  g1 = g1
  g2 = g2
  l1 = l1
  l2 = l2
  l3 = l3
  e1 = e1
  e2 = e2
  s1 = s1
  s2 = s2
  c1 = c1
  c2 = c2
  None = None
  Gtts = {g1, g2}
  Legs = {l1, l2, l3}
  GttOf <- OcoAndSingle
  Evaluators = {e1, e2}
  Sweepers = {s1}
  Clients = {c1}
  Capital = 3
  Amounts = {1, 2}
  MarginMode = "max"
  Expiring = {}
  Faults = {"release", "insert", "finalise"}
  Overlap = FALSE
  MaxCrashes = 1
SYMMETRY Evaluator2
INVARIANTS
  ArmedIsFunded
  MoneyConserved
  LedgerAgrees
