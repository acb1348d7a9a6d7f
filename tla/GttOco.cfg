SPECIFICATION LiveSpec
CONSTANTS
  g1 = g1
  g2 = g2
  l1 = l1
  l2 = l2
  l3 = l3
  e1 = e1
  e2 = e2
  s1 = s1
  s2 = s2
  c1 = c1
  c2 = c2
  None = None
  Gtts = {g1}
  Legs = {l1, l2}
  GttOf <- OneOco
  Evaluators = {e1, e2}
  Sweepers = {s1}
  Clients = {c1}
  Capital = 2
  Amounts = {1}
  MarginMode = "max"
  Expiring = {g1}
  Faults = {"release", "insert", "finalise", "restore"}
  Overlap = FALSE
  MaxCrashes = 1
INVARIANTS
  TypeOK
  OneOrderPerGtt
  OrderedStaysTriggered
  ResolvedHoldsNothing
PROPERTIES
  PromiseKept
  ClaimsEnd
  FiresResolve
  OrdersAreMarked
