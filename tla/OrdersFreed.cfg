SPECIFICATION LiveSpec
CONSTANTS
  c1 = c1
  e1 = e1
  o1 = o1
  o2 = o2
  NoOrder = NoOrder
  NoActor = NoActor
  Orders = {o1, o2}
  Clients = {c1}
  Evaluators = {}
  Wanted <- MCWanted
  Sizes = {1, 3}
  Unit = 2
  Capital = 10
INVARIANT RestingIsReserved
CHECK_DEADLOCK FALSE
