SPECIFICATION FairSpec
CONSTANTS
  o1 = o1
  o2 = o2
  o3 = o3
  u1 = u1
  u2 = u2
  Unit = 2
  Scale = 1
  Infinity = 100
  Order = {o1, o2, o3}
  Removable = {}
  Person = {u1, u2}
  UserOf <- MCUserOf
  Kinds <- BetterPrice
  Funds = 96
  Faults = {}
PROPERTIES PendingExecuted
CHECK_DEADLOCK FALSE
