SPECIFICATION Spec
CONSTANTS
  o1 = o1
  o2 = o2
  o3 = o3
  u1 = u1
  u2 = u2
  Unit = 2
  Scale = 1
  Infinity = 100
  Order = {o1, o2, o3}
  Removable = {o1}
  Person = {u1, u2}
  UserOf <- MCUserOf
  Kinds <- MCKinds
  Funds = 96
  Faults = {"crash", "db"}
INVARIANTS BookIsSound  WithinLimit ReadyIsBacked TradesConserve  ReadyIsTradable
