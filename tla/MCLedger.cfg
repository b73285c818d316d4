SPECIFICATION Spec
CONSTANTS
  Op = {o1, o2, o3}
  Amounts <- MCAmounts
  Parts <- MCParts
  Initial = 4
INVARIANTS
  TypeOK
  NeverOverdrawn
  OpAccounted
  LockedIsPending
  Conserved
PROPERTY ClosedForGood
CHECK_DEADLOCK FALSE
