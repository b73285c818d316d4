SPECIFICATION Spec
CONSTANTS
  d1 = d1
  d2 = d2
  Dep = {d1, d2}
  TxidOf <- Alone
  AccountOf <- Alone
  Orphans <- Second
  Amount <- MCAmount
  Initial = 1
  Runs = {r1, r2}
  NoItem = NoItem
  Faults = {"drop", "crash", "db"}
CHECK_DEADLOCK FALSE
INVARIANTS
  TypeOK
  OpMatchesDoc
  CreditedWasConfirmed
  CompletedMeansCredited
PROPERTIES
  ImplementsLedger
