SPECIFICATION Spec
CONSTANTS
  Tx = {t1}
  Amount <- MCAmount
  Fee = 1
  Initial = 3
  Cancels = {t1}
  Loops = {l1, l2}
  Workers = {w1, w2}
  None = None
  BatchSize = 1
  MaxPaid = 2
  Faults = {"drop", "timeout", "accounts", "crash", "node", "db"}
CHECK_DEADLOCK FALSE
INVARIANTS
  TypeOK
  OpMatchesDoc
  PaidIsRecorded
  RecalledNeverPaid
  
SYMMETRY Symmetry
