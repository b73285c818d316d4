SPECIFICATION Spec
CONSTANTS
  Tx = {t1, t2}
  Amount <- MCAmount
  Fee = 1
  Initial = 4
  Cancels = {t2}
  Loops = {l1}
  Workers = {w1}
  None = None
  BatchSize = 2
  MaxPaid = 2
  Faults = {}
CHECK_DEADLOCK FALSE
INVARIANT PaidIsRecorded
