SPECIFICATION LiveSpec
CONSTANTS
  Tx = {t1}
  Amount <- MCAmount
  Fee = 1
  Initial = 3
  Cancels = {t1}
  Loops = {l1}
  Workers = {w1}
  None = None
  BatchSize = 1
  MaxPaid = 2
  Faults = {"drop", "timeout"}
CHECK_DEADLOCK FALSE
PROPERTIES
  CallsReturn
  LoopsEnd
  RequestsServed
  ImplementsLedger
