SPECIFICATION Spec
CONSTANTS
  u1 = u1
  me = u1
  User = {u1}
  Sock = {1, 2}
  Logins = 2
  None = None
  Txs = 2
  PageSize = 1
  MaxEvents = 2
  MaxRequests = 2
  Budget = 4
INVARIANTS RemoveFinds MapIsExact  
CHECK_DEADLOCK FALSE
