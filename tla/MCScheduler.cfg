SPECIFICATION FairSpec
CONSTANTS
  Requests = 2
  Iters = 2
  MinTxs = 2
  Kinds <- MCKinds
  Faults <- MCFaults
INVARIANTS RequestIsQueued WorkedOnce
 
