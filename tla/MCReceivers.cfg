SPECIFICATION Spec
CONSTANTS
  Deposits = 4
  Nodes <- MCNodes
  Faults <- MCFaults
INVARIANTS KnownIsRecorded SweptOnce
CHECK_DEADLOCK FALSE
