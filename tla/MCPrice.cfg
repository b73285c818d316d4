SPECIFICATION PriceSpec
CONSTANTS
  Reports = 3
  Calls = 2
  Minutes = 5
  Age = 2
  Prices <- MCPrices
  Faults <- MCFaults
INVARIANTS HourIsKept
CHECK_DEADLOCK FALSE
