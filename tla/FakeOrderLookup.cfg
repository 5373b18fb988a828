CONSTANTS
  i1 = i1
  Instruments <- MCInstruments
  Prices <- MCPrices
  Quantities <- MCQuantities
  Submitted <- MCSubmitted
  multiplier <- MCMultiplier
  InitialCash <- MCCash
  Carried <- MCCarried
  MaxRequests = 3
  MaxDays = 1
  MaxDepth = 2
SPECIFICATION Spec
INVARIANT LookupFindsAllOrders
CHECK_DEADLOCK FALSE
