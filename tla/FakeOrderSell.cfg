CONSTANTS
  i1 = i1
  Instruments <- MCInstruments
  Prices <- MCPrices
  Quantities <- MCQuantities
  Submitted <- MCSecurityTrades
  multiplier <- MCMultiplier
  InitialCash <- MCCash
  Carried <- MCNotCarried
  MaxRequests = 3
  MaxDays = 1
  MaxDepth = 2
SPECIFICATION Spec
INVARIANT SellsYesterdaysPosition
CHECK_DEADLOCK FALSE
