CONSTANTS
  i1 = i1
  Instruments <- MCInstruments
  Prices <- MCPrices
  Quantities <- MCQuantities
  Submitted <- MCSubmitted
  multiplier <- MCMultiplier
  InitialCash <- MCCash
  Carried <- MCCarried
  MaxRequests = 3
  MaxDays = 1
  MaxDepth = 2
SPECIFICATION Spec
INVARIANTS TypeOK Ledger UnmatchedOnlyReentrant FilledAsRequested EveryOrderConcluded
PROPERTY NothingBankedTwice
CHECK_DEADLOCK FALSE
