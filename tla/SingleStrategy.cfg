CONSTANTS
  i1 = i1
  Instruments <- MCInstruments
  Prices <- MCPrices
  Quantities <- MCQuantities
  Submitted <- FutureRequests
  multiplier <- MCMultiplier
  InitialCash <- MCCash
  Carried <- MCNotCarried
  MaxRequests = 3
  MaxDays = 2
  MaxDepth = 1
  Configs <- MCConfigs
  max_pos = 1
  Quotes <- MCQuotes
  TickTimes <- MCTickTimes
SPECIFICATION StrategySpec
INVARIANTS StrategyTypeOK BookBacked NoOrderRejected OneSided NoRoundTripInTick LiquidatedStaysFlat ResultLinesAgree MarkedAtLastTick PreTickOutlivesDay
CHECK_DEADLOCK FALSE
