CONSTANTS
  w1 = w1  w2 = w2  w3 = w3  i1 = i1  i2 = i2
  NumInst = 2
  Workers <- MCWorkers
  Instruments <- MCInstruments
  StartDate <- MCStartDate
  EndDate <- MCEndDate
  MaxDayInMemory = 2
  Fetchable <- MCFetchable
SPECIFICATION FairSpec
PROPERTIES RunReturns RefinesFairSchedule
CHECK_DEADLOCK FALSE
