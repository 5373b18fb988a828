CONSTANTS
  w1 = w1  w2 = w2  w3 = w3  i1 = i1  i2 = i2
  NumInst = 2
  Workers <- MCWorkers3
  Instruments <- MCInstruments
  StartDate <- MCStartDate
  EndDate <- MCEndDate
  MaxDayInMemory = 3
  Fetchable <- MCFetchable
SYMMETRY MCSymmetry
SPECIFICATION Spec
INVARIANTS TypeOK OneReplayPerInstance MemoryAccounting EachDayOnce ExitMeansComplete ReplayOnlyLoadedDays
PROPERTY FollowsSchedule
CHECK_DEADLOCK FALSE
